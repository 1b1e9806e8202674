----------------------------- MODULE MCDispatch -----------------------------
(* Every way three files may extend each other, with local overrides; then *)
(* the jobs, listings and options of one file; packages; and the imports.  *)
EXTENDS Dispatch

CONSTANT bad

toml == "betterhook.toml"
MCCandidates == <<toml, "betterhook.kdl">>
MCLocals == {"betterhook.local.toml", "betterhook.local.yml"}
MCFile == ToSet(MCCandidates) \cup MCLocals \cup {"a", "b", "c"}
MCGitHooks == {"pre-commit", "pre-push"}

f1 == <<"app", "ui", "x">>
f2 == <<"app", "y">>
f3 == <<"z">>
MCBytes == (f1 :> 3) @@ (f2 :> 8) @@ (f3 :> 1)
MCBuiltin == "fmt" :> ("run" :> [by |-> "fmt", vars |-> {"files"}, bytes |-> 2]
                         @@ "stage_fixed" :> TRUE @@ "glob" :> {f1, f2})

Cmd(by, templates) == [by |-> by, vars |-> templates, bytes |-> 4]
Run(by, templates) == "run" :> Cmd(by, templates)
Hooks(flags, jobs) == "pre-commit" :> [flags |-> flags, jobs |-> jobs]
Toml(extends, hooks) ==
  [format |-> "toml",
   body |-> [EmptyConfig EXCEPT !.extends = extends, !.hooks = hooks]]

Git(staged, tracked, pushed) == [staged |-> staged, tracked |-> tracked, pushed |-> pushed]
NoLists == [only |-> {}, skip |-> {}]
Call(command, hook, git) ==
  [command |-> command, hook |-> hook, git |-> git, args |-> NoLists, env |-> NoLists]
Commit == Call("dispatch", "pre-commit", Git(<<f1, f2, f3>>, <<f1, f2, f3>>, bad))

Case(files, how, other) == [disk |-> files, call |-> how, foreign |-> other]

(* Extends of all shapes: diamonds, repetitions, cycles, missing files.    *)
Tag(f) == "fail_text" :> f
Main(x) == Toml(x, Hooks("parallel" :> toml, 2 :> Tag(toml) @@ 1 :> (Run(toml, {}) @@ Tag(toml))))
A(x) == Toml(x, Hooks("parallel" :> "a" @@ "fail_fast" :> "a",
                      1 :> (Run("a", {}) @@ Tag("a")) @@ 2 :> (Run("a", {}) @@ Tag("a"))))
B(x) == [format |-> "kdl",
         body |-> << [is |-> "extends", paths |-> x],
                     [is |-> "hook", name |-> "pre-commit",
                      children |-> << [is |-> "flag", sets |-> "priority" :> <<3, 2, 3>>],
                                      [is |-> "job", name |-> 2, sets |-> Run("b", {}) @@ "root" :> "b"],
                                      [is |-> "job", name |-> 3, sets |-> Run("b", {})] >>] >>]
LocalFile == Toml(<<"c">>, Hooks(None, 1 :> Tag("local")))
LocalDisks == { None, "betterhook.local.toml" :> LocalFile,
                "betterhook.local.yml" :> [format |-> "yaml", body |-> bad],
                [l \in MCLocals |-> LocalFile] }
Graphs_ ==
  { Case(toml :> Main(m) @@ "a" :> A(a) @@ "b" :> B(b) @@ l, Commit, None) :
      m \in {<<>>, <<"a">>, <<"b">>, <<"a", "b">>, <<"b", "a">>, <<"a", "a">>, <<"a", "b", "a">>},
      a \in {<<>>, <<"b">>, <<"a">>, <<"c">>, <<toml>>},
      b \in {<<>>, <<"a">>, <<toml>>}, l \in LocalDisks }

(* One file: what its jobs are, what git lists, what is asked for.         *)
Jobs ==
  { 1 :> Run("x", {"files"}) @@ 2 :> Run("y", {}),
    1 :> (Run("x", {"files", "staged"}) @@ "exclude" :> {f1})
      @@ 2 :> (Run("y", {}) @@ "glob" :> {f3}),
    1 :> (Run("x", {"all"}) @@ "glob" :> bad) @@ 2 :> Run("y", {"push"}),
    1 :> (Run("x", {}) @@ "glob" :> bad),
    1 :> ("builtin" :> "fmt") @@ 2 :> Tag("no run"),
    1 :> ("builtin" :> "fmt" @@ "glob" :> {f3}) @@ 2 :> Run("y", {"push"}),
    1 :> ("builtin" :> "none"),
    1 :> (Run("x", {}) @@ "timeout" :> bad),
    1 :> (Run("x", {}) @@ "isolate" :> ("name" :> "db" @@ "slots" :> 0)),
    1 :> (Run("x", {"all"}) @@ "isolate" :> ("name" :> "db" @@ "slots" :> 2))
      @@ 2 :> (Run("y", {}) @@ "isolate" :> ("tool" :> "cargo")),
    1 :> (Run("x", {}) @@ "fix" :> Cmd("fix x", {"files"}) @@ "writes" :> {f1, f2})
      @@ 2 :> (Run("y", {"files"}) @@ "fix" :> Cmd("fix y", {}) @@ "network" :> TRUE)
      @@ 3 :> (Run("z", {}) @@ "reads" :> {f2, f3} @@ "network" :> TRUE),
    1 :> (Run("x", {}) @@ "writes" :> bad) }
MCCommands == {"dispatch", "run", "dry-run", "fix", "explain", "status"}
Calls ==
  { [command |-> c, hook |-> h, git |-> g, args |-> a, env |-> e] :
      c \in MCCommands, h \in MCGitHooks,
      g \in {Git(<<f1, f2, f3>>, <<f3, f1, f2, f2>>, bad), Git(<<>>, <<f3>>, <<f2>>)},
      a \in {NoLists, [only |-> {1}, skip |-> {}]},
      e \in {NoLists, [only |-> {2}, skip |-> {1}]} }
Plans ==
  { Case(toml :> Toml(<<>>, h :> [flags |-> o, jobs |-> j]), c, None) :
      h \in MCGitHooks, o \in {None, "priority" :> <<3, 2>>}, j \in Jobs,
      c \in Calls }

(* What is read in the first place.                                        *)
Firsts ==
  { Case(d, c, None) :
      d \in {None, toml :> Toml(<<>>, None), toml :> [format |-> "toml", body |-> bad],
             toml :> Toml(<<>>, Hooks(None, None)),
             toml :> [format |-> "toml",
                      body |-> [EmptyConfig EXCEPT !.meta = "min_betterhook" :> bad]],
             "betterhook.kdl" :> B(<<>>),
             "betterhook.kdl" :> [format |-> "kdl", body |-> <<[is |-> "package"]>>],
             "betterhook.kdl" :> [format |-> "kdl",
               body |-> <<[is |-> "meta", sets |-> "version" :> 1],
                          [is |-> "hook", name |-> "pre-commit",
                           children |-> <<[is |-> "flag", sets |-> "paralel" :> TRUE]>>]>>],
             toml :> Toml(<<"c">>, Hooks(None, None)) @@ "c" :> [format |-> "txt", body |-> bad],
             "betterhook.kdl" :> B(<<>>) @@ toml :> Main(<<"betterhook.kdl">>)},
      c \in { [Commit EXCEPT !.command = c] : c \in MCCommands } }

(* isolate in KDL: a name, a table, a table that says nothing or nonsense. *)
Isolates ==
  { Case("betterhook.kdl" :>
           [format |-> "kdl",
            body |-> <<[is |-> "hook", name |-> "pre-commit",
                        children |-> <<[is |-> "job", name |-> 1,
                                        sets |-> Run("x", {}) @@ "isolate" :> i]>>]>>],
         Commit, None) :
      i \in [args : {<<>>, <<"db">>, <<"db", "x">>},
             props : {None, "name" :> "db" @@ "slots" :> -1, "slots" :> 2,
                      "tool" :> "cargo", "names" :> "db"}] }

(* Packages, one in the other and two of the same path.                    *)
Package(path, hooks) == [path |-> path, hooks |-> hooks]
PackageHooks == { None, Hooks(None, None),
                  Hooks("fail_fast" :> TRUE @@ "priority" :> <<2>>,
                        1 :> Run("p", {}) @@ 2 :> Run("p", {})) }
Packages ==
  { Case(toml :> [format |-> "toml",
                  body |-> [EmptyConfig EXCEPT
                              !.hooks = r, !.extends = <<"a">>,
                              !.packages = 1 :> Package(<<"app">>, p)
                                           @@ 2 :> Package(q, Hooks(None, 4 :> Run("q", {})))]]
           @@ "a" :> [format |-> "json",
                      body |-> [EmptyConfig EXCEPT
                                  !.packages = 1 :> Package(<<"app">>, s)]],
         [Commit EXCEPT !.command = c], None) :
      r \in {None, Hooks(None, None), Hooks("parallel" :> TRUE, 1 :> Run("r", {}) @@ 3 :> Run("r", {}))},
      p \in PackageHooks, s \in PackageHooks,
      q \in {<<"app">>, <<"app", "ui">>}, c \in MCCommands }

Names(hook, jobs) == hook :> jobs
Lefthook_ ==
  [top |-> "pre-commit" :> [sets |-> "follow" :> TRUE @@ "parallel" :> TRUE,
                            commands |-> 1 :> ("glob" :> {f1} @@ "skip" :> bad)
                                         @@ 2 :> (Run("l", {"staged"}) @@ "isolate" :> "db")]
           @@ "pre-push" :> bad @@ "remotes" :> bad]
Husky_ ==
  [name |-> "pre-push",
   lines |-> <<[command |-> 2, run |-> Cmd("tsc", {})],
               [command |-> 1, run |-> Cmd("eslint", {})],
               [command |-> 2, run |-> Cmd("tsc", {})]>>]
Hk_ ==
  [hooks |-> "pre-commit" :> (1 :> ("fix" :> Cmd("fix", {})) @@ 2 :> Run("h", {"files"}))
             @@ "pre-push" :> None]
PreCommit_ ==
  [list |-> <<[id |-> "black", name |-> 2, glob |-> {f1}],
              [id |-> "black", name |-> 2, exclude |-> {f2}],
              [id |-> "ruff", name |-> 1]>>]
Foreign(from, format, files, jobs) ==
  [from |-> from, format |-> format, files |-> files, jobs |-> jobs]
Foreigns ==
  { Foreign("none", "none", ".pre-commit-config.yml" :> PreCommit_ @@ "lefthook.yaml" :> Lefthook_,
            Names("pre-commit", {1, 2})),
    Foreign(".husky/pre-push", "none", ".husky/pre-push" :> Husky_ @@ "lefthook.yml" :> Lefthook_,
            Names("pre-push", {12, 21, 23})),
    Foreign("hooks.toml", "hk", "hooks.toml" :> Hk_,
            Names("pre-commit", {1, 2}) @@ Names("pre-push", {})),
    Foreign("hooks.toml", "none", "hooks.toml" :> Hk_, None),
    Foreign("none", "none", "hooks.toml" :> Hk_, None),
    Foreign("none", "none", "hk.toml" :> Hk_ @@ ".pre-commit-config.yaml" :> PreCommit_,
            Names("pre-commit", {1, 2})) }
Imports ==
  { Case(d, [Commit EXCEPT !.hook = h], ("force" :> force) @@ foreign_) :
      d \in {None, toml :> Main(<<>>), "betterhook.kdl" :> B(<<>>),
             "betterhook.local.toml" :> LocalFile},
      h \in MCGitHooks, force \in BOOLEAN, foreign_ \in Foreigns }

MCCases == Graphs_ \cup Plans \cup Firsts \cup Isolates \cup Packages \cup Imports
=============================================================================
