---------------------------- MODULE ConfigImport ----------------------------
(* The importers of config/import: from the configuration of another hook  *)
(* manager to a RawConfig.  What the notes of the report say is left out.  *)
(***************************************************************************)
EXTENDS HookConfig

CONSTANT GitHooks   \* names of hooks that git has

(* pick_input: the file that is named, or else the first of these.         *)
SourceCandidates ==
  <<"lefthook.yml", "lefthook.yaml", ".pre-commit-config.yaml",
    ".pre-commit-config.yml", "hk.toml", ".husky/pre-commit">>

PickInput(from, files) ==
  IF from # "none" THEN <<from>>
  ELSE SelectSeq(SourceCandidates, LAMBDA c : c \in files)

(* ImportSource::auto_detect, by the name of the file.                     *)
AutoDetect(file) ==
  CASE file \in {"lefthook.yml", "lefthook.yaml"} -> "lefthook"
    [] file \in {".pre-commit-config.yaml", ".pre-commit-config.yml"} -> "pre-commit"
    [] file \in {"hk.toml", "hk.yaml", "hk.yml"} -> "hk"
    [] file \in { ".husky/" \o h : h \in GitHooks } -> "husky"
    [] OTHER -> "none"

(* What the user says it is counts more.                                   *)
PickSource(format, file) == IF format # "none" THEN format ELSE AutoDetect(file)

(* The command that is given to a job that has none.                       *)
NoCommand == [by |-> "true", vars |-> {}, bytes |-> 4]

V1FromHooks(hooks) == [EmptyConfig EXCEPT !.meta = ("version" :> 1), !.hooks = hooks]

WithJobs(jobs) == [EmptyHook EXCEPT !.jobs = jobs]

Keep(f, fields) == Restrict(f, DOMAIN f \cap fields)

(* Mutant: a command without `run` stays without.                          *)
MutRunOf(command) == Keep(command, {"run"})

RunOf(command) == [f \in {"run"} |-> Get(command, "run", NoCommand)]

(* A lefthook file: per top-level key a hook, or Bad where its body is     *)
(* none.  `skip` and `only` survive as strings, that is unless Bad.        *)
ConvertCommand(command) ==
  LET dropped == { f \in DOMAIN command \cap {"skip", "only"} : command[f] = Bad }
      kept == Keep(command, {"glob", "exclude", "tags", "root", "stage_fixed",
                             "interactive", "fail_text", "env", "skip", "only"} \ dropped)
      isolate == [f \in DOMAIN command \cap {"isolate"} |-> ("name" :> command.isolate)]
  IN  Laid(RunOf(command), Laid(isolate, kept))

ConvertHook(hook) ==
  [flags |-> Laid(Keep(hook.sets, {"parallel"}),
                  [f \in IF "follow" \in DOMAIN hook.sets THEN {"fail_fast"} ELSE {} |->
                     ~hook.sets.follow]),
   jobs |-> [c \in DOMAIN hook.commands |-> ConvertCommand(hook.commands[c])]]

(* is_known_git_hook: other keys are settings, and hooks need a body.      *)
KnownHooks(top) == { h \in DOMAIN top \cap GitHooks : top[h] # Bad }

Lefthook(top) ==
  V1FromHooks([h \in KnownHooks(top) |-> ConvertHook(top[h])])

(* A husky script is the lines that are left when comments, `set`,         *)
(* `source` and `export` are gone, npx and its like stripped.  A job is    *)
(* named for its command and the number of the line, so that the jobs      *)
(* stand in the order of the commands and not of the script.               *)
Husky(name, lines) ==
  LET number(i) == 10 * lines[i].command + i
      line(j) == CHOOSE i \in DOMAIN lines : number(i) = j
      jobs == [j \in { number(i) : i \in DOMAIN lines } |-> RunOf(lines[line(j)])]
  IN  V1FromHooks([h \in {name} |-> WithJobs(jobs)])

(* hk.toml: hooks of steps.                                                *)
Hk(hooks) ==
  LET step(s) == Laid(RunOf(s), Keep(s, {"fix", "glob", "exclude"}))
  IN  V1FromHooks([h \in DOMAIN hooks |->
                     WithJobs([j \in DOMAIN hooks[h] |-> step(hooks[h][j])])])

(* .pre-commit-config.yaml: the hooks of all repositories in one list.     *)
(* Their jobs are kept under name, or id: of two with one name the later   *)
(* is kept.                                                                *)
PreCommit(list) ==
  LET job(h) == Laid([run |-> [by |-> h.id, vars |-> {"files"}, bytes |-> 30],
                      tags |-> {"pre-commit"}], Keep(h, {"glob", "exclude"}))
      of(name) == { i \in DOMAIN list : list[i].name = name }
      last(name) == CHOOSE i \in of(name) : \A k \in of(name) : k <= i
      jobs == [name \in { list[i].name : i \in DOMAIN list } |-> job(list[last(name)])]
  IN  V1FromHooks([h \in {"pre-commit"} |-> WithJobs(jobs)])

(* import_file.                                                            *)
ImportFile(source, file) ==
  CASE source = "lefthook" -> Lefthook(file.top)
    [] source = "husky" -> Husky(file.name, file.lines)
    [] source = "hk" -> Hk(file.hooks)
    [] source = "pre-commit" -> PreCommit(file.list)
=============================================================================
