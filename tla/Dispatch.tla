------------------------------ MODULE Dispatch ------------------------------
(* What happens between git and the first job: the wrapper's               *)
(* `betterhook __dispatch`, or `betterhook run` or `fix`, finds a          *)
(* configuration, resolves what it extends, lays betterhook.local over it, *)
(* lowers it, picks the hook and plans its jobs (config/extends.rs,        *)
(* dispatch.rs, runner/plan.rs, the commands).  `explain`, `status` and    *)
(* `run --dry-run` go the same way and print what they find.  Before that  *)
(* a user may have imported the configuration of another tool.             *)
(*                                                                         *)
(* The resolution is the recursion of resolve_impl with its stack made     *)
(* explicit.  A path is canonical.  Files do not change while they are     *)
(* read, and the jobs themselves are the business of HookRun.              *)
(***************************************************************************)
EXTENDS JobPlan, ConfigImport, FiniteSets

CONSTANTS
  Candidates,   \* CONFIG_CANDIDATES, in order
  Locals,       \* the names betterhook.local may have
  File,         \* all configuration files
  Cases         \* disks and calls: a set of [disk, call, foreign]

VARIABLES
  disk,      \* the files that are there, with what they hold
  call,      \* the command line, the environment and what git lists
  foreign,   \* an import to be done, with the other tools' files, or None
  pc,        \* "start", "resolving", "lowering", "selecting", "planning", "done"
  stack,     \* the activations of resolve_impl, the innermost last
  seen,      \* the set `seen`
  raw,       \* what resolve returned
  config,    \* what lower returned
  todo,      \* jobs that are not planned yet
  plans,     \* plans made, None for a job without files
  shown,     \* what was printed of the configuration, per level and hook
  exit       \* how the process ended: see Ends

(* What a file can hold, and what a user can ask for.                      *)
IsCommand(c) == c.vars \subseteq TemplateVars /\ c.bytes \in Nat

IsJob(job) ==
  /\ \A f \in DOMAIN job \cap {"run", "fix"} : IsCommand(job[f])
  /\ \A f \in DOMAIN job \cap {"reads", "writes"} :
       job[f] = Bad \/ job[f] \subseteq DOMAIN Bytes

IsJobs(jobs) ==
  /\ IsFiniteSet(DOMAIN jobs) /\ DOMAIN jobs \subseteq Int
  /\ \A j \in DOMAIN jobs : IsJob(jobs[j])

IsHooks(hooks) ==
  \A h \in DOMAIN hooks :
    /\ hooks[h] = [flags |-> hooks[h].flags, jobs |-> hooks[h].jobs]
    /\ Get(hooks[h].flags, "priority", <<>>) \in Seq(Int)
    /\ IsJobs(hooks[h].jobs)

IsPackage(package) ==
  /\ package = [path |-> package.path, hooks |-> package.hooks]
  /\ package.path \in Seq(STRING) /\ IsHooks(package.hooks)

IsRawConfig(c) ==
  /\ c = [meta |-> c.meta, extends |-> c.extends, hooks |-> c.hooks,
          packages |-> c.packages]
  /\ c.extends \in Seq(File)
  /\ IsHooks(c.hooks)
  /\ IsFiniteSet(DOMAIN c.packages) /\ DOMAIN c.packages \subseteq Int \ {0}
  /\ \A p \in DOMAIN c.packages : IsPackage(c.packages[p])

(* What can be read of a file of another tool.                             *)
IsForeign(source, file) ==
  CASE source = "lefthook" ->
         \A h \in KnownHooks(file.top) : IsJobs(file.top[h].commands)
    [] source = "husky" ->
         /\ file.lines \in Seq(ToSet(file.lines))
         /\ \A i \in DOMAIN file.lines :
              /\ file.lines[i].command \in Nat
              /\ "run" \in DOMAIN file.lines[i] /\ IsCommand(file.lines[i].run)
    [] source = "hk" -> \A h \in DOMAIN file.hooks : IsJobs(file.hooks[h])
    [] source = "pre-commit" ->
         /\ file.list \in Seq(ToSet(file.list))
         /\ \A i \in DOMAIN file.list : file.list[i].name \in Int

IsImport(order) ==
  LET input == PickInput(order.from, DOMAIN order.files)
      source == PickSource(order.format, input[1])
  IN  /\ order.format \in {"none", "lefthook", "husky", "hk", "pre-commit"}
      /\ input # <<>> /\ source # "none" => IsForeign(source, order.files[input[1]])

ASSUME BuiltinAssumption == \A b \in DOMAIN Builtin : IsJob(Builtin[b])
ASSUME FilesAssumption ==
  /\ IsFiniteSet(File) /\ Locals \subseteq File
  /\ Candidates \in Seq(File) /\ Candidates # <<>>
ASSUME CasesAssumption ==
  \A c \in Cases :
    /\ DOMAIN c.disk \subseteq File
    /\ \A f \in DOMAIN c.disk :
         ParseBytes(c.disk[f]) = Bad \/ IsRawConfig(ParseBytes(c.disk[f]))
    /\ c.call.git \in Listing
    /\ c.foreign # None => IsImport(c.foreign)

vars == <<disk, call, foreign, pc, stack, seen, raw, config, todo, plans,
          shown, exit>>

Init ==
  /\ \E c \in Cases : disk = c.disk /\ call = c.call /\ foreign = c.foreign
  /\ pc = "start"
  /\ stack = <<>> /\ seen = {}
  /\ raw = EmptyConfig /\ config = Lower(EmptyConfig)
  /\ todo = <<>> /\ plans = <<>> /\ shown = None
  /\ exit = "none"

(* It had nothing to do ("noop"), ran the jobs ("run"), printed what it    *)
(* was asked for ("shown"), panicked, or ended in an error: "missing" is   *)
(* no configuration or no such hook, "glob" a job whose globs do not       *)
(* compile, "unresolved" and "invalid" what extends and lowering refuse.   *)
(* status makes a diagnostic of the last two and prints the rest.          *)
Ends(how) == pc' = "done" /\ exit' = how

-----------------------------------------------------------------------------
(* import refuses to overwrite betterhook.toml without --force, and to     *)
(* guess at a file it does not find or know by its name.                   *)
Import ==
  /\ pc = "start" /\ foreign # None
  /\ Candidates[1] \in DOMAIN disk => foreign.force
  /\ LET input == PickInput(foreign.from, DOMAIN foreign.files)
         source == PickSource(foreign.format, input[1])
     IN  /\ input # <<>> /\ source # "none"
         /\ disk' = Laid([f \in {Candidates[1]} |->
                            [format |-> "toml",
                             body |-> ImportFile(source, foreign.files[input[1]])]], disk)
  /\ foreign' = None
  /\ UNCHANGED <<call, pc, stack, seen, raw, config, todo, plans, shown,
                 exit>>

(* find_config_path: the first candidate that is there.                    *)
There == { i \in DOMAIN Candidates : Candidates[i] \in DOMAIN disk }
Found == Candidates[CHOOSE i \in There : \A k \in There : i <= k]

(* parse_file; a file that cannot be read is an error too.                 *)
ParseFile(f) == IF f \in DOMAIN disk THEN ParseBytes(disk[f]) ELSE Bad

(* How a call ends that finds nothing to do: only git's calls and status   *)
(* were not asked for it.                                                  *)
SoftMiss == CASE call.command = "dispatch" -> "noop"
              [] call.command = "status" -> "shown"
              [] OTHER -> "missing"

FindConfig ==
  /\ pc = "start"
  /\ IF There = {} THEN Ends(SoftMiss)
     ELSE pc' = "resolving" /\ UNCHANGED exit
  /\ UNCHANGED <<disk, call, foreign, stack, seen, raw, config, todo, plans, shown>>

(* The file resolve_impl is called for next, if any.                       *)
Wanted ==
  IF stack = <<>> THEN <<Found>>
  ELSE LET top == Last(stack)
       IN  IF top.next \in DOMAIN top.main.extends
           THEN <<top.main.extends[top.next]>> ELSE <<>>

Forget(f) == seen' = seen \ {f}

(* Mutant: extends of extends are taken as they come.                      *)
MutIsCircular(f) == FALSE

IsCircular(f) == f \in seen

(* A call of resolve_impl: a cycle and what does not parse are errors.     *)
Enter ==
  /\ pc = "resolving" /\ Wanted # <<>>
  /\ LET f == Wanted[1]
     IN  IF IsCircular(f) \/ ParseFile(f) = Bad
         THEN Ends("unresolved") /\ UNCHANGED <<stack, seen>>
         ELSE /\ seen' = seen \cup {f}
              /\ stack' = Append(stack, [file |-> f, main |-> ParseFile(f),
                                         next |-> 1, merged |-> EmptyConfig])
              /\ UNCHANGED <<pc, exit>>
  /\ UNCHANGED <<disk, call, foreign, raw, config, todo, plans, shown>>

(* What an activation has merged, with its own content on top.             *)
Merged(frame) ==
  OverlayConfig(frame.merged, [frame.main EXCEPT !.extends = <<>>])

(* The caller's loop, with the return value of resolve_impl for `ext`.     *)
Resume(frame, sub) ==
  [frame EXCEPT !.next = @ + 1, !.merged = OverlayConfig(@, Merged(sub))]

(* The return of a call to the one that extends the file.                  *)
Return ==
  /\ pc = "resolving" /\ Wanted = <<>> /\ Len(stack) > 1
  /\ LET n == Len(stack)
     IN  stack' = [Front(stack) EXCEPT ![n - 1] = Resume(@, stack[n])]
  /\ Forget(Last(stack).file)
  /\ UNCHANGED <<disk, call, foreign, pc, raw, config, todo, plans, shown,
                 exit>>

LocalsThere == Locals \cap DOMAIN disk
Local == CHOOSE f \in LocalsThere : TRUE

(* The outermost call lays the one local file, as it is, over the rest.    *)
ApplyLocal ==
  /\ pc = "resolving" /\ Wanted = <<>> /\ Len(stack) = 1
  /\ IF Cardinality(LocalsThere) > 1 \/ Bad \in { ParseFile(f) : f \in LocalsThere }
     THEN Ends("unresolved") /\ UNCHANGED raw
     ELSE /\ raw' = IF LocalsThere = {} THEN Merged(stack[1])
                    ELSE OverlayConfig(Merged(stack[1]), ParseFile(Local))
          /\ pc' = "lowering"
          /\ UNCHANGED exit
  /\ stack' = <<>>
  /\ seen' = {}
  /\ UNCHANGED <<disk, call, foreign, config, todo, plans, shown>>

LowerConfig ==
  /\ pc = "lowering"
  /\ IF Lower(raw) = Bad THEN Ends("invalid") /\ UNCHANGED config
     ELSE config' = Lower(raw) /\ pc' = "selecting" /\ UNCHANGED exit
  /\ UNCHANGED <<disk, call, foreign, stack, seen, raw, todo, plans, shown>>

-----------------------------------------------------------------------------
HasJobs(hooks) ==
  call.hook \in DOMAIN hooks /\ hooks[call.hook].jobs # <<>>

InAPackage == \E p \in DOMAIN config.packages : HasJobs(config.packages[p].hooks)

(* resolve and __dispatch, which has nothing to do when no level has a     *)
(* job, and expects the root to have the hook otherwise.                   *)
Select ==
  /\ pc = "selecting" /\ call.command = "dispatch"
  /\ LET there == call.hook \in DOMAIN config.hooks
     IN  CASE ~HasJobs(config.hooks) /\ ~InAPackage ->
                Ends(SoftMiss) /\ UNCHANGED todo
           [] ~there /\ InAPackage ->
                Ends("panic") /\ UNCHANGED todo
           [] OTHER ->
                /\ todo' = config.hooks[call.hook].jobs
                /\ pc' = "planning"
                /\ UNCHANGED exit
  /\ UNCHANGED <<disk, call, foreign, stack, seen, raw, config, plans, shown>>

(* run, fix and explain are for a hook of the root.                        *)
NamesAHook == call.command \in {"run", "dry-run", "fix", "explain"}

NoSuchHook ==
  /\ pc = "selecting" /\ NamesAHook
  /\ call.hook \notin DOMAIN config.hooks
  /\ Ends(SoftMiss)
  /\ UNCHANGED <<disk, call, foreign, stack, seen, raw, config, todo, plans,
                 shown>>

SelectRun ==
  /\ pc = "selecting" /\ call.command = "run"
  /\ call.hook \in DOMAIN config.hooks
  /\ todo' = config.hooks[call.hook].jobs
  /\ pc' = "planning"
  /\ UNCHANGED <<disk, call, foreign, stack, seen, raw, config, plans, shown,
                 exit>>

(* swap_in_fix_commands: the jobs that have a `fix`, to be run in place of *)
(* `run`, and of these the ones asked for.                                 *)
FixJobs(hook) ==
  LET asked(job) == /\ "fix" \in DOMAIN job.set
                    /\ call.args.only # {} => job.name \in call.args.only
      jobs == Kept(hook.jobs, { job \in ToSet(hook.jobs) : asked(job) })
  IN  [i \in DOMAIN jobs |-> [jobs[i] EXCEPT !.run = jobs[i].set.fix]]

SelectFix ==
  /\ pc = "selecting" /\ call.command = "fix"
  /\ call.hook \in DOMAIN config.hooks
  /\ todo' = FixJobs(config.hooks[call.hook])
  /\ IF todo' = <<>> THEN Ends("noop") ELSE pc' = "planning" /\ UNCHANGED exit
  /\ UNCHANGED <<disk, call, foreign, stack, seen, raw, config, plans, shown>>

(* The command line's lists, and the environment's where it has none; fix  *)
(* goes by the environment's.                                              *)
Options ==
  [list \in {"only", "skip"} |->
     IF call.args[list] # {} /\ call.command # "fix"
     THEN call.args[list] ELSE call.env[list]]

(* summarize_dag: the pairs of jobs of which one waits for the other, with *)
(* names for positions.  A pattern is a file name here.                    *)
Dag(n) == INSTANCE JobDag WITH
            NumJobs <- n, Pattern <- DOMAIN Bytes,
            ProbeHit <- { <<f, f>> : f \in DOMAIN Bytes }

EdgesOf(jobs) ==
  LET capabilities(job) ==
        [priority |-> job.priority,
         reads |-> Get(job.set, "reads", {}), writes |-> Get(job.set, "writes", {}),
         network |-> Get(job.set, "network", FALSE),
         concurrent_safe |-> Get(job.set, "concurrent_safe", FALSE)]
  IN  { <<jobs[e[1]].name, jobs[e[2]].name>> :
          e \in Dag(Len(jobs))!BuildDag([i \in DOMAIN jobs |-> capabilities(jobs[i])]) }

NamesOf(jobs) == [i \in DOMAIN jobs |-> jobs[i].name]

(* hook_info.                                                              *)
HookInfo(hook) == [jobs |-> NamesOf(hook.jobs), edges |-> EdgesOf(hook.jobs)]

(* print_json and build_digraph of explain: --job picks what is listed,    *)
(* the DAG is that of all jobs.                                            *)
Explained(hook) ==
  [HookInfo(hook) EXCEPT
     !.jobs = IF call.args.only = {} THEN @ ELSE Kept(@, call.args.only)]

(* read_config of status: the hooks of the root (0) and of each package.   *)
ConfigInfo ==
  LET level(hooks) == [h \in DOMAIN hooks |-> HookInfo(hooks[h])]
  IN  [p \in {0} \cup DOMAIN config.packages |->
         level(IF p = 0 THEN config.hooks ELSE config.packages[p].hooks)]

Show ==
  /\ pc = "selecting" /\ call.command \in {"dry-run", "explain", "status"}
  /\ NamesAHook => call.hook \in DOMAIN config.hooks
  /\ LET hook == config.hooks[call.hook]
         just(info) == [p \in {0} |-> [h \in {call.hook} |-> info]]
     IN  shown' = CASE call.command = "status" -> ConfigInfo
                    [] call.command = "explain" -> just(Explained(hook))
                    [] OTHER -> just([HookInfo(hook) EXCEPT !.edges = {}])
  /\ Ends("shown")
  /\ UNCHANGED <<disk, call, foreign, stack, seen, raw, config, todo, plans>>

(* run_hook_with_options filters and plans, job after job.                 *)
PlanJob ==
  /\ pc = "planning" /\ todo # <<>>
  /\ LET job == Head(todo)
         plan == ResolveJobPlan(config.hooks[call.hook], job, call.git)
     IN  IF IsFiltered(Options, job.name)
         THEN UNCHANGED <<pc, plans, exit>>
         ELSE IF plan = Bad THEN Ends("glob") /\ UNCHANGED plans
         ELSE plans' = Append(plans, plan) /\ UNCHANGED <<pc, exit>>
  /\ todo' = Tail(todo)
  /\ UNCHANGED <<disk, call, foreign, stack, seen, raw, config, shown>>

(* The jobs run.                                                           *)
Planned ==
  /\ pc = "planning" /\ todo = <<>>
  /\ Ends("run")
  /\ UNCHANGED <<disk, call, foreign, stack, seen, raw, config, todo, plans, shown>>

Done == pc = "done" /\ UNCHANGED vars

Next ==
  \/ Import \/ FindConfig \/ Enter \/ Return \/ ApplyLocal
  \/ LowerConfig \/ Select \/ NoSuchHook \/ SelectRun \/ SelectFix \/ Show
  \/ PlanJob \/ Planned \/ Done

Spec == Init /\ [][Next]_vars /\ WF_vars(Next)

-----------------------------------------------------------------------------
(* Reference definitions.                                                  *)

ExtendsOf(f) == IF ParseFile(f) = Bad THEN {} ELSE ToSet(ParseFile(f).extends)

(* The files a call for f looks at: the least set that has f and, with a   *)
(* file, what it extends.                                                  *)
Below(f) ==
  LET closed == { S \in SUBSET File : /\ f \in S
                                      /\ \A g \in S : ExtendsOf(g) \subseteq S }
  IN  { g \in File : \A S \in closed : g \in S }

OnACycle(f) == \E g \in ExtendsOf(f) : f \in Below(g)

(* The files that have a say, the first overruled by all that follow: what *)
(* a file extends, in order, each with what it extends in turn, then the   *)
(* file, then the local one.                                               *)
LayersWithin[n \in Nat] ==
  [f \in File |->
     IF n = 0 \/ ParseFile(f) = Bad THEN <<f>>
     ELSE FlattenSeq([i \in DOMAIN ParseFile(f).extends |->
                        LayersWithin[n - 1][ParseFile(f).extends[i]]]) \o <<f>>]

Layers(f) ==
  LayersWithin[Cardinality(File)][f] \o (IF LocalsThere = {} THEN <<>> ELSE <<Local>>)

(* The settings of a configuration, each under where it is set: at the     *)
(* root or in a package, in a hook or in a job of the hook.                *)
Levels(c) == {<<>>} \cup { <<p>> : p \in DOMAIN c.packages }
HooksAt(c, level) == IF level = <<>> THEN c.hooks ELSE c.packages[level[1]].hooks
Places(hook) == {<<>>} \cup { <<j>> : j \in DOMAIN hook.jobs }
FieldsAt(hook, place) == IF place = <<>> THEN hook.flags ELSE hook.jobs[place[1]]

SettingsOf(c) ==
  LET of(level, h, place) ==
        { <<level, h, place, f>> : f \in DOMAIN FieldsAt(HooksAt(c, level)[h], place) }
      ofHook(level, h) ==
        UNION { of(level, h, place) : place \in Places(HooksAt(c, level)[h]) }
  IN  UNION { UNION { ofHook(level, h) : h \in DOMAIN HooksAt(c, level) } :
                level \in Levels(c) }

Setting(c, s) == FieldsAt(HooksAt(c, s[1])[s[2]], s[3])[s[4]]

Resolved ==
  /\ pc \notin {"start", "resolving"}
  /\ exit # "unresolved"
  /\ There # {}

(* extends.rs 1-6: what resolve returns has every setting that a file on   *)
(* the way sets, each with the value the last of them gives it, diamonds   *)
(* and files that are extended twice included.                             *)
LastWriterWins ==
  Resolved =>
    LET said == [i \in DOMAIN Layers(Found) |-> ParseFile(Layers(Found)[i])]
        all == UNION { SettingsOf(said[i]) : i \in DOMAIN said }
    IN  /\ SettingsOf(raw) = all
        /\ \A s \in all :
             LET last == CHOOSE i \in DOMAIN said :
                           /\ s \in SettingsOf(said[i])
                           /\ \A k \in i + 1..Len(said) : s \notin SettingsOf(said[k])
             IN  Setting(raw, s) = Setting(said[last], s)

(* A process whose resolution is over met neither a cycle nor a file that  *)
(* does not read; one that fails in it had such a file, or two local ones. *)
(* In between no file is being resolved inside itself.                     *)
OnlyCyclesAndBadFilesFail ==
  LET reached == Below(Found)
      wrong == \/ \E f \in reached : OnACycle(f) \/ ParseFile(f) = Bad
               \/ Cardinality(LocalsThere) > 1
               \/ \E f \in LocalsThere : ParseFile(f) = Bad
  IN  /\ Resolved => ~wrong
      /\ exit = "unresolved" => wrong
      /\ \A i, k \in DOMAIN stack : stack[i].file = stack[k].file => i = k

(* Which job of a hook goes before which, told from the settings.          *)
GoesFirst(hook, j, k) ==
  LET order == Get(hook.flags, "priority", <<>>)
      place(n) == { i \in DOMAIN order : order[i] = n }
      last(n) == CHOOSE i \in place(n) : \A m \in place(n) : m <= i
  IN  CASE place(j) # {} /\ place(k) # {} -> last(j) < last(k)
        [] place(j) = {} /\ place(k) = {} -> j < k
        [] OTHER -> place(j) # {}

InOrder(hook, names) ==
  \A i, k \in DOMAIN names : i < k => GoesFirst(hook, names[i], names[k])

(* The command of a job, as the files tell it.                             *)
Said(job) == WithBuiltin(job)[IF call.command = "fix" THEN "fix" ELSE "run"]

(* The jobs a hook runs are all that any file gave it, less those the user *)
(* filtered out and those without files, and for `fix` without a fix, each *)
(* once, listed ones first in the order of the list and then by name; also *)
(* where the list stands in one file and the jobs in others.               *)
PlansInOrder ==
  exit = "run" =>
    LET hook == raw.hooks[call.hook]
        wanted == { j \in DOMAIN hook.jobs :
                      /\ ~IsFiltered(Options, j)
                      /\ call.command = "fix" =>
                           /\ "fix" \in DOMAIN WithBuiltin(hook.jobs[j])
                           /\ call.args.only # {} => j \in call.args.only }
        made == { i \in DOMAIN plans : plans[i] # None }
    IN  /\ Len(plans) = Cardinality(wanted)
        /\ \A i \in made : plans[i].job \in wanted
        /\ \A i, k \in made : i < k => GoesFirst(hook, plans[i].job, plans[k].job)

(* What explain and status print is in that order, and their DAG goes      *)
(* along with it: a sequential run keeps the order a parallel one has to.  *)
ShownInOrder ==
  \A p \in DOMAIN shown : \A h \in DOMAIN shown[p] :
    LET hook == IF p = 0 THEN raw.hooks[h] ELSE raw.packages[p].hooks[h]
        conflict(j, k) ==
          LET field(n, f) == Get(WithBuiltin(hook.jobs[n]), f, {})
          IN  \E f \in field(j, "writes") :
                f \in field(k, "writes") \cup field(k, "reads")
    IN  /\ call.command # "explain" \/ call.args.only = {} =>
             ToSet(shown[p][h].jobs) = DOMAIN hook.jobs
        /\ InOrder(hook, shown[p][h].jobs)
        /\ \A e \in shown[p][h].edges : GoesFirst(hook, e[1], e[2])
        /\ call.command # "dry-run" =>
             \A j, k \in DOMAIN hook.jobs :
               j # k /\ conflict(j, k) =>
                 shown[p][h].edges \cap {<<j, k>>, <<k, j>>} # {}

(* A hook's jobs run, and are shown, in one order, the one the files tell. *)
JobsRunInOrder == PlansInOrder /\ ShownInOrder

(* fileset.rs 118-125: the commands of a job get every file once, in       *)
(* order, and none of them is larger than an argument list may be, unless  *)
(* it has one file only or more than one template.                         *)
CommandsCoverTheFiles ==
  \A i \in DOMAIN plans : plans[i] # None =>
    LET plan == plans[i]
        run == Said(raw.hooks[call.hook].jobs[plan.job])
    IN  /\ HasTemplate(run) => FlattenSeq(plan.commands) = plan.files
        /\ \A k \in DOMAIN plan.commands :
             Len(plan.commands[k]) > 1 /\ Cardinality(run.vars) = 1 =>
               run.bytes + Joined(plan.commands[k]) <= MaxArg

(* monorepo.mdx: every staged file falls to exactly one package, the       *)
(* deepest above it, and to the root only when none is; and a package's    *)
(* hook runs its own jobs and those of the root it does not replace.       *)
PackagesPartition ==
  pc = "selecting" =>
    LET buckets == ResolvePackages(config, call.git.staged)
        path(p) == config.packages[p].path
        above(f) == { p \in DOMAIN config.packages : IsPrefix(path(p), f) }
    IN  /\ \A f \in ToSet(call.git.staged) :
             Cardinality({ i \in DOMAIN buckets : f \in ToSet(buckets[i].files) }) = 1
        /\ \A i \in DOMAIN buckets : \A f \in ToSet(buckets[i].files) :
             LET p == buckets[i].package
             IN  IF p = 0 THEN above(f) = {}
                 ELSE p \in above(f) /\ \A q \in above(f) : Len(path(q)) <= Len(path(p))
        /\ \A p \in DOMAIN config.packages :
             LET hook == HookForMatch(config, p, call.hook)
                 own == Get(config.packages[p].hooks, call.hook, [jobs |-> <<>>])
                 root == Get(config.hooks, call.hook, [jobs |-> <<>>])
             IN  hook # None =>
                   \A j \in ToSet(own.jobs) \cup ToSet(root.jobs) :
                     j \in ToSet(hook.jobs) \/
                       (j \in ToSet(root.jobs)
                         /\ \E k \in ToSet(own.jobs) : k.name = j.name)

(* import/mod.rs 1-6: what an importer writes is a configuration that      *)
(* loads, so that the hook runs on day one, and every hook of the other    *)
(* tool that betterhook knows is in it with a job for each named entry.    *)
ImportsLoad ==
  [][disk' # disk =>
       LET out == ParseBytes(disk'[Candidates[1]])
       IN  /\ Lower(out) # Bad
           /\ DOMAIN out.hooks = DOMAIN foreign.jobs
           /\ \A h \in DOMAIN out.hooks :
                DOMAIN out.hooks[h].jobs = foreign.jobs[h]]_vars

(* Said of the program (cli dispatch.rs 49, in the message of an expect):  *)
(* resolve has made sure that the configuration has the hook.              *)
HookIsValidated == exit # "panic"
=============================================================================
