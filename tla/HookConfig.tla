----------------------------- MODULE HookConfig -----------------------------
(* Configurations as data: config/schema.rs, config/kdl.rs, parse.rs and   *)
(* the merge of packages in dispatch.rs.  All of it is pure.               *)
(*                                                                         *)
(* What a file sets is a partial function: a job from its fields (each     *)
(* variable of `env` is a field of its own, an empty list is a field not   *)
(* set), a hook from its flags, a configuration from its hooks.  Names of  *)
(* jobs are numbers, in the order of the names.  A value that does not     *)
(* parse (a duration, a glob, a semver requirement) is Bad.                *)
(***************************************************************************)
EXTENDS Integers, FiniteSets, SequencesExt

CONSTANTS
  Builtin,   \* per registered builtin, the job fields it has defaults for
  Bad        \* what does not parse, and the error that comes of it

None == <<>>   \* the function of no argument: nothing is set

Get(f, x, default) == IF x \in DOMAIN f THEN f[x] ELSE default

(* A finite set as a sequence, in an order that is total on it.            *)
Sorted(S, leq(_, _)) ==
  [k \in 1..Cardinality(S) |->
     CHOOSE x \in S : Cardinality({ y \in S : leq(y, x) }) = k]

(* The elements of a sequence that are in S, in their order.               *)
Kept(s, S) ==
  LET at == Sorted({ i \in DOMAIN s : s[i] \in S }, <=)
  IN  [k \in DOMAIN at |-> s[at[k]]]

EmptyHook == [flags |-> None, jobs |-> None]
EmptyConfig ==
  [meta |-> None, extends |-> <<>>, hooks |-> None, packages |-> None]

-----------------------------------------------------------------------------
(* merge_overlay.                                                          *)

(* A map laid over another.                                                *)
Laid(over, base) ==
  [x \in DOMAIN over \cup DOMAIN base |-> IF x \in DOMAIN over THEN over[x] ELSE base[x]]

(* The same where the names that both have become what `merged` says.      *)
OverlayMap(merged, base, over) == Laid(merged, Laid(over, base))

Common(base, over) == DOMAIN base \cap DOMAIN over

(* Mutant: a job of the overlay replaces the job.                          *)
MutOverlayJob(base, over) == over

(* Field by field, the overlay wins.                                       *)
OverlayJob(base, over) == Laid(over, base)

OverlayHook(base, over) ==
  [flags |-> Laid(over.flags, base.flags),
   jobs |-> OverlayMap([j \in Common(base.jobs, over.jobs) |->
                          OverlayJob(base.jobs[j], over.jobs[j])],
                       base.jobs, over.jobs)]

OverlayHooks(base, over) ==
  OverlayMap([h \in Common(base, over) |-> OverlayHook(base[h], over[h])],
             base, over)

OverlayPackage(base, over) ==
  [path |-> over.path,
   hooks |-> OverlayHooks(base.hooks, over.hooks)]

(* The overlay's extends are ignored.                                      *)
OverlayConfig(base, over) ==
  [meta |-> Laid(over.meta, base.meta),
   extends |-> base.extends,
   hooks |-> OverlayHooks(base.hooks, over.hooks),
   packages |-> OverlayMap(
       [p \in Common(base.packages, over.packages) |->
          OverlayPackage(base.packages[p], over.packages[p])],
       base.packages, over.packages)]

-----------------------------------------------------------------------------
(* What may be set; any other name is an error.                            *)

MetaField == {"version", "min_betterhook"}
HookFlag == {"parallel", "fail_fast", "stash_untracked", "parallel_limit", "priority"}
JobField ==
  {"run", "fix", "glob", "exclude", "tags", "skip", "only", "env", "root",
   "stage_fixed", "isolate", "timeout", "interactive", "fail_text",
   "reads", "writes", "network", "concurrent_safe", "builtin"}
IsolateField == {"name", "tool", "slots", "target_dir"}

(* A KDL document is a sequence of nodes; a node named again replaces what *)
(* stood under its name, and a package is a node KDL does not know.  The   *)
(* other formats are read by serde as they are, or are Bad.                *)

(* A lone argument of `isolate` is its name; otherwise its properties      *)
(* count, and a number of slots that is none is as good as not given.      *)
KdlIsolate(node) ==
  CASE DOMAIN node.props = {} /\ Len(node.args) = 1 -> "name" :> node.args[1]
    [] DOMAIN node.props \subseteq IsolateField
         /\ (DOMAIN node.props # {} \/ Len(node.args) # 1) ->
           Restrict(node.props, { f \in DOMAIN node.props :
                                    f = "slots" => node.props[f] >= 0 })
    [] OTHER -> Bad

KdlJob(sets) ==
  IF "isolate" \in DOMAIN sets
  THEN [sets EXCEPT !["isolate"] = KdlIsolate(@)] ELSE sets

KdlHook(nodes) ==
  FoldLeft(LAMBDA hook, node : IF node.is = "job"
                               THEN [hook EXCEPT !.jobs = node.name :> KdlJob(node.sets) @@ @]
                               ELSE [hook EXCEPT !.flags = node.sets @@ @],
           EmptyHook, nodes)

IsUnknown(node) ==
  CASE node.is = "meta" -> ~(DOMAIN node.sets \subseteq MetaField)
    [] node.is = "extends" -> FALSE
    [] node.is = "hook" ->
         \E i \in DOMAIN node.children :
           LET child == node.children[i]
               known == IF child.is = "job" THEN JobField ELSE HookFlag
           IN  \/ ~(DOMAIN child.sets \subseteq known)
               \/ Get(KdlJob(child.sets), "isolate", None) = Bad
    [] OTHER -> TRUE

ParseKdl(doc) ==
  IF \E i \in DOMAIN doc : IsUnknown(doc[i]) THEN Bad
  ELSE FoldLeft(LAMBDA config, node :
                  CASE node.is = "meta" -> [config EXCEPT !.meta = node.sets]
                    [] node.is = "extends" -> [config EXCEPT !.extends = @ \o node.paths]
                    [] OTHER -> [config EXCEPT !.hooks =
                                   node.name :> KdlHook(node.children) @@ @],
                EmptyConfig, doc)

Format == {"toml", "yaml", "json", "kdl"}

(* A file of another format is an error.                                   *)
ParseBytes(source) ==
  CASE source.format = "kdl" -> ParseKdl(source.body)
    [] source.format \in Format \ {"kdl"} -> source.body
    [] OTHER -> Bad

-----------------------------------------------------------------------------
(* lower.                                                                  *)

(* What `isolate` may be: the bare string is the table with only a name.   *)
LowerIsolate(table) ==
  CASE "tool" \in DOMAIN table ->
         [tool |-> table.tool,
          target |-> Get(table, "target_dir", "per-worktree")]
    [] "tool" \notin DOMAIN table /\ "name" \in DOMAIN table ->
         IF "slots" \notin DOMAIN table THEN [mutex |-> table.name]
         ELSE IF table.slots = 0 THEN Bad
         ELSE [sharded |-> table.name, slots |-> table.slots]
    [] OTHER -> Bad

(* The builtin fills in what the user did not set.                         *)
WithBuiltin(raw) ==
  IF "builtin" \in DOMAIN raw THEN Laid(raw, Builtin[raw.builtin]) ELSE raw

LowerJob(name, raw, priority) ==
  IF "builtin" \in DOMAIN raw /\ raw.builtin \notin DOMAIN Builtin THEN Bad
  ELSE LET job == WithBuiltin(raw)
           isolate == IF "isolate" \in DOMAIN job
                      THEN LowerIsolate(job.isolate) ELSE None
       IN  IF \/ "run" \notin DOMAIN job
              \/ isolate = Bad
              \/ \E field \in {"timeout", "reads", "writes"} :
                   Get(job, field, None) = Bad
           THEN Bad
           ELSE [name |-> name, priority |-> priority, run |-> job.run,
                 isolate |-> isolate, set |-> job]

(* The place of a name in `priority`, its last one if it is there twice;   *)
(* names that are not in it come after all that are.                       *)
PriorityOf(order, name) ==
  LET at == { i \in DOMAIN order : order[i] = name }
  IN  IF at = {} THEN Len(order)
      ELSE (CHOOSE i \in at : \A k \in at : k <= i) - 1

(* Mutant: names only.                                                     *)
MutBefore(a, b) == a.name <= b.name

(* The order of jobs that have a priority and a name.                      *)
Before(a, b) ==
  a.priority < b.priority \/ (a.priority = b.priority /\ a.name <= b.name)

LowerHook(name, raw) ==
  LET order == Get(raw.flags, "priority", <<>>)
      jobs == { LowerJob(j, raw.jobs[j], PriorityOf(order, j)) :
                  j \in DOMAIN raw.jobs }
      flag(f, default) == Get(raw.flags, f, default)
  IN  IF Bad \in jobs THEN Bad
      ELSE [name |-> name,
            parallel |-> flag("parallel", FALSE),
            fail_fast |-> flag("fail_fast", FALSE),
            parallel_limit |-> flag("parallel_limit", 0),
            stash_untracked |-> flag("stash_untracked", name = "pre-commit"),
            explicit |-> DOMAIN raw.flags \ {"priority"},
            jobs |-> Sorted(jobs, Before)]

LowerHooks(raw) == [h \in DOMAIN raw |-> LowerHook(h, raw[h])]

Lower(raw) ==
  LET hooks == LowerHooks(raw.hooks)
      packages == [p \in DOMAIN raw.packages |->
                     [path |-> raw.packages[p].path,
                      hooks |-> LowerHooks(raw.packages[p].hooks)]]
  IN  IF \/ Get(raw.meta, "min_betterhook", None) = Bad
         \/ Bad \in Range(hooks)
         \/ \E p \in DOMAIN packages : Bad \in Range(packages[p].hooks)
      THEN Bad
      ELSE [hooks |-> hooks, packages |-> packages]

-----------------------------------------------------------------------------
(* Packages of a monorepo (dispatch.rs).                                   *)

(* Mutant: the first package by name, not the deepest.                     *)
MutPackageOf(config, file) ==
  LET above == { p \in DOMAIN config.packages :
                   IsPrefix(config.packages[p].path, file) }
  IN  IF above = {} THEN 0 ELSE CHOOSE p \in above : \A q \in above : p <= q

(* resolve_packages sorts by length, stably: the first of the longest      *)
(* paths above the file; 0 is the root.                                    *)
PackageOf(config, file) ==
  LET above == { p \in DOMAIN config.packages :
                   IsPrefix(config.packages[p].path, file) }
      Before_(p, q) ==
        \/ Len(config.packages[p].path) > Len(config.packages[q].path)
        \/ Len(config.packages[p].path) = Len(config.packages[q].path) /\ p <= q
  IN  IF above = {} THEN 0
      ELSE CHOOSE p \in above : \A q \in above : Before_(p, q)

(* The buckets in the order they are returned in, root first.              *)
ResolvePackages(config, files) ==
  LET bucket(p) == [package |-> p,
                    files |-> Kept(files, { f \in ToSet(files) : PackageOf(config, f) = p })]
      names == Sorted(DOMAIN config.packages, <=)
      buckets == <<bucket(0)>> \o [i \in DOMAIN names |-> bucket(names[i])]
  IN  IF DOMAIN config.packages = {} THEN <<bucket(0)>>
      ELSE Kept(buckets, { b \in ToSet(buckets) : b.files # <<>> })

(* merge_hooks: flags one by one, jobs wholesale.                          *)
MergeHooks(base, over) ==
  LET names == { over.jobs[i].name : i \in DOMAIN over.jobs }
      flag(f) == IF f \in over.explicit THEN over[f] ELSE base[f]
  IN  [name |-> base.name,
       parallel |-> flag("parallel"),
       fail_fast |-> flag("fail_fast"),
       parallel_limit |-> flag("parallel_limit"),
       stash_untracked |-> flag("stash_untracked"),
       explicit |-> base.explicit \cup over.explicit,
       jobs |-> Sorted({ j \in ToSet(base.jobs) : j.name \notin names }
                         \cup ToSet(over.jobs), Before)]

(* hook_for_match; None when neither level has the hook.                   *)
HookForMatch(config, package, name) ==
  LET hooks == IF package = 0 THEN None ELSE config.packages[package].hooks
  IN  CASE name \notin DOMAIN hooks \cup DOMAIN config.hooks -> None
        [] name \in DOMAIN hooks \cap DOMAIN config.hooks ->
             MergeHooks(config.hooks[name], hooks[name])
        [] OTHER -> Laid(hooks, config.hooks)[name]
=============================================================================
