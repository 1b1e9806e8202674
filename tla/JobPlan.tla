------------------------------- MODULE JobPlan -------------------------------
(* From a job to its commands: runner/plan.rs and git/fileset.rs.          *)
(*                                                                         *)
(* A command is the text `by` with the file templates `vars` in it, so     *)
(* many bytes long; a file is a path of so many bytes once it is quoted.   *)
(* A glob is the set of files it matches, or Bad.                          *)
(***************************************************************************)
EXTENDS HookConfig

CONSTANTS
  Bytes,      \* per file, the length of its quoted path
  MaxArg      \* MAX_ARG_BYTES

(* What git diff and git ls-files say: `pushed` is Bad where HEAD~1 does   *)
(* not exist.                                                              *)
Listing == [staged : Seq(DOMAIN Bytes), tracked : Seq(DOMAIN Bytes),
            pushed : Seq(DOMAIN Bytes) \cup {Bad}]

ASSUME BytesAssumption == Bytes \in [DOMAIN Bytes -> Nat] /\ MaxArg \in Nat

(* What has_template looks for.                                            *)
TemplateVars == {"staged", "push", "all", "files"}

HasTemplate(command) == command.vars # {}

(* Which of git's lists the job starts from.                               *)
RawFiles(hook, job, git) ==
  CASE "all" \in job.run.vars -> git.tracked
    [] "all" \notin job.run.vars
         /\ ("push" \in job.run.vars \/ hook.name = "pre-push") ->
           IF git.pushed = Bad THEN git.tracked ELSE git.pushed
    [] OTHER -> git.staged

(* filter_files; a list of patterns that is not set lets everything pass   *)
(* as `glob`, nothing as `exclude`.                                        *)
FilterFiles(files, job) ==
  Kept(files, Get(job.set, "glob", DOMAIN Bytes) \ Get(job.set, "exclude", {}))

(* The bytes of a list of files, a space with each.                        *)
Joined(files) ==
  LET bytes[n \in 0..Len(files)] ==
        IF n = 0 THEN 0 ELSE bytes[n - 1] + Bytes[files[n]] + 1
  IN  bytes[Len(files)]

(* Mutant: a full chunk is emitted, and the file that did not fit dropped. *)
MutAddFile(command, chunks, f) ==
  LET last == chunks[Len(chunks)]
  IN  IF last # <<>> /\ command.bytes + Joined(last) + Bytes[f] + 1 > MaxArg
      THEN Append(chunks, <<>>)
      ELSE [chunks EXCEPT ![Len(chunks)] = Append(@, f)]

(* A file goes to the last chunk, or to a new one when the last is not     *)
(* empty and would grow too large.                                         *)
AddFile(command, chunks, f) ==
  LET last == chunks[Len(chunks)]
  IN  IF last # <<>> /\ command.bytes + Joined(last) + Bytes[f] + 1 > MaxArg
      THEN Append(chunks, <<f>>)
      ELSE [chunks EXCEPT ![Len(chunks)] = Append(@, f)]

(* expand_template: the files of each command, in order.                   *)
ExpandTemplate(command, files) ==
  LET chunks[n \in 0..Len(files)] ==
        IF n = 0 THEN <<<<>>>> ELSE AddFile(command, chunks[n - 1], files[n])
  IN  IF HasTemplate(command) THEN chunks[Len(files)] ELSE <<<<>>>>

(* resolve_job_plan: None to skip the job, Bad for an error, or a plan.    *)
ResolveJobPlan(hook, job, git) ==
  LET globs == DOMAIN job.set \cap {"glob", "exclude"}
      files == FilterFiles(RawFiles(hook, job, git), job)
  IN  CASE ~HasTemplate(job.run) /\ globs = {} ->
             [job |-> job.name, commands |-> <<<<>>>>, files |-> <<>>]
        [] (HasTemplate(job.run) \/ globs # {})
             /\ \E g \in globs : job.set[g] = Bad -> Bad
        [] OTHER ->
             IF HasTemplate(job.run) /\ files = <<>> THEN None
             ELSE [job |-> job.name, files |-> files,
                   commands |-> ExpandTemplate(job.run, files)]

(* RunOptions::is_filtered.                                                *)
IsFiltered(options, name) ==
  (options.only # {} /\ name \notin options.only) \/ name \in options.skip
=============================================================================
