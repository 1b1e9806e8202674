------------------------------- MODULE Install -------------------------------
(* install and uninstall (install/mod.rs): betterhook processes, started   *)
(* from worktrees of one repository, write the hook files, the manifest    *)
(* and the unit file that the worktrees share, while the user edits hooks. *)
(* A process may be killed, or leave with an error, after every step, and  *)
(* nothing is locked.                                                      *)
(*                                                                         *)
(* A file is what it contains: nothing yet ("empty", fs::write truncates   *)
(* before it writes), a mixture ("torn"), the user's own, or the wrapper   *)
(* for a binary, named by the binary.  Its sha is the same thing.  The     *)
(* user saves a hook by renaming a new file into place.                    *)
(***************************************************************************)
EXTENDS FiniteSets, Integers, TLC

CONSTANTS
  Proc,         \* betterhook processes at work at a time
  HookName,     \* hook types
  Bin,          \* paths of betterhook binaries
  Requests,     \* what installs may be asked for, a set of Request
  MaxCalls,     \* bound on the installs and uninstalls
  MaxUser       \* bound on what the user does to hooks and core.hooksPath

Content == {"none", "empty", "torn", "users"} \cup Bin

(* InstallOptions, the hooks of the configuration and current_exe.         *)
Request == [hooks : SUBSET HookName, bin : Bin, takeover : BOOLEAN,
            unit : BOOLEAN]

(* InstalledManifest; the wrapper is the same for all hooks.               *)
Manifest == [hooks : SUBSET HookName, bin : Bin, unit : BOOLEAN]

ASSUME BinAssumption == Bin \cap {"none", "empty", "torn", "users"} = {}
ASSUME RequestsAssumption == Requests \subseteq Request
ASSUME BoundsAssumption == MaxCalls \in Nat /\ MaxUser \in Nat

NoManifest == [none |-> "none"]
EmptyManifest == [none |-> "empty"]
TornManifest == [none |-> "torn"]
Unreadable == {EmptyManifest, TornManifest}

VARIABLES
  hook, exec,    \* per hook, the file in the hooks directory, and its x bits
  manifest,      \* installed.json
  unit,          \* whether the launchd or systemd unit file exists
  hooksPath,     \* whether core.hooksPath is set, by somebody else
  pc,            \* per process, where it is
  ask,           \* per process, its request
  read,          \* per process, the manifest uninstall works from
  todo,          \* per process, the hooks it has not dealt with yet
  cur,           \* per process, the hook it is at
  calls, moves,  \* calls begun, moves of the user
  installs,      \* installs that returned a report
  saved,         \* per process, hooks the user saved since it looked at them
  raced,         \* per process, whether an install wrote since it began
  twins          \* the request that everything since the last install that
                 \* began alone was about, with whether one succeeded

files == <<hook, exec, manifest, unit, hooksPath>>
local == <<ask, read, todo, cur>>
history == <<calls, moves, installs, saved, raced, twins>>
vars == <<files, pc, local, history>>

Installing == {"probing", "unsetting", "wrapping", "filling", "chmod",
               "recording", "noting"}
Uninstalling == {"checking", "removing", "forgetting"}

NoRequest == [hooks |-> {}, bin |-> "none", takeover |-> FALSE, unit |-> FALSE]
Apart == [about |-> NoRequest, done |-> FALSE]

TypeOK ==
  /\ hook \in [HookName -> Content] /\ exec \in [HookName -> BOOLEAN]
  /\ manifest \in Manifest \cup Unreadable \cup {NoManifest}
  /\ unit \in BOOLEAN /\ hooksPath \in BOOLEAN
  /\ pc \in [Proc -> {"idle"} \cup Installing \cup Uninstalling]
  /\ ask \in [Proc -> Request \cup {NoRequest}]
  /\ read \in [Proc -> Manifest \cup {NoManifest}]
  /\ todo \in [Proc -> SUBSET HookName]
  /\ cur \in [Proc -> SUBSET HookName]
  /\ \A p \in Proc : pc[p] \in Uninstalling => read[p] \in Manifest
  /\ calls \in 0..MaxCalls /\ moves \in 0..MaxUser
  /\ installs \in Nat
  /\ saved \in [Proc -> SUBSET HookName] /\ raced \in [Proc -> BOOLEAN]
  /\ twins \in [about : Request \cup {NoRequest}, done : BOOLEAN]

Init ==
  /\ hook \in [HookName -> {"none", "users"}]
  /\ exec = [h \in HookName |-> hook[h] = "users"]
  /\ manifest = NoManifest
  /\ unit = FALSE
  /\ hooksPath \in BOOLEAN
  /\ pc = [p \in Proc |-> "idle"]
  /\ ask = [p \in Proc |-> NoRequest]
  /\ read = [p \in Proc |-> NoManifest]
  /\ todo = [p \in Proc |-> {}]
  /\ cur = [p \in Proc |-> {}]
  /\ calls = 0 /\ moves = 0 /\ installs = 0
  /\ saved = [p \in Proc |-> {}]
  /\ raced = [p \in Proc |-> FALSE]
  /\ twins = Apart

-----------------------------------------------------------------------------
Goto(p, next) == pc' = [pc EXCEPT ![p] = next]

Alone(p) == \A q \in Proc \ {p} : pc[q] = "idle"

(* What fs::write leaves in a file when the bytes go to what is there: the *)
(* writer truncated it earlier, others may have written to it or put       *)
(* another file in its place since then.                                   *)
Put(there, bytes, empty, torn, elsewhere) ==
  IF there \in elsewhere THEN {there}
  ELSE IF there \in {empty, bytes} THEN {bytes}
  ELSE {bytes, torn}

(* Process p writes to what is shared.                                     *)
Interfere(p) == raced' = [q \in Proc |-> raced[q] \/ q # p]

-----------------------------------------------------------------------------
(* install.                                                                *)

(* The configuration loads and names the hooks.                            *)
Install(p, r) ==
  /\ pc[p] = "idle" /\ calls < MaxCalls
  /\ calls' = calls + 1
  /\ Goto(p, "probing")
  /\ ask' = [ask EXCEPT ![p] = r]
  /\ todo' = [todo EXCEPT ![p] = r.hooks]
  /\ twins' = IF Alone(p) THEN [about |-> r, done |-> FALSE]
              ELSE IF twins.about = r THEN twins ELSE Apart
  /\ UNCHANGED <<files, read, cur, moves, installs, saved, raced>>

(* The process is over: with success, with an error, or killed.            *)
End(p) ==
  /\ Goto(p, "idle")
  /\ ask' = [ask EXCEPT ![p] = NoRequest]
  /\ read' = [read EXCEPT ![p] = NoManifest]
  /\ todo' = [todo EXCEPT ![p] = {}]
  /\ cur' = [cur EXCEPT ![p] = {}]
  /\ saved' = [saved EXCEPT ![p] = {}]

(* An InstallError or a kill: what was written stays as it is.             *)
Stop(p) ==
  /\ pc[p] # "idle"
  /\ End(p)
  /\ raced' = [raced EXCEPT ![p] = FALSE]
  /\ twins' = IF pc[p] \in {"probing", "unsetting"} THEN twins ELSE Apart
  /\ UNCHANGED <<files, calls, moves, installs>>

(* get_core_hooks_path; somebody else's is refused, or unset next.         *)
Probe(p) ==
  /\ pc[p] = "probing"
  /\ hooksPath => ask[p].takeover
  /\ Goto(p, IF hooksPath THEN "unsetting" ELSE "wrapping")
  /\ UNCHANGED <<files, local, history>>

(* git config --unset, an error when there is nothing to unset (Stop).     *)
Unset(p) ==
  /\ pc[p] = "unsetting" /\ hooksPath
  /\ hooksPath' = FALSE
  /\ Goto(p, "wrapping")
  /\ UNCHANGED <<hook, exec, manifest, unit, local, history>>

(* write_wrappers: fs::write truncates whatever hook is there ...          *)
Truncate(p, h) ==
  /\ pc[p] = "wrapping" /\ h \in todo[p]
  /\ hook' = [hook EXCEPT ![h] = "empty"]
  /\ exec' = [exec EXCEPT ![h] = hook[h] # "none" /\ exec[h]]
  /\ cur' = [cur EXCEPT ![p] = {h}]
  /\ Goto(p, "filling")
  /\ Interfere(p)
  /\ UNCHANGED <<manifest, unit, hooksPath, ask, read, todo, calls, moves,
                 installs, saved, twins>>

(* ... and writes the wrapper ...                                          *)
Fill(p, h) ==
  /\ pc[p] = "filling" /\ h \in cur[p]
  /\ \E c \in Put(hook[h], ask[p].bin, "empty", "torn", {"none", "users"}) :
       hook' = [hook EXCEPT ![h] = c]
  /\ Goto(p, "chmod")
  /\ Interfere(p)
  /\ UNCHANGED <<exec, manifest, unit, hooksPath, local, calls, moves,
                 installs, saved, twins>>

(* Mutant: the mode is left as the file had it.                            *)
MutMakeExecutable(p, h) ==
  /\ pc[p] = "chmod" /\ h \in cur[p] /\ hook[h] # "none"
  /\ todo' = [todo EXCEPT ![p] = @ \ {h}]
  /\ cur' = [cur EXCEPT ![p] = {}]
  /\ Goto(p, "wrapping")
  /\ UNCHANGED <<files, ask, read, history>>

(* ... and makes it executable; a file that is gone is an error (Stop).    *)
MakeExecutable(p, h) ==
  /\ pc[p] = "chmod" /\ h \in cur[p] /\ hook[h] # "none"
  /\ exec' = [exec EXCEPT ![h] = TRUE]
  /\ todo' = [todo EXCEPT ![p] = @ \ {h}]
  /\ cur' = [cur EXCEPT ![p] = {}]
  /\ Goto(p, "wrapping")
  /\ UNCHANGED <<hook, manifest, unit, hooksPath, ask, read, history>>

(* install_unit, where the platform has one and nobody opted out.  What    *)
(* the unit says, and for which directory, is in it being there.           *)
WriteUnit(p) ==
  /\ pc[p] = "wrapping" /\ todo[p] = {}
  /\ unit' = (unit \/ ask[p].unit)
  /\ Goto(p, "recording")
  /\ UNCHANGED <<hook, exec, manifest, hooksPath, local, history>>

(* write_manifest is an fs::write as well, and keeps nothing of what an    *)
(* earlier manifest said.                                                  *)
TruncateManifest(p) ==
  /\ pc[p] = "recording"
  /\ manifest' = EmptyManifest
  /\ Goto(p, "noting")
  /\ Interfere(p)
  /\ UNCHANGED <<hook, exec, unit, hooksPath, local, calls, moves,
                 installs, saved, twins>>

(* What the install of request r records.                                  *)
Record(r) == [hooks |-> r.hooks, bin |-> r.bin, unit |-> r.unit]

(* The last write; install returns its report.                             *)
FillManifest(p) ==
  /\ pc[p] = "noting"
  /\ manifest' \in Put(manifest, Record(ask[p]), EmptyManifest,
                       TornManifest, {NoManifest})
  /\ twins' = IF twins.about = ask[p] THEN [twins EXCEPT !.done = TRUE]
              ELSE twins
  /\ End(p)
  /\ raced' = [q \in Proc |-> q # p]
  /\ installs' = installs + 1
  /\ UNCHANGED <<hook, exec, unit, hooksPath, calls, moves>>

-----------------------------------------------------------------------------
(* uninstall.                                                              *)

(* read_manifest; none, or one that does not parse, is an error and        *)
(* changes nothing.                                                        *)
Uninstall(p) ==
  /\ pc[p] = "idle" /\ calls < MaxCalls
  /\ manifest \in Manifest
  /\ calls' = calls + 1
  /\ read' = [read EXCEPT ![p] = manifest]
  /\ todo' = [todo EXCEPT ![p] = manifest.hooks]
  /\ raced' = [raced EXCEPT ![p] = FALSE]
  /\ twins' = Apart
  /\ Goto(p, "checking")
  /\ UNCHANGED <<files, ask, cur, moves, installs, saved>>

(* Mutant: whatever stands in the place of a hook is removed.              *)
MutIsOurs(p, h) == hook[h] # "none"

(* The file reads, and its sha is the one that was recorded.               *)
IsOurs(p, h) == hook[h] = read[p].bin

(* A hook that is ours is removed next, any other file is left alone.      *)
CheckHook(p, h) ==
  /\ pc[p] = "checking" /\ h \in todo[p]
  /\ todo' = [todo EXCEPT ![p] = @ \ {h}]
  /\ cur' = [cur EXCEPT ![p] = IF IsOurs(p, h) THEN {h} ELSE {}]
  /\ Goto(p, IF IsOurs(p, h) THEN "removing" ELSE "checking")
  /\ saved' = [saved EXCEPT ![p] = @ \ {h}]
  /\ UNCHANGED <<files, ask, read, calls, moves, installs, raced,
                 twins>>

(* Mutant: an error of remove_file is passed over.                         *)
MutRemoveHook(p, h) ==
  /\ pc[p] = "removing" /\ h \in cur[p]
  /\ hook' \in {hook, [hook EXCEPT ![h] = "none"]}
  /\ exec' = [exec EXCEPT ![h] = hook'[h] # "none" /\ exec[h]]
  /\ cur' = [cur EXCEPT ![p] = {}]
  /\ Goto(p, "checking")
  /\ UNCHANGED <<manifest, unit, hooksPath, ask, read, todo, history>>

(* remove_file; a file that is gone is an error (Stop).                    *)
RemoveHook(p, h) ==
  /\ pc[p] = "removing" /\ h \in cur[p] /\ hook[h] # "none"
  /\ hook' = [hook EXCEPT ![h] = "none"]
  /\ exec' = [exec EXCEPT ![h] = FALSE]
  /\ cur' = [cur EXCEPT ![p] = {}]
  /\ Goto(p, "checking")
  /\ UNCHANGED <<manifest, unit, hooksPath, ask, read, todo, history>>

(* uninstall_unit, for a unit the manifest knows; a missing file is fine.  *)
RemoveUnit(p) ==
  /\ pc[p] = "checking" /\ todo[p] = {}
  /\ unit' = (unit /\ ~read[p].unit)
  /\ Goto(p, "forgetting")
  /\ UNCHANGED <<hook, exec, manifest, hooksPath, local, history>>

(* The manifest goes last, whichever it is by now; uninstall returns.      *)
RemoveManifest(p) ==
  /\ pc[p] = "forgetting" /\ manifest # NoManifest
  /\ manifest' = NoManifest
  /\ End(p)
  /\ raced' = [raced EXCEPT ![p] = FALSE]
  /\ twins' = Apart
  /\ UNCHANGED <<hook, exec, unit, hooksPath, calls, moves, installs>>

-----------------------------------------------------------------------------
(* The user.                                                               *)

UserSets(h, c) ==
  /\ moves < MaxUser
  /\ moves' = moves + 1
  /\ hook[h] # "none" \/ c = "users"
  /\ hook' = [hook EXCEPT ![h] = c]
  /\ exec' = [exec EXCEPT ![h] = c = "users"]
  /\ saved' = [p \in Proc |-> saved[p] \cup {h}]
  /\ twins' = Apart
  /\ UNCHANGED <<manifest, unit, hooksPath, pc, local, calls, installs,
                 raced>>

(* Another hooks tool is set up.                                           *)
UserSetsHooksPath ==
  /\ moves < MaxUser /\ ~hooksPath
  /\ moves' = moves + 1
  /\ hooksPath' = TRUE
  /\ twins' = Apart
  /\ UNCHANGED <<hook, exec, manifest, unit, pc, local, calls, installs,
                 saved, raced>>

Step(p) ==
  \/ \E r \in Requests : Install(p, r)
  \/ Probe(p) \/ Unset(p)
  \/ \E h \in HookName : Truncate(p, h) \/ Fill(p, h) \/ MakeExecutable(p, h)
  \/ WriteUnit(p) \/ TruncateManifest(p) \/ FillManifest(p)
  \/ Uninstall(p)
  \/ \E h \in HookName : CheckHook(p, h) \/ RemoveHook(p, h)
  \/ RemoveUnit(p) \/ RemoveManifest(p)
  \/ Stop(p)

Next ==
  \/ \E p \in Proc : Step(p)
  \/ \E h \in HookName, c \in {"none", "users"} : UserSets(h, c)
  \/ UserSetsHooksPath

Spec == Init /\ [][Next]_vars

-----------------------------------------------------------------------------
(* check_installed of doctor: the bytes are compared, the mode is not      *)
(* looked at.                                                              *)
Matches(h) == hook[h] = manifest.bin
CheckInstalled ==
  CASE manifest = NoManifest -> "warn"
    [] manifest \in Unreadable -> "fail"
    [] OTHER -> IF \A h \in manifest.hooks : Matches(h) THEN "pass" ELSE "fail"

(* check_core_hookspath: whose core.hooksPath it is nobody asks.           *)
CheckHooksPath == IF hooksPath THEN "warn" ELSE "pass"

(* doctor exits with an error when a check fails; a warning is none.       *)
DoctorOk == "fail" \notin {CheckInstalled, CheckHooksPath}

(* read_installed, which status makes a diagnostic of when it fails:       *)
(* nothing, or what it says of each hook of the manifest.                  *)
ReadInstalled ==
  IF manifest \notin Manifest THEN <<>>
  ELSE [h \in manifest.hooks |-> [present |-> hook[h] # "none",
                                  matches |-> Matches(h)]]

(* Whether collect has a diagnostic to show for the installation.          *)
HasDiagnostic == manifest \in Unreadable

(* git runs the wrappers that request r asked for.                         *)
InForce(r) ==
  /\ ~hooksPath
  /\ \A h \in r.hooks : hook[h] = r.bin /\ exec[h]

(* install.mdx, "Idempotency": two worktrees installing at the same time   *)
(* do not race.  Whatever earlier installs, crashes or users left behind,  *)
(* when installs of one request that began alone are over, one of them     *)
(* with success and none halfway, then its hooks are in force, the         *)
(* manifest says so, and doctor and status find nothing amiss.             *)
TwinsDoNotRace ==
  twins.done /\ (\A p \in Proc : pc[p] = "idle") =>
    /\ InForce(twins.about)
    /\ manifest = Record(twins.about)
    /\ CheckInstalled = "pass" /\ CheckHooksPath = "pass" /\ DoctorOk
    /\ ~HasDiagnostic /\ DOMAIN ReadInstalled = twins.about.hooks
    /\ \A h \in twins.about.hooks : ReadInstalled[h].present /\ ReadInstalled[h].matches
    /\ twins.about.unit => unit

(* uninstall.mdx: the manifest goes last, so that a crash leaves the rest  *)
(* recoverable.  When uninstall gives the manifest up, and no install ran  *)
(* beside it, then none of the wrappers it lists is left; until then the   *)
(* manifest is untouched.                                                  *)
UninstallForgetsNothing ==
  [][\A p \in Proc :
       pc[p] \in Uninstalling /\ pc'[p] # pc[p] /\ manifest' # manifest
         /\ ~raced[p] =>
           \A h \in manifest.hooks : ~Matches(h)]_vars

(* mod.rs 248-249: user-edited hooks are never touched.  uninstall takes   *)
(* away what the user saved only if that was after it had looked.          *)
EditsSurviveUninstall ==
  [][\A p \in Proc, h \in HookName :
       pc[p] = "removing" /\ pc'[p] # pc[p] /\ hook[h] = "users" =>
         hook'[h] = "users" \/ h \in saved[p]]_vars

(* Said of the program (worktree-model.mdx 102-103): installs from         *)
(* different worktrees are idempotent.  Then, when installs are all that   *)
(* ever happened and all have returned their report, the manifest lists    *)
(* what they wrote, and uninstall can find it.                             *)
EveryWrapperIsListed ==
  installs = calls /\ moves = 0 =>
    \A h \in HookName : hook[h] \in Bin =>
      manifest \in Manifest /\ h \in manifest.hooks
=============================================================================
