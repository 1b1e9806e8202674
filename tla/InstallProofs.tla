--------------------------- MODULE InstallProofs ---------------------------
(***************************************************************************)
(* Theorems about module Install, for any number of processes, hooks,      *)
(* binaries and requests.                                                  *)
(***************************************************************************)
EXTENDS Install, TLAPS

(* A process that installs knows what for.                                 *)
Asked(p) == pc[p] \in Installing => ask[p] \in Request

(* Which hook an uninstall is at.                                          *)
Placed(p) ==
  /\ pc[p] \in {"idle", "checking", "forgetting"} => cur[p] = {}
  /\ pc[p] = "removing" => \E h \in HookName : cur[p] = {h}
  /\ pc[p] = "forgetting" => todo[p] = {}

(* A hook about to be removed is the user's only if he has just saved it.  *)
Spared(p) ==
  pc[p] = "removing" => \A h \in cur[p] : hook[h] = "users" => h \in saved[p]

(* An uninstall that no install disturbed still has the manifest it works  *)
(* from, if nobody removed it, and the wrappers it has not yet looked at   *)
(* are the only ones left.                                                 *)
Accounted(p) ==
  pc[p] \in Uninstalling /\ ~raced[p] =>
    /\ manifest \in {read[p], NoManifest}
    /\ \A h \in read[p].hooks :
         hook[h] = read[p].bin => h \in todo[p] \cup cur[p]

ProcInv(p) == Asked(p) /\ Placed(p) /\ Spared(p) /\ Accounted(p)

IInv == TypeOK /\ \A p \in Proc : ProcInv(p)

USE DEF Installing, Uninstalling

LEMMA InitIInv == Init => IInv
  <1> SUFFICES ASSUME Init PROVE IInv
    OBVIOUS
  <1>a. hook \in [HookName -> Content]
    BY DEF Init, Content
  <1>b. exec \in [HookName -> BOOLEAN]
    BY DEF Init
  <1>c. twins \in [about : Request \cup {NoRequest}, done : BOOLEAN]
    BY DEF Init, Apart
  <1>1. TypeOK
    <2>1. /\ ask \in [Proc -> Request \cup {NoRequest}]
          /\ read \in [Proc -> Manifest \cup {NoManifest}]
          /\ todo \in [Proc -> SUBSET HookName]
          /\ cur \in [Proc -> SUBSET HookName]
      BY DEF Init
    <2>2. /\ saved \in [Proc -> SUBSET HookName] /\ raced \in [Proc -> BOOLEAN]
          /\ unit \in BOOLEAN /\ hooksPath \in BOOLEAN
      BY DEF Init
    <2>3. /\ pc \in [Proc -> {"idle"} \cup Installing \cup Uninstalling]
          /\ \A p \in Proc : pc[p] \in Uninstalling => read[p] \in Manifest
      BY DEF Init
    <2>4. /\ manifest \in Manifest \cup Unreadable \cup {NoManifest}
          /\ calls \in 0..MaxCalls /\ moves \in 0..MaxUser /\ installs \in Nat
      BY BoundsAssumption DEF Init
    <2>5. QED
      BY <1>a, <1>b, <1>c, <2>1, <2>2, <2>3, <2>4 DEF TypeOK
  <1>2. ASSUME NEW p \in Proc PROVE ProcInv(p)
    BY DEF Init, ProcInv, Asked, Placed, Spared, Accounted
  <1>3. QED
    BY <1>1, <1>2 DEF IInv

-----------------------------------------------------------------------------
(* What a step of p may do to the files without harm to the others: it     *)
(* takes away, or it is an install's and they will know.                   *)
Harmless(q) ==
  /\ \A h \in HookName : hook'[h] = "users" => hook[h] = "users"
  /\ raced'[q] \/ /\ raced'[q] = raced[q]
                  /\ manifest' \in {manifest, NoManifest}
                  /\ \A h \in HookName : hook'[h] \in {hook[h], "none"}

(* The processes that do not take the step keep their part of the          *)
(* invariant.                                                              *)
LEMMA OthersStep ==
  ASSUME IInv, NEW p \in Proc, NEW q \in Proc \ {p}, Harmless(q),
         pc'[q] = pc[q], ask'[q] = ask[q], read'[q] = read[q],
         todo'[q] = todo[q], cur'[q] = cur[q], saved'[q] = saved[q]
  PROVE  ProcInv(q)'
  <1>1. ProcInv(q)
    BY DEF IInv
  <1>2. Asked(q)' /\ Placed(q)'
    BY <1>1 DEF ProcInv, Asked, Placed
  <1>3. Spared(q)'
    BY <1>1 DEF ProcInv, Spared, Harmless, IInv, TypeOK
  <1>4. Accounted(q)'
    <2> SUFFICES ASSUME pc[q] \in Uninstalling, ~raced'[q]
                 PROVE  /\ manifest' \in {read[q], NoManifest}
                        /\ \A h \in read[q].hooks :
                             hook'[h] = read[q].bin => h \in todo[q] \cup cur[q]
      BY DEF Accounted
    <2>1. /\ manifest \in {read[q], NoManifest}
          /\ \A h \in read[q].hooks :
               hook[h] = read[q].bin => h \in todo[q] \cup cur[q]
      BY <1>1 DEF ProcInv, Accounted, Harmless
    <2>2. read[q] \in Manifest
      BY DEF IInv, TypeOK
    <2>3. \A h \in read[q].hooks : h \in HookName /\ "none" # read[q].bin
      BY <2>2, BinAssumption DEF Manifest
    <2>4. QED
      BY <2>1, <2>3 DEF Harmless
  <1>5. QED
    BY <1>2, <1>3, <1>4 DEF ProcInv

(* The steps of p are settled by what becomes of the types and of p.       *)
LEMMA StepOf ==
  ASSUME IInv, NEW p \in Proc, TypeOK', ProcInv(p)',
         \A q \in Proc \ {p} :
           /\ Harmless(q)
           /\ pc'[q] = pc[q] /\ ask'[q] = ask[q] /\ read'[q] = read[q]
           /\ todo'[q] = todo[q] /\ cur'[q] = cur[q] /\ saved'[q] = saved[q]
  PROVE  IInv'
  BY OthersStep DEF IInv

(* A process that is not uninstalling when the step is over owes little.   *)
LEMMA NotUninstalling ==
  ASSUME NEW p \in Proc, pc'[p] \in {"idle"} \cup Installing,
         pc'[p] = "idle" => cur'[p] = {},
         pc'[p] # "idle" => ask'[p] \in Request
  PROVE  ProcInv(p)'
  BY DEF ProcInv, Asked, Placed, Spared, Accounted

-----------------------------------------------------------------------------
(* One lemma per action.                                                   *)

LEMMA InstallStep ==
  ASSUME IInv, NEW p \in Proc, NEW r \in Requests, Install(p, r) PROVE IInv'
  <1>1. r \in Request
    BY RequestsAssumption
  <1>2. TypeOK'
    BY <1>1, BoundsAssumption
    DEF IInv, TypeOK, Install, Goto, files, Apart, Request
  <1>3. ProcInv(p)'
    BY <1>1, NotUninstalling DEF IInv, TypeOK, Install, Goto
  <1>4. QED
    BY <1>2, <1>3, StepOf DEF IInv, TypeOK, Install, Goto, files, Harmless

(* What the end of a process leaves.                                       *)
LEMMA Ended ==
  ASSUME IInv, NEW p \in Proc, End(p)
  PROVE  /\ ProcInv(p)'
         /\ pc' \in [Proc -> {"idle"} \cup Installing \cup Uninstalling]
         /\ pc'[p] = "idle"
         /\ ask' \in [Proc -> Request \cup {NoRequest}]
         /\ read' \in [Proc -> Manifest \cup {NoManifest}]
         /\ todo' \in [Proc -> SUBSET HookName]
         /\ cur' \in [Proc -> SUBSET HookName]
         /\ saved' \in [Proc -> SUBSET HookName]
         /\ \A q \in Proc \ {p} :
              /\ pc'[q] = pc[q] /\ ask'[q] = ask[q] /\ read'[q] = read[q]
              /\ todo'[q] = todo[q] /\ cur'[q] = cur[q] /\ saved'[q] = saved[q]
  <1>1. pc'[p] = "idle" /\ cur'[p] = {}
    BY DEF IInv, TypeOK, End, Goto
  <1>2. ProcInv(p)'
    BY <1>1, NotUninstalling
  <1>3. QED
    BY <1>1, <1>2 DEF IInv, TypeOK, End, Goto

LEMMA StopStep == ASSUME IInv, NEW p \in Proc, Stop(p) PROVE IInv'
  <1>1. TypeOK'
    BY Ended DEF IInv, TypeOK, Stop, files, Apart
  <1>2. \A q \in Proc \ {p} : Harmless(q)
    BY DEF IInv, TypeOK, Stop, files, Harmless
  <1>3. End(p)
    BY DEF Stop
  <1>4. QED
    BY <1>1, <1>2, <1>3, Ended, StepOf

LEMMA ProbeStep == ASSUME IInv, NEW p \in Proc, Probe(p) PROVE IInv'
  <1>1. TypeOK'
    BY DEF IInv, TypeOK, Probe, Goto, files, local, history
  <1>2. ProcInv(p)'
    BY NotUninstalling
    DEF IInv, TypeOK, ProcInv, Asked, Probe, Goto, local
  <1>3. QED
    BY <1>1, <1>2, StepOf
    DEF IInv, TypeOK, Probe, Goto, files, local, history, Harmless

LEMMA UnsetStep == ASSUME IInv, NEW p \in Proc, Unset(p) PROVE IInv'
  <1>1. TypeOK'
    BY DEF IInv, TypeOK, Unset, Goto, local, history
  <1>2. ProcInv(p)'
    BY NotUninstalling
    DEF IInv, TypeOK, ProcInv, Asked, Unset, Goto, local
  <1>3. QED
    BY <1>1, <1>2, StepOf
    DEF IInv, TypeOK, Unset, Goto, local, history, Harmless

LEMMA TruncateStep ==
  ASSUME IInv, NEW p \in Proc, NEW h \in HookName, Truncate(p, h) PROVE IInv'
  <1>1. TypeOK'
    BY DEF IInv, TypeOK, Truncate, Interfere, Goto, Content
  <1>2. ProcInv(p)'
    BY NotUninstalling
    DEF IInv, TypeOK, ProcInv, Asked, Truncate, Goto
  <1>3. QED
    BY <1>1, <1>2, StepOf
    DEF IInv, TypeOK, Truncate, Interfere, Goto, Harmless

LEMMA FillStep ==
  ASSUME IInv, NEW p \in Proc, NEW h \in HookName, Fill(p, h) PROVE IInv'
  <1>0. ask[p] \in Request
    BY DEF IInv, ProcInv, Asked, Fill
  <1>1. PICK c \in Put(hook[h], ask[p].bin, "empty", "torn", {"none", "users"}) :
          hook' = [hook EXCEPT ![h] = c]
    BY DEF Fill
  <1>2. ask[p].bin \in Bin /\ ask[p].bin # "users"
    BY <1>0, BinAssumption DEF Request
  <1>3. c \in Content /\ (c = "users" => hook[h] = "users")
    BY <1>2 DEF Put, IInv, TypeOK, Content
  <1>4. TypeOK'
    BY <1>1, <1>3 DEF IInv, TypeOK, Fill, Interfere, Goto, local
  <1>5. ProcInv(p)'
    BY NotUninstalling, <1>0
    DEF IInv, TypeOK, Fill, Goto, local
  <1>6. QED
    BY <1>1, <1>3, <1>4, <1>5, StepOf
    DEF IInv, TypeOK, Fill, Interfere, Goto, local, Harmless

LEMMA MakeExecutableStep ==
  ASSUME IInv, NEW p \in Proc, NEW h \in HookName, MakeExecutable(p, h)
  PROVE  IInv'
  <1>1. TypeOK'
    BY DEF IInv, TypeOK, MakeExecutable, Goto, history
  <1>2. ProcInv(p)'
    BY NotUninstalling
    DEF IInv, TypeOK, ProcInv, Asked, MakeExecutable, Goto
  <1>3. QED
    BY <1>1, <1>2, StepOf
    DEF IInv, TypeOK, MakeExecutable, Goto, history, Harmless

LEMMA WriteUnitStep == ASSUME IInv, NEW p \in Proc, WriteUnit(p) PROVE IInv'
  <1>0. ask[p] \in Request
    BY DEF IInv, ProcInv, Asked, WriteUnit
  <1>a. unit' \in BOOLEAN
    BY DEF WriteUnit
  <1>1. TypeOK'
    BY <1>a DEF IInv, TypeOK, WriteUnit, Goto, local, history
  <1>2. ProcInv(p)'
    BY NotUninstalling, <1>0 DEF IInv, TypeOK, WriteUnit, Goto, local
  <1>3. QED
    BY <1>1, <1>2, StepOf
    DEF IInv, TypeOK, WriteUnit, Goto, local, history, Harmless

LEMMA TruncateManifestStep ==
  ASSUME IInv, NEW p \in Proc, TruncateManifest(p) PROVE IInv'
  <1>1. TypeOK'
    BY DEF IInv, TypeOK, TruncateManifest, Interfere, Goto, local, Unreadable
  <1>2. ProcInv(p)'
    BY NotUninstalling
    DEF IInv, TypeOK, ProcInv, Asked, TruncateManifest, Goto, local
  <1>3. QED
    BY <1>1, <1>2, StepOf
    DEF IInv, TypeOK, TruncateManifest, Interfere, Goto, local, Harmless

LEMMA FillManifestStep ==
  ASSUME IInv, NEW p \in Proc, FillManifest(p) PROVE IInv'
  <1>0. ask[p] \in Request
    BY DEF IInv, ProcInv, Asked, FillManifest
  <1>1. Record(ask[p]) \in Manifest
    BY <1>0 DEF Record, Request, Manifest
  <1>2. manifest' \in Manifest \cup Unreadable \cup {NoManifest}
    BY <1>1 DEF FillManifest, Put, IInv, TypeOK, Unreadable
  <1>3. End(p)
    BY DEF FillManifest
  <1>a. twins' \in [about : Request \cup {NoRequest}, done : BOOLEAN]
    BY DEF FillManifest, IInv, TypeOK
  <1>4. TypeOK'
    <2>1. /\ installs' \in Nat /\ raced' \in [Proc -> BOOLEAN]
          /\ UNCHANGED <<hook, exec, unit, hooksPath, calls, moves>>
      BY DEF IInv, TypeOK, FillManifest
    <2>2. QED
      BY <1>2, <1>3, <1>a, <2>1, Ended DEF IInv, TypeOK
  <1>5. \A q \in Proc \ {p} : Harmless(q)
    BY DEF IInv, TypeOK, FillManifest, Harmless
  <1>6. QED
    BY <1>3, <1>4, <1>5, Ended, StepOf

LEMMA UninstallStep == ASSUME IInv, NEW p \in Proc, Uninstall(p) PROVE IInv'
  <1>a. twins' \in [about : Request \cup {NoRequest}, done : BOOLEAN]
    BY DEF Uninstall, Apart
  <1>b. todo' \in [Proc -> SUBSET HookName]
    BY DEF Uninstall, IInv, TypeOK, Manifest
  <1>1. TypeOK'
    <2>1. /\ read' \in [Proc -> Manifest \cup {NoManifest}]
          /\ pc' \in [Proc -> {"idle"} \cup Installing \cup Uninstalling]
          /\ \A q \in Proc : pc'[q] \in Uninstalling => read'[q] \in Manifest
      BY DEF IInv, TypeOK, Uninstall, Goto
    <2>2. calls' \in 0..MaxCalls /\ raced' \in [Proc -> BOOLEAN]
      BY BoundsAssumption DEF IInv, TypeOK, Uninstall
    <2>3. QED
      BY <1>a, <1>b, <2>1, <2>2 DEF IInv, TypeOK, Uninstall, files
  <1>2. ProcInv(p)'
    <2>1. /\ pc'[p] = "checking" /\ read'[p] = manifest /\ cur'[p] = cur[p]
          /\ todo'[p] = manifest.hooks /\ manifest' = manifest
      BY DEF IInv, TypeOK, Uninstall, Goto, files
    <2>2. cur[p] = {}
      BY DEF IInv, ProcInv, Placed, Uninstall
    <2>3. QED
      BY <2>1, <2>2 DEF ProcInv, Asked, Placed, Spared, Accounted
  <1>3. QED
    BY <1>1, <1>2, StepOf
    DEF IInv, TypeOK, Uninstall, Goto, files, Harmless

LEMMA CheckHookStep ==
  ASSUME IInv, NEW p \in Proc, NEW h \in HookName, CheckHook(p, h) PROVE IInv'
  <1>0. /\ pc[p] = "checking" /\ cur[p] = {} /\ read[p] \in Manifest
        /\ pc \in [Proc -> {"idle"} \cup Installing \cup Uninstalling]
        /\ todo \in [Proc -> SUBSET HookName]
        /\ cur \in [Proc -> SUBSET HookName]
        /\ Accounted(p)
    BY DEF IInv, TypeOK, ProcInv, Placed, CheckHook
  <1>1. TypeOK'
    BY DEF IInv, TypeOK, CheckHook, Goto, files
  <1>2. IsOurs(p, h) => hook[h] # "users"
    BY <1>0, BinAssumption DEF IsOurs, Manifest
  <1>3. /\ pc'[p] = IF IsOurs(p, h) THEN "removing" ELSE "checking"
        /\ todo'[p] = todo[p] \ {h}
        /\ cur'[p] = IF IsOurs(p, h) THEN {h} ELSE {}
        /\ UNCHANGED <<hook, manifest, read, raced>>
    BY <1>0 DEF CheckHook, Goto, files
  <1>4. Asked(p)' /\ Placed(p)' /\ Spared(p)'
    BY <1>2, <1>3 DEF Asked, Placed, Spared
  <1>5. Accounted(p)'
    BY <1>0, <1>3 DEF Accounted, IsOurs
  <1>6. QED
    BY <1>1, <1>4, <1>5, StepOf
    DEF ProcInv, IInv, TypeOK, CheckHook, Goto, files, Harmless

LEMMA RemoveHookStep ==
  ASSUME IInv, NEW p \in Proc, NEW h \in HookName, RemoveHook(p, h) PROVE IInv'
  <1>0. /\ pc[p] = "removing" /\ cur[p] = {h} /\ read[p] \in Manifest
        /\ Accounted(p)
    BY DEF IInv, TypeOK, ProcInv, Placed, RemoveHook
  <1>1. TypeOK'
    BY DEF IInv, TypeOK, RemoveHook, Goto, history, Content
  <1>2. "none" # read[p].bin /\ read[p].hooks \subseteq HookName
    BY <1>0, BinAssumption DEF Manifest
  <1>3. /\ pc'[p] = "checking" /\ cur'[p] = {}
        /\ hook'[h] = "none"
        /\ \A g \in HookName \ {h} : hook'[g] = hook[g]
        /\ UNCHANGED <<manifest, read, todo, raced>>
    BY DEF IInv, TypeOK, RemoveHook, Goto, history
  <1>4. Asked(p)' /\ Placed(p)' /\ Spared(p)'
    BY <1>3 DEF Asked, Placed, Spared
  <1>5. Accounted(p)'
    BY <1>0, <1>2, <1>3 DEF Accounted
  <1>6. QED
    BY <1>1, <1>4, <1>5, StepOf
    DEF ProcInv, IInv, TypeOK, RemoveHook, Goto, history, Harmless

LEMMA RemoveUnitStep == ASSUME IInv, NEW p \in Proc, RemoveUnit(p) PROVE IInv'
  <1>1. TypeOK'
    BY DEF IInv, TypeOK, RemoveUnit, Goto, local, history, Manifest
  <1>2. ProcInv(p)'
    <2>1. /\ pc'[p] = "forgetting" /\ cur[p] = {} /\ todo[p] = {}
          /\ Accounted(p) /\ pc[p] \in Uninstalling
      BY DEF IInv, TypeOK, RemoveUnit, Goto, ProcInv, Placed
    <2>2. UNCHANGED <<hook, manifest, read, todo, cur, raced>>
      BY DEF RemoveUnit, local, history
    <2>3. QED
      BY <2>1, <2>2 DEF ProcInv, Asked, Placed, Spared, Accounted
  <1>3. QED
    BY <1>1, <1>2, StepOf
    DEF IInv, TypeOK, RemoveUnit, Goto, local, history, Harmless

LEMMA RemoveManifestStep ==
  ASSUME IInv, NEW p \in Proc, RemoveManifest(p) PROVE IInv'
  <1>1. End(p)
    BY DEF RemoveManifest
  <1>2. TypeOK'
    BY <1>1, Ended DEF IInv, TypeOK, RemoveManifest, Apart
  <1>3. \A q \in Proc \ {p} : Harmless(q)
    BY DEF IInv, TypeOK, RemoveManifest, Harmless
  <1>4. QED
    BY <1>1, <1>2, <1>3, Ended, StepOf

(* What the user saves is noted, and is no wrapper.                        *)
LEMMA UserSetsStep ==
  ASSUME IInv, NEW h \in HookName, NEW c \in {"none", "users"}, UserSets(h, c)
  PROVE  IInv'
  <1>1. TypeOK'
    BY BoundsAssumption DEF IInv, TypeOK, UserSets, local, Content, Apart
  <1>2. ASSUME NEW p \in Proc PROVE ProcInv(p)'
    <2>1. ProcInv(p) /\ (pc[p] \in Uninstalling => read[p] \in Manifest)
      BY DEF IInv, TypeOK
    <2>2. Asked(p)' /\ Placed(p)'
      BY <2>1 DEF ProcInv, Asked, Placed, UserSets, local
    <2>3. Spared(p)'
      BY <2>1 DEF ProcInv, Spared, UserSets, local, IInv, TypeOK
    <2>4. pc[p] \in Uninstalling =>
            c # read[p].bin /\ read[p].hooks \subseteq HookName
      BY <2>1, BinAssumption DEF Manifest
    <2>5. Accounted(p)'
      BY <2>1, <2>4 DEF ProcInv, Accounted, UserSets, local, IInv, TypeOK
    <2>6. QED
      BY <2>2, <2>3, <2>5 DEF ProcInv
  <1>3. QED
    BY <1>1, <1>2 DEF IInv

(* Steps that leave hooks, manifest and processes alone.                   *)
LEMMA StillStep ==
  ASSUME IInv, TypeOK', UNCHANGED <<hook, manifest, pc, local, saved, raced>>
  PROVE  IInv'
  BY DEF IInv, local, ProcInv, Asked, Placed, Spared, Accounted

LEMMA NextIInv == IInv /\ [Next]_vars => IInv'
  <1> SUFFICES ASSUME IInv, [Next]_vars PROVE IInv'
    OBVIOUS
  <1>1. ASSUME NEW p \in Proc, Step(p) PROVE IInv'
    BY <1>1, InstallStep, ProbeStep, UnsetStep, TruncateStep, FillStep,
       MakeExecutableStep, WriteUnitStep, TruncateManifestStep,
       FillManifestStep, UninstallStep, CheckHookStep, RemoveHookStep,
       RemoveUnitStep, RemoveManifestStep, StopStep
       DEF Step
  <1>2. CASE UserSetsHooksPath
    <2>1. TypeOK'
      BY <1>2, BoundsAssumption
      DEF IInv, TypeOK, UserSetsHooksPath, local, Apart
    <2>2. QED
      BY <1>2, <2>1, StillStep DEF UserSetsHooksPath
  <1>3. CASE UNCHANGED vars
    <2>1. TypeOK'
      BY <1>3 DEF IInv, TypeOK, vars, files, local, history
    <2>2. QED
      BY <1>3, <2>1, StillStep DEF vars, files, history
  <1>4. QED
    BY <1>1, <1>2, <1>3, UserSetsStep DEF Next

(* The invariant holds in every state of every behaviour.                  *)
THEOREM Invariance == Spec => []IInv
  BY InitIInv, NextIInv, PTL DEF Spec

-----------------------------------------------------------------------------
(* A step that moves an uninstall on is its own.                           *)
LEMMA MovesItself ==
  ASSUME IInv, [Next]_vars, NEW p \in Proc, pc[p] \in Uninstalling,
         pc'[p] # pc[p]
  PROVE  \/ Stop(p) \/ RemoveUnit(p) \/ RemoveManifest(p)
         \/ \E h \in HookName : CheckHook(p, h) \/ RemoveHook(p, h)
  <1>1. PICK q \in Proc : Step(q)
    BY DEF Next, UserSets, UserSetsHooksPath, vars
  <1>2. \A r \in Proc \ {q} : pc'[r] = pc[r]
    BY <1>1 DEF IInv, TypeOK, Step, Goto, End, Install, Probe, Unset, Truncate,
       Fill, MakeExecutable, WriteUnit, TruncateManifest, FillManifest,
       Uninstall, CheckHook, RemoveHook, RemoveUnit, RemoveManifest, Stop
  <1>3. Step(p)
    BY <1>1, <1>2
  <1>4. QED
    BY <1>3 DEF Step, Install, Probe, Unset, Truncate, Fill, MakeExecutable,
       WriteUnit, TruncateManifest, FillManifest, Uninstall

(* Whatever other uninstalls, users and crashes do, an uninstall that no   *)
(* install disturbs gives the manifest up only when none of the wrappers   *)
(* it lists is left (install/mod.rs 322-385).                              *)
THEOREM NothingForgotten == Spec => UninstallForgetsNothing
  <1>1. ASSUME IInv, [Next]_vars
        PROVE  [\A p \in Proc :
                  pc[p] \in Uninstalling /\ pc'[p] # pc[p]
                    /\ manifest' # manifest /\ ~raced[p] =>
                      \A h \in manifest.hooks : ~Matches(h)]_vars
    <2> SUFFICES ASSUME NEW p \in Proc, pc[p] \in Uninstalling,
                        pc'[p] # pc[p], manifest' # manifest, ~raced[p]
                 PROVE  \A h \in manifest.hooks : ~Matches(h)
      OBVIOUS
    <2>1. RemoveManifest(p)
      BY <1>1, MovesItself
      DEF Stop, RemoveUnit, CheckHook, RemoveHook, files
    <2>2. /\ manifest = read[p] /\ todo[p] = {} /\ cur[p] = {}
          /\ \A h \in read[p].hooks :
               hook[h] = read[p].bin => h \in todo[p] \cup cur[p]
      BY <1>1, <2>1 DEF RemoveManifest, IInv, ProcInv, Placed, Accounted
    <2>3. QED
      BY <2>2 DEF Matches
  <1>2. QED
    BY <1>1, Invariance, PTL DEF Spec, UninstallForgetsNothing

(* However many processes are at work, an uninstall takes away what the    *)
(* user saved only when he saved it after the uninstall had looked         *)
(* (install/mod.rs 255-256).                                               *)
THEOREM EditsSurvive == Spec => EditsSurviveUninstall
  <1>1. ASSUME IInv, [Next]_vars
        PROVE  [\A p \in Proc, h \in HookName :
                  pc[p] = "removing" /\ pc'[p] # pc[p] /\ hook[h] = "users" =>
                    hook'[h] = "users" \/ h \in saved[p]]_vars
    <2> SUFFICES ASSUME NEW p \in Proc, NEW h \in HookName,
                        pc[p] = "removing", pc'[p] # pc[p],
                        hook[h] = "users", hook'[h] # "users"
                 PROVE  h \in saved[p]
      OBVIOUS
    <2>1. PICK g \in HookName : RemoveHook(p, g)
      BY <1>1, MovesItself
      DEF Stop, RemoveUnit, RemoveManifest, CheckHook, files
    <2>2. h = g
      BY <1>1, <2>1 DEF RemoveHook, IInv, TypeOK
    <2>3. QED
      BY <1>1, <2>1, <2>2 DEF RemoveHook, IInv, ProcInv, Spared
  <1>2. QED
    BY <1>1, Invariance, PTL DEF Spec, EditsSurviveUninstall

-----------------------------------------------------------------------------
(* Installs of one request.                                                *)

Writing == {"wrapping", "filling", "chmod", "recording", "noting"}

Together == twins.about \in Request

(* Only installs of that request are at work ...                           *)
Same ==
  \A q \in Proc : pc[q] # "idle" => pc[q] \in Installing /\ ask[q] = twins.about

(* ... each of them at one hook at a time, and through with all of them    *)
(* before it records them.                                                 *)
Order ==
  \A q \in Proc :
    /\ pc[q] \in {"probing", "unsetting"} => twins.about.hooks \subseteq todo[q]
    /\ pc[q] \in {"filling", "chmod"} => \A g, h \in cur[q] : g = h
    /\ pc[q] \in {"recording", "noting"} => todo[q] = {}

Filling(h) == \E q \in Proc : pc[q] = "filling" /\ h \in cur[q]

Reached(h) ==
  \/ twins.done
  \/ \E q \in Proc : pc[q] \in {"filling", "chmod"} /\ h \in cur[q]
  \/ \E q \in Proc : pc[q] \in Writing /\ h \notin todo[q]

Through(h) == twins.done \/ \E q \in Proc : pc[q] \in Writing /\ h \notin todo[q]

(* A hook that one of them has truncated is the wrapper, or is empty with  *)
(* the one at work that fills it; behind one of them it is executable.     *)
HookKept(h) ==
  /\ Reached(h) => hook[h] \in {twins.about.bin, "empty"}
  /\ Reached(h) /\ hook[h] = "empty" => Filling(h)
  /\ Through(h) => exec[h]

PathKept == twins.done \/ (\E q \in Proc : pc[q] \in Writing) => ~hooksPath

UnitKept ==
  /\ twins.done => (twins.about.unit => unit)
  /\ \A q \in Proc : pc[q] \in {"recording", "noting"} => (twins.about.unit => unit)

Noting == \E q \in Proc : pc[q] = "noting"

ManifestKept ==
  twins.done \/ Noting =>
    /\ manifest \in {Record(twins.about), EmptyManifest}
    /\ manifest = EmptyManifest => Noting

Kept ==
  /\ Same /\ Order /\ PathKept /\ UnitKept /\ ManifestKept
  /\ \A h \in twins.about.hooks : HookKept(h)

TwinInv == (twins.done => Together) /\ (Together => Kept)

LEMMA NoRequestIsNone == NoRequest \notin Request
  BY BinAssumption DEF NoRequest, Request

LEMMA ApartStep == twins' = Apart => TwinInv'
  BY NoRequestIsNone DEF Apart, TwinInv, Together

LEMMA FileTypes ==
  ASSUME IInv
  PROVE  /\ pc \in [Proc -> {"idle"} \cup Installing \cup Uninstalling]
         /\ ask \in [Proc -> Request \cup {NoRequest}]
         /\ todo \in [Proc -> SUBSET HookName] /\ cur \in [Proc -> SUBSET HookName]
         /\ hook \in [HookName -> Content] /\ exec \in [HookName -> BOOLEAN]
         /\ twins \in [about : Request \cup {NoRequest}, done : BOOLEAN]
  BY DEF IInv, TypeOK

(* Who takes a step of an install while they are together.                 *)
LEMMA TogetherFacts ==
  ASSUME IInv, TwinInv, Together, NEW p \in Proc, pc[p] # "idle"
  PROVE  /\ Kept /\ pc[p] \in Installing /\ ask[p] = twins.about
         /\ twins.about.bin \in Bin /\ twins.about.hooks \subseteq HookName
         /\ twins.about.bin \notin {"none", "empty", "torn", "users"}
  BY BinAssumption DEF TwinInv, Kept, Same, Together, Request

LEMMA InstallTwin ==
  ASSUME IInv, TwinInv, NEW p \in Proc, NEW r \in Requests, Install(p, r)
  PROVE  TwinInv'
  <1>0. r \in Request /\ pc \in [Proc -> {"idle"} \cup Installing \cup Uninstalling]
        /\ ask \in [Proc -> Request \cup {NoRequest}] /\ todo \in [Proc -> SUBSET HookName]
    BY RequestsAssumption, FileTypes
  <1>1. /\ pc'[p] = "probing" /\ ask'[p] = r /\ pc[p] = "idle"
        /\ todo'[p] = r.hooks
        /\ \A q \in Proc \ {p} : pc'[q] = pc[q] /\ ask'[q] = ask[q] /\ todo'[q] = todo[q]
        /\ hook' = hook /\ exec' = exec /\ manifest' = manifest /\ unit' = unit
        /\ hooksPath' = hooksPath /\ cur' = cur
    BY <1>0 DEF Install, Goto, files
  <1>2. CASE Alone(p)
    <2>1. twins' = [about |-> r, done |-> FALSE]
      BY <1>2 DEF Install
    <2>2. \A q \in Proc : q = p \/ pc'[q] = "idle"
      BY <1>1, <1>2 DEF Alone
    <2>3. Same' /\ Order' /\ PathKept' /\ UnitKept' /\ ManifestKept'
      BY <1>1, <2>1, <2>2 DEF Same, Order, PathKept, UnitKept, ManifestKept, Writing, Noting
    <2>4. \A h \in twins'.about.hooks : HookKept(h)'
      BY <1>1, <2>1, <2>2 DEF HookKept, Reached, Through, Writing
    <2> QED BY <1>0, <2>1, <2>3, <2>4 DEF TwinInv, Together, Kept
  <1>3. CASE ~Alone(p) /\ twins.about = r
    <2>1. twins' = twins /\ Together /\ Kept
      BY <1>0, <1>3 DEF Install, TwinInv, Together
    <2>2. Same'
      BY <1>1, <1>3, <2>1 DEF Kept, Same
    <2>3. Order' /\ PathKept' /\ UnitKept' /\ ManifestKept'
      BY <1>1, <1>3, <2>1 DEF Kept, Order, PathKept, UnitKept, ManifestKept, Writing, Noting
    <2>4. \A h \in twins'.about.hooks : HookKept(h)'
      BY <1>1, <2>1 DEF Kept, HookKept, Reached, Through, Filling, Writing
    <2> QED BY <2>1, <2>2, <2>3, <2>4 DEF TwinInv, Together, Kept
  <1>4. CASE ~Alone(p) /\ twins.about # r
    BY <1>4, ApartStep DEF Install
  <1> QED BY <1>2, <1>3, <1>4

(* A step of p that leaves the files alone, or only unsets core.hooksPath. *)
LEMMA QuietTwin ==
  ASSUME IInv, TwinInv, NEW p \in Proc, Probe(p) \/ Unset(p)
  PROVE  TwinInv'
  <1>0. pc \in [Proc -> {"idle"} \cup Installing \cup Uninstalling]
    BY FileTypes
  <1>1. /\ pc[p] \in {"probing", "unsetting"} /\ pc'[p] \in {"unsetting", "wrapping"}
        /\ pc'[p] = "wrapping" => ~hooksPath'
        /\ hooksPath' => hooksPath
        /\ \A q \in Proc \ {p} : pc'[q] = pc[q]
        /\ hook' = hook /\ exec' = exec /\ manifest' = manifest /\ unit' = unit
        /\ cur' = cur /\ ask' = ask /\ todo' = todo /\ twins' = twins
    BY <1>0 DEF Probe, Unset, Goto, files, local, history
  <1>2. CASE ~Together
    BY <1>1, <1>2 DEF TwinInv, Together
  <1>3. CASE Together
    <2>1. Kept /\ ask[p] = twins.about
      BY <1>1, <1>3, TogetherFacts
    <2>2. Same' /\ Order' /\ UnitKept' /\ ManifestKept'
      BY <1>1, <2>1 DEF Kept, Same, Order, UnitKept, ManifestKept, Noting
    <2>3. PathKept'
      BY <1>1, <2>1 DEF Kept, PathKept, Writing
    <2>4. twins.about.hooks \subseteq todo[p]
      BY <1>1, <2>1 DEF Kept, Order
    <2>5. \A h \in twins'.about.hooks : HookKept(h)'
      BY <1>1, <2>1, <2>4 DEF Kept, HookKept, Reached, Through, Filling, Writing
    <2> QED BY <1>1, <1>3, <2>2, <2>3, <2>5 DEF TwinInv, Together, Kept
  <1> QED BY <1>2, <1>3

(* What a step of an install that writes leaves to the others.             *)
Writes(p) ==
  /\ pc[p] \in Writing /\ pc'[p] \in Writing
  /\ \A q \in Proc \ {p} : pc'[q] = pc[q] /\ todo'[q] = todo[q] /\ cur'[q] = cur[q]
  /\ ask' = ask /\ hooksPath' = hooksPath /\ twins' = twins

LEMMA WritesKept ==
  ASSUME IInv, TwinInv, NEW p \in Proc, Writes(p),
         Together /\ Kept => /\ Order' /\ UnitKept' /\ ManifestKept'
                             /\ \A h \in twins.about.hooks : HookKept(h)'
  PROVE  TwinInv'
  <1>1. CASE ~Together
    BY <1>1 DEF TwinInv, Together, Writes
  <1>2. CASE Together
    <2>1. Kept
      BY <1>2 DEF TwinInv
    <2>2. Same'
      BY <2>1 DEF Kept, Same, Writes, Writing
    <2>3. PathKept'
      BY <2>1 DEF Kept, PathKept, Writes
    <2> QED BY <1>2, <2>1, <2>2, <2>3 DEF TwinInv, Kept, Together, Writes
  <1> QED BY <1>1, <1>2

LEMMA TruncateTwin ==
  ASSUME IInv, TwinInv, NEW p \in Proc, NEW g \in HookName, Truncate(p, g)
  PROVE  TwinInv'
  <1>0. /\ pc[p] = "wrapping" /\ pc'[p] = "filling" /\ g \in todo[p]
        /\ cur'[p] = {g} /\ todo' = todo
        /\ hook'[g] = "empty" /\ exec'[g] = (hook[g] # "none" /\ exec[g])
        /\ \A h \in HookName \ {g} : hook'[h] = hook[h] /\ exec'[h] = exec[h]
        /\ \A q \in Proc \ {p} : pc'[q] = pc[q] /\ cur'[q] = cur[q]
        /\ manifest' = manifest /\ unit' = unit /\ twins' = twins
    BY FileTypes DEF Truncate, Goto
  <1>1. Writes(p)
    BY <1>0 DEF Truncate, Writes, Writing
  <1>2. ASSUME Together, Kept PROVE Order' /\ UnitKept' /\ ManifestKept'
    BY <1>0, <1>2 DEF Kept, Order, UnitKept, ManifestKept, Noting
  <1>3. ASSUME Together, Kept, NEW h \in twins.about.hooks PROVE HookKept(h)'
    <2>0. h \in HookName /\ twins.about.bin \notin {"none", "empty", "torn", "users"}
      BY <1>0, <1>3, TogetherFacts
    <2>1. HookKept(h)
      BY <1>3 DEF Kept
    <2>2. CASE h = g
      <3>1. Filling(h)'
        BY <1>0, <2>2 DEF Filling
      <3>2. Through(h)' => Through(h) /\ Reached(h)
        BY <1>0, <2>2 DEF Through, Reached, Writing
      <3> QED BY <1>0, <2>0, <2>1, <2>2, <3>1, <3>2 DEF HookKept
    <2>3. CASE h # g
      <3>1. /\ Reached(h)' => Reached(h)
            /\ Through(h)' => Through(h)
            /\ Filling(h) => Filling(h)'
        BY <1>0, <2>3 DEF Reached, Through, Filling, Writing
      <3> QED BY <1>0, <2>0, <2>1, <2>3, <3>1 DEF HookKept
    <2> QED BY <2>2, <2>3
  <1> QED BY <1>1, <1>2, <1>3, WritesKept

LEMMA FillTwin ==
  ASSUME IInv, TwinInv, NEW p \in Proc, NEW g \in HookName, Fill(p, g)
  PROVE  TwinInv'
  <1>0. /\ pc[p] = "filling" /\ pc'[p] = "chmod" /\ g \in cur[p]
        /\ cur' = cur /\ todo' = todo /\ exec' = exec
        /\ hook'[g] \in Put(hook[g], ask[p].bin, "empty", "torn", {"none", "users"})
        /\ \A h \in HookName \ {g} : hook'[h] = hook[h]
        /\ \A q \in Proc \ {p} : pc'[q] = pc[q]
        /\ manifest' = manifest /\ unit' = unit /\ twins' = twins
    BY FileTypes DEF Fill, Goto, local
  <1>1. Writes(p)
    BY <1>0 DEF Fill, Writes, Writing, local
  <1>2. ASSUME Together, Kept PROVE Order' /\ UnitKept' /\ ManifestKept'
    BY <1>0, <1>2 DEF Kept, Order, UnitKept, ManifestKept, Noting
  <1>3. ASSUME Together, Kept, NEW h \in twins.about.hooks PROVE HookKept(h)'
    <2>0. /\ h \in HookName /\ twins.about.bin \notin {"none", "empty", "torn", "users"}
          /\ ask[p] = twins.about
      BY <1>0, <1>3, TogetherFacts
    <2>1. HookKept(h)
      BY <1>3 DEF Kept
    <2>2. /\ Reached(h)' => Reached(h)
          /\ Through(h)' => Through(h)
      BY <1>0 DEF Reached, Through, Writing
    <2>3. CASE h = g
      <3>1. Reached(h)
        BY <1>0, <2>3 DEF Reached
      <3>2. hook'[h] = twins.about.bin
        BY <1>0, <2>0, <2>1, <2>3, <3>1 DEF HookKept, Put
      <3> QED BY <1>0, <2>0, <2>1, <2>2, <3>2 DEF HookKept
    <2>4. CASE h # g
      <3>1. Filling(h) => Filling(h)'
        BY <1>0, <1>3, <2>4 DEF Filling, Kept, Order
      <3> QED BY <1>0, <2>0, <2>1, <2>2, <2>4, <3>1 DEF HookKept
    <2> QED BY <2>3, <2>4
  <1> QED BY <1>1, <1>2, <1>3, WritesKept

LEMMA MakeExecutableTwin ==
  ASSUME IInv, TwinInv, NEW p \in Proc, NEW g \in HookName, MakeExecutable(p, g)
  PROVE  TwinInv'
  <1>0. /\ pc[p] = "chmod" /\ pc'[p] = "wrapping" /\ g \in cur[p]
        /\ cur'[p] = {} /\ todo'[p] = todo[p] \ {g} /\ hook' = hook
        /\ exec'[g] = TRUE /\ \A h \in HookName \ {g} : exec'[h] = exec[h]
        /\ \A q \in Proc \ {p} : /\ pc'[q] = pc[q] /\ cur'[q] = cur[q]
                                 /\ todo'[q] = todo[q]
        /\ manifest' = manifest /\ unit' = unit /\ twins' = twins
    BY FileTypes DEF MakeExecutable, Goto, history
  <1>1. Writes(p)
    BY <1>0 DEF MakeExecutable, Writes, Writing
  <1>2. ASSUME Together, Kept PROVE Order' /\ UnitKept' /\ ManifestKept'
    BY <1>0, <1>2 DEF Kept, Order, UnitKept, ManifestKept, Noting
  <1>3. ASSUME Together, Kept, NEW h \in twins.about.hooks PROVE HookKept(h)'
    <2>0. h \in HookName
      BY <1>0, <1>3, TogetherFacts
    <2>1. HookKept(h)
      BY <1>3 DEF Kept
    <2>2. /\ Reached(h)' => Reached(h)
          /\ Filling(h) => Filling(h)'
          /\ h # g => (Through(h)' => Through(h))
      BY <1>0 DEF Reached, Through, Filling, Writing
    <2> QED BY <1>0, <2>0, <2>1, <2>2 DEF HookKept
  <1> QED BY <1>1, <1>2, <1>3, WritesKept

LEMMA RecordTwin ==
  ASSUME IInv, TwinInv, NEW p \in Proc, WriteUnit(p) \/ TruncateManifest(p)
  PROVE  TwinInv'
  <1>0. /\ pc[p] \in {"wrapping", "recording"} /\ pc'[p] \in {"recording", "noting"}
        /\ cur' = cur /\ todo' = todo /\ hook' = hook /\ exec' = exec /\ ask' = ask
        /\ \A q \in Proc \ {p} : pc'[q] = pc[q]
        /\ hooksPath' = hooksPath /\ twins' = twins
    BY FileTypes DEF WriteUnit, TruncateManifest, Goto, local, history
  <1>1. Writes(p)
    BY <1>0 DEF Writes, Writing
  <1>2. ASSUME Together, Kept PROVE Order' /\ UnitKept' /\ ManifestKept'
    <2>1. ask[p] = twins.about
      BY <1>0, <1>2, TogetherFacts
    <2>2. CASE WriteUnit(p)
      <3>1. pc'[p] = "recording" /\ manifest' = manifest /\ todo[p] = {}
            /\ unit' = (unit \/ ask[p].unit) /\ pc[p] = "wrapping"
        BY <2>2, FileTypes DEF WriteUnit, Goto
      <3>2. (unit => unit') /\ (twins.about.unit => unit')
        BY <2>1, <3>1
      <3> QED BY <1>0, <1>2, <3>1, <3>2
              DEF Kept, Order, UnitKept, ManifestKept, Noting
    <2>3. CASE TruncateManifest(p)
      <3>1. pc'[p] = "noting" /\ manifest' = EmptyManifest /\ pc[p] = "recording"
            /\ unit' = unit
        BY <2>3, FileTypes DEF TruncateManifest, Goto
      <3> QED BY <1>0, <1>2, <3>1
              DEF Kept, Order, UnitKept, ManifestKept, Noting
    <2> QED BY <2>2, <2>3
  <1>3. ASSUME Together, Kept, NEW h \in twins.about.hooks PROVE HookKept(h)'
    <2>1. HookKept(h)
      BY <1>3 DEF Kept
    <2>2. /\ Reached(h)' => Reached(h)
          /\ Filling(h) => Filling(h)'
          /\ Through(h)' => Through(h)
      BY <1>0 DEF Reached, Through, Filling, Writing
    <2> QED BY <1>0, <2>1, <2>2 DEF HookKept
  <1> QED BY <1>1, <1>2, <1>3, WritesKept

LEMMA FillManifestTwin ==
  ASSUME IInv, TwinInv, NEW p \in Proc, FillManifest(p)
  PROVE  TwinInv'
  <1>0. /\ pc[p] = "noting" /\ pc'[p] = "idle"
        /\ manifest' \in Put(manifest, Record(ask[p]), EmptyManifest,
                             TornManifest, {NoManifest})
        /\ hook' = hook /\ exec' = exec /\ unit' = unit /\ hooksPath' = hooksPath
        /\ \A q \in Proc \ {p} : /\ pc'[q] = pc[q] /\ ask'[q] = ask[q]
                                 /\ todo'[q] = todo[q] /\ cur'[q] = cur[q]
    BY FileTypes DEF FillManifest, End, Goto
  <1>1. CASE ~Together
    <2>1. twins.about # ask[p]
      BY <1>0, <1>1 DEF Together, IInv, ProcInv, Asked
    <2> QED BY <1>1, <2>1 DEF FillManifest, TwinInv, Together
  <1>2. CASE Together
    <2>1. Kept /\ ask[p] = twins.about
      BY <1>0, <1>2, TogetherFacts
    <2>2. twins' = [twins EXCEPT !.done = TRUE]
      BY <2>1 DEF FillManifest
    <2>3. twins'.about = twins.about /\ twins'.done = TRUE
      BY <2>2, FileTypes
    <2>4. Same' /\ Order' /\ PathKept'
      BY <1>0, <2>1, <2>3 DEF Kept, Same, Order, PathKept, Writing
    <2>5. UnitKept'
      BY <1>0, <2>1, <2>3 DEF Kept, UnitKept
    <2>6. ManifestKept'
      <3>1. manifest \in {Record(twins.about), EmptyManifest}
        BY <1>0, <2>1 DEF Kept, ManifestKept, Noting
      <3>2. /\ Record(twins.about) # EmptyManifest
            /\ Record(twins.about) # NoManifest /\ EmptyManifest # NoManifest
        BY DEF Record, EmptyManifest, NoManifest
      <3>3. manifest' = Record(twins.about)
        BY <1>0, <2>1, <3>1, <3>2 DEF Put
      <3> QED BY <2>3, <3>2, <3>3 DEF ManifestKept
    <2>7. ASSUME NEW h \in twins.about.hooks PROVE HookKept(h)'
      <3>1. HookKept(h)
        BY <2>1, <2>7 DEF Kept
      <3>2. Reached(h) /\ Through(h)
        BY <1>0, <2>1 DEF Reached, Through, Writing, Kept, Order
      <3>3. Filling(h) => Filling(h)'
        BY <1>0 DEF Filling
      <3> QED BY <1>0, <2>3, <3>1, <3>2, <3>3 DEF HookKept
    <2> QED BY <1>2, <2>3, <2>4, <2>5, <2>6, <2>7 DEF TwinInv, Together, Kept
  <1> QED BY <1>1, <1>2

(* A process that stops before it wrote anything leaves no trace; one that *)
(* stops later sets the installs apart.                                    *)
LEMMA StopTwin ==
  ASSUME IInv, TwinInv, NEW p \in Proc, Stop(p)
  PROVE  TwinInv'
  <1>1. CASE pc[p] \notin {"probing", "unsetting"}
    BY <1>1, ApartStep DEF Stop
  <1>2. CASE pc[p] \in {"probing", "unsetting"}
    <2>0. /\ pc'[p] = "idle"
          /\ \A q \in Proc \ {p} : /\ pc'[q] = pc[q] /\ ask'[q] = ask[q]
                                   /\ todo'[q] = todo[q] /\ cur'[q] = cur[q]
          /\ hook' = hook /\ exec' = exec /\ manifest' = manifest /\ unit' = unit
          /\ hooksPath' = hooksPath /\ twins' = twins
      BY <1>2, FileTypes DEF Stop, End, Goto, files
    <2>1. CASE ~Together
      BY <2>0, <2>1 DEF TwinInv, Together
    <2>2. CASE Together
      <3>1. Kept
        BY <2>2 DEF TwinInv
      <3>2. Same' /\ Order' /\ PathKept' /\ UnitKept'
        BY <1>2, <2>0, <3>1 DEF Kept, Same, Order, PathKept, UnitKept, Writing
      <3>3. ManifestKept'
        BY <1>2, <2>0, <3>1 DEF Kept, ManifestKept, Noting
      <3>4. ASSUME NEW h \in twins.about.hooks PROVE HookKept(h)'
        <4>1. HookKept(h)
          BY <3>1, <3>4 DEF Kept
        <4>2. /\ Reached(h)' => Reached(h)
              /\ Filling(h) => Filling(h)'
              /\ Through(h)' => Through(h)
          BY <1>2, <2>0 DEF Reached, Through, Filling, Writing
        <4> QED BY <2>0, <4>1, <4>2 DEF HookKept
      <3> QED BY <2>0, <2>2, <3>2, <3>3, <3>4 DEF TwinInv, Together, Kept
    <2> QED BY <2>1, <2>2
  <1> QED BY <1>1, <1>2

LEMMA TwinNext == IInv /\ TwinInv /\ [Next]_vars => TwinInv'
  <1> SUFFICES ASSUME IInv, TwinInv, [Next]_vars PROVE TwinInv'
    OBVIOUS
  <1>1. ASSUME NEW p \in Proc,
               \/ \E h \in HookName : CheckHook(p, h) \/ RemoveHook(p, h)
               \/ RemoveUnit(p)
        PROVE  TwinInv'
    <2>1. pc[p] \in Uninstalling /\ twins' = twins
      BY <1>1 DEF CheckHook, RemoveHook, RemoveUnit, history
    <2>2. ~Together
      BY <2>1 DEF TwinInv, Kept, Same
    <2> QED BY <2>1, <2>2 DEF TwinInv, Together
  <1>2. ASSUME NEW p \in Proc, Uninstall(p) \/ RemoveManifest(p) PROVE TwinInv'
    BY <1>2, ApartStep DEF Uninstall, RemoveManifest
  <1>3. ASSUME NEW p \in Proc, Step(p) PROVE TwinInv'
    BY <1>1, <1>2, <1>3, InstallTwin, QuietTwin, TruncateTwin, FillTwin,
       MakeExecutableTwin, RecordTwin, FillManifestTwin, StopTwin
       DEF Step
  <1>4. ASSUME NEW h \in HookName, NEW c \in {"none", "users"}, UserSets(h, c)
        PROVE  TwinInv'
    BY <1>4, ApartStep DEF UserSets
  <1>5. CASE UserSetsHooksPath
    BY <1>5, ApartStep DEF UserSetsHooksPath
  <1>6. CASE UNCHANGED vars
    <2>1. /\ pc' = pc /\ ask' = ask /\ todo' = todo /\ cur' = cur
          /\ hook' = hook /\ exec' = exec /\ manifest' = manifest /\ unit' = unit
          /\ hooksPath' = hooksPath /\ twins' = twins
      BY <1>6 DEF vars, files, local, history
    <2>2. Kept => Kept'
      BY <2>1 DEF Kept, Same, Order, PathKept, UnitKept, ManifestKept, Noting,
                  HookKept, Reached, Through, Filling
    <2> QED BY <2>1, <2>2 DEF TwinInv, Together
  <1> QED BY <1>3, <1>4, <1>5, <1>6 DEF Next

(* Whatever was there before, and however many installs of one request     *)
(* run side by side: when they are over, one of them with success and none *)
(* halfway, the hooks are in force, the manifest says so, and doctor and   *)
(* status agree (install/mod.rs 123-246).                                  *)
THEOREM TwinsAgree == Spec => []TwinsDoNotRace
  <1>1. Init => TwinInv
    BY NoRequestIsNone DEF Init, Apart, TwinInv, Together
  <1>2. IInv /\ TwinInv => TwinsDoNotRace
    <2> SUFFICES ASSUME IInv, TwinInv, twins.done, \A p \in Proc : pc[p] = "idle"
                 PROVE  /\ InForce(twins.about)
                        /\ manifest = Record(twins.about)
                        /\ CheckInstalled = "pass" /\ CheckHooksPath = "pass"
                        /\ DoctorOk /\ ~HasDiagnostic
                        /\ DOMAIN ReadInstalled = twins.about.hooks
                        /\ \A h \in twins.about.hooks :
                             ReadInstalled[h].present /\ ReadInstalled[h].matches
                        /\ twins.about.unit => unit
      BY DEF TwinsDoNotRace
    <2>1. Kept /\ twins.about \in Request
      BY DEF TwinInv, Together
    <2>2. twins.about.bin # "none"
      BY <2>1, BinAssumption DEF Request
    <2>3. \A h \in twins.about.hooks : hook[h] = twins.about.bin /\ exec[h]
      BY <2>1 DEF Kept, HookKept, Reached, Through, Filling
    <2>4. ~hooksPath /\ (twins.about.unit => unit)
      BY <2>1 DEF Kept, PathKept, UnitKept
    <2>5. manifest = Record(twins.about)
      BY <2>1 DEF Kept, ManifestKept, Noting
    <2>6. /\ manifest.hooks = twins.about.hooks /\ manifest.bin = twins.about.bin
          /\ manifest \in Manifest
      BY <2>1, <2>5 DEF Record, Manifest, Request
    <2>7. manifest # NoManifest /\ manifest \notin Unreadable
      BY <2>5 DEF Record, NoManifest, Unreadable, EmptyManifest, TornManifest
    <2>8. \A h \in manifest.hooks : Matches(h) /\ hook[h] # "none"
      BY <2>2, <2>3, <2>6 DEF Matches
    <2>9. CheckInstalled = "pass" /\ CheckHooksPath = "pass"
      BY <2>4, <2>7, <2>8 DEF CheckInstalled, CheckHooksPath
    <2>10. /\ DOMAIN ReadInstalled = twins.about.hooks
           /\ \A h \in twins.about.hooks :
                ReadInstalled[h].present /\ ReadInstalled[h].matches
      BY <2>6, <2>8 DEF ReadInstalled
    <2> QED BY <2>3, <2>4, <2>5, <2>7, <2>9, <2>10
            DEF InForce, DoctorOk, HasDiagnostic
  <1> QED BY <1>1, <1>2, TwinNext, Invariance, PTL DEF Spec

-----------------------------------------------------------------------------
(* Every variable keeps its type; an uninstall works from a manifest that  *)
(* parsed.                                                                 *)
THEOREM TypeCorrect == Spec => []TypeOK
  <1>1. IInv => TypeOK
    BY DEF IInv
  <1>2. QED
    BY <1>1, Invariance, PTL

=============================================================================
