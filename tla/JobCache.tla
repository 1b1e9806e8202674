------------------------------ MODULE JobCache ------------------------------
(* The content-addressed cache of job results: cache/lookup.rs, store.rs   *)
(* and tool_hash.rs, and their use by runner/executor.rs.  Hook runs of    *)
(* one concurrent_safe job in one worktree look the job up, run it on a    *)
(* miss and store what it did, while the user edits and touches the files, *)
(* upgrades the tool and clears the cache.                                 *)
(*                                                                         *)
(* A hash is the value it is taken of, so that keys collide only when what *)
(* they hash does.  The args hash is a constant of the job and left out;   *)
(* only an exit of 0 is stored, so an entry is what it says of its inputs. *)
(* Every write to a file comes in a second of its own.                     *)
(***************************************************************************)
EXTENDS Integers, Sequences, Functions

CONSTANTS
  Proc,        \* hook runs at work at a time, each a process
  Files,       \* how many files the job's plan has
  Content,     \* what a file may contain
  MaxMoves,    \* bound on hook runs and writes to files, taken together
  MaxTool      \* bound on the versions of the tool

ASSUME FilesAssumption == Files \in Nat \ {0}
ASSUME BoundsAssumption == MaxMoves \in Nat /\ MaxTool \in Nat \ {0}
ASSUME ProcAssumption == 0 \notin Proc

File == 1..Files      \* in path order

VARIABLES
  content, mtime,   \* per file, what is on disk, and since which second
  clock,            \* the last second in which a file was written
  tool,             \* the version of the tool on PATH
  runs,             \* hook runs begun
  entries,          \* the store: partial function from keys to results
  temps,            \* processes with a temporary file in the store
  pc,               \* per process, where it is
  done,             \* per process, how many files the current walk did
  walk,             \* per process, what the walk found, per file
  memo,             \* per process, the memoised tool hash, 0 for none
  found,            \* per process, the entry that lookup got
  snap,             \* per process, the mtimes for the entry
  saw,              \* per process, per file, what its command checked
  used,             \* per process, the version its command ran
  raced,            \* per process, whether somebody else changed a file or
                    \* the tool since its command began
  settled,          \* whether the store has a result for what is there now
  steady            \* per process, whether it was so ever since it began

disk == <<content, mtime, clock, tool>>
store == <<entries, temps>>
local == <<done, walk, memo, found, snap, saw, used>>
history == <<raced, settled, steady>>
vars == <<disk, store, runs, pc, local, history>>

Second == 0..MaxMoves
Key == [content : [File -> Content], tool : 1..MaxTool]
Entry == [inputs : [File -> Second], saw : [File -> Content],
          used : 1..MaxTool, raced : BOOLEAN]
NoEntry == [inputs |-> <<>>, saw |-> <<>>, used |-> 0, raced |-> FALSE]

(* The phases of lookup, of the job, and of store: each is blocking work   *)
(* of its own, and the executor awaits one after the other.                *)
PC == {"idle", "hashing", "fresh", "running", "stating",
       "rehashing", "persisting"}

TypeOK ==
  /\ content \in [File -> Content] /\ mtime \in [File -> Second]
  /\ clock \in Second /\ tool \in 1..MaxTool /\ runs \in 0..MaxMoves
  /\ DOMAIN entries \subseteq Key
  /\ \A k \in DOMAIN entries : entries[k] \in Entry
  /\ temps \subseteq Proc
  /\ pc \in [Proc -> PC]
  /\ done \in [Proc -> 0..Files] /\ walk \in [Proc -> Seq(Content)]
  /\ memo \in [Proc -> 0..MaxTool] /\ found \in [Proc -> Entry \cup {NoEntry}]
  /\ saw \in [Proc -> Seq(Content)] /\ snap \in [Proc -> Seq(Second)]
  /\ used \in [Proc -> 0..MaxTool]
  /\ raced \in [Proc -> BOOLEAN] /\ steady \in [Proc -> BOOLEAN]
  /\ settled \in BOOLEAN

Init ==
  /\ content \in [File -> Content]
  /\ mtime = [f \in File |-> 0]
  /\ clock = 0 /\ tool = 1 /\ runs = 0
  /\ entries = <<>> /\ temps = {}
  /\ pc = [p \in Proc |-> "idle"]
  /\ done = [p \in Proc |-> 0]
  /\ walk = [p \in Proc |-> <<>>]
  /\ memo = [p \in Proc |-> 0]
  /\ found = [p \in Proc |-> NoEntry]
  /\ snap = [p \in Proc |-> <<>>]
  /\ saw = [p \in Proc |-> <<>>]
  /\ used = [p \in Proc |-> 0]
  /\ raced = [p \in Proc |-> FALSE]
  /\ settled = FALSE
  /\ steady = [p \in Proc |-> FALSE]

-----------------------------------------------------------------------------
(* The world around the processes.                                         *)

(* Where a process runs its command and stores what came of it.            *)
Storing == {"running", "stating", "rehashing", "persisting"}

(* Somebody, a process or the user (then p is none), changes something.    *)
Disturb(p) ==
  /\ raced' = [q \in Proc |-> raced[q] \/ (q # p /\ pc[q] \in Storing)]
  /\ settled' = FALSE
  /\ steady' = [q \in Proc |-> FALSE]

MayMove == runs + clock < MaxMoves

Write(f, c) ==
  /\ MayMove
  /\ clock' = clock + 1
  /\ content' = [content EXCEPT ![f] = c]
  /\ mtime' = [mtime EXCEPT ![f] = clock']
  /\ UNCHANGED tool

(* An edit, or a touch when the content stays.                             *)
Save(f, c) ==
  /\ Write(f, c)
  /\ Disturb(0)
  /\ UNCHANGED <<store, runs, pc, local>>

Upgrade ==
  /\ tool < MaxTool
  /\ tool' = tool + 1
  /\ Disturb(0)
  /\ UNCHANGED <<content, mtime, clock, store, runs, pc, local>>

(* Store::clear, in another process, removes one file after the other,     *)
(* temporary ones too, and may end early with an error.                    *)
ClearEntry(k) ==
  /\ k \in DOMAIN entries
  /\ entries' = Restrict(entries, DOMAIN entries \ {k})
  /\ settled' = FALSE
  /\ steady' = [q \in Proc |-> FALSE]
  /\ UNCHANGED <<disk, temps, runs, pc, local, raced>>

ClearTemp(p) ==
  /\ p \in temps
  /\ temps' = temps \ {p}
  /\ UNCHANGED <<disk, entries, runs, pc, local, history>>

-----------------------------------------------------------------------------
(* Walks over the files, one file per step.                                *)

NextFile(p) == done[p] + 1
More(p) == NextFile(p) \in File

Goto(p, next) ==
  /\ pc' = [pc EXCEPT ![p] = next]
  /\ done' = [done EXCEPT ![p] = 0]
  /\ walk' = [walk EXCEPT ![p] = <<>>]

(* hash_file_set reads the next file.                                      *)
Hash(p) ==
  /\ pc[p] \in {"hashing", "rehashing"} /\ More(p)
  /\ done' = [done EXCEPT ![p] = @ + 1]
  /\ walk' = [walk EXCEPT ![p] = Append(@, content[NextFile(p)])]
  /\ UNCHANGED <<disk, store, runs, pc, memo, found, snap, saw, used, history>>

(* resolve_tool_hash: the binary that the command's first word is on PATH, *)
(* through mise's shims, memoised for the process.                         *)
ToolHash(p) == IF memo[p] = 0 THEN tool ELSE memo[p]

(* derive_key, when the files are hashed: what they contain and the tool;  *)
(* the third part, args_hash_from_fields, is the job's own.                *)
DeriveKey(p) == [content |-> walk[p], tool |-> ToolHash(p)]

(* Store::get: an entry that is not there is a miss.                       *)
StoreHas(key) == key \in DOMAIN entries

-----------------------------------------------------------------------------
(* Looking up.                                                             *)

Begin(p) ==
  /\ pc[p] = "idle" /\ MayMove
  /\ runs' = runs + 1
  /\ Goto(p, "hashing")
  /\ steady' = [steady EXCEPT ![p] = settled]
  /\ UNCHANGED <<disk, store, memo, found, snap, saw, used, raced, settled>>

(* The process is over, and what it knew is gone.                          *)
End(p) ==
  /\ Goto(p, "idle")
  /\ memo' = [memo EXCEPT ![p] = 0]
  /\ found' = [found EXCEPT ![p] = NoEntry]
  /\ snap' = [snap EXCEPT ![p] = <<>>]
  /\ saw' = [saw EXCEPT ![p] = <<>>]
  /\ used' = [used EXCEPT ![p] = 0]
  /\ raced' = [raced EXCEPT ![p] = FALSE]

Run(p) ==
  /\ Goto(p, "running")
  /\ used' = [used EXCEPT ![p] = tool]
  /\ raced' = [raced EXCEPT ![p] = memo'[p] \notin {0, tool}]
  /\ UNCHANGED <<settled, steady>>

(* derive_key, then Store::get.                                            *)
Get(p) ==
  /\ pc[p] = "hashing" /\ ~More(p)
  /\ memo' = [memo EXCEPT ![p] = ToolHash(p)]
  /\ LET key == DeriveKey(p)
     IN  IF StoreHas(key)
         THEN /\ found' = [found EXCEPT ![p] = entries[key]]
              /\ Goto(p, "fresh")
              /\ UNCHANGED <<used, history>>
         ELSE Run(p) /\ UNCHANGED found
  /\ UNCHANGED <<disk, store, runs, snap, saw>>

(* A file that cannot be read makes lookup fail: the job runs.             *)
LookupFails(p) ==
  /\ pc[p] = "hashing" /\ More(p)
  /\ UNCHANGED memo
  /\ Run(p)
  /\ UNCHANGED <<disk, store, runs, found, snap, saw>>

(* Mutant: no freshness gate.                                              *)
MutFresh(p) == TRUE

Fresh(p) == mtime[NextFile(p)] = found[p].inputs[NextFile(p)]

(* inputs_fresh accepts the next file.                                     *)
Accept(p) ==
  /\ pc[p] = "fresh" /\ More(p) /\ Fresh(p)
  /\ done' = [done EXCEPT ![p] = @ + 1]
  /\ walk' = [walk EXCEPT ![p] = Append(@, content[NextFile(p)])]
  /\ UNCHANGED <<disk, store, runs, pc, memo, found, snap, saw, used, history>>

Stale(p) ==
  /\ pc[p] = "fresh" /\ More(p) /\ ~Fresh(p)
  /\ UNCHANGED memo
  /\ Run(p)
  /\ UNCHANGED <<disk, store, runs, found, snap, saw>>

(* The entry is replayed in place of a run.                                *)
Hit(p) ==
  /\ pc[p] = "fresh" /\ ~More(p)
  /\ End(p)
  /\ steady' = [steady EXCEPT ![p] = FALSE]
  /\ UNCHANGED <<disk, store, runs, settled>>

-----------------------------------------------------------------------------
(* Running and storing.                                                    *)

(* The command checks the next file, and may put it right as it does.      *)
Check(p) ==
  /\ pc[p] = "running" /\ More(p)
  /\ LET f == NextFile(p)
     IN  \/ /\ saw' = [saw EXCEPT ![p] = Append(@, content[f])]
            /\ UNCHANGED <<disk, history>>
         \/ \E c \in Content \ {content[f]} :
              /\ Write(f, c)
              /\ Disturb(p)
              /\ saw' = [saw EXCEPT ![p] = Append(@, c)]
  /\ done' = [done EXCEPT ![p] = @ + 1]
  /\ UNCHANGED <<store, runs, pc, walk, memo, found, snap, used>>

Passes(p) ==
  /\ pc[p] = "running" /\ ~More(p)
  /\ Goto(p, "stating")
  /\ UNCHANGED <<disk, store, runs, memo, found, snap, saw, used, history>>

Fails(p) ==
  /\ pc[p] = "running"
  /\ End(p)
  /\ steady' = [steady EXCEPT ![p] = FALSE]
  /\ UNCHANGED <<disk, store, runs, settled>>

(* Mutant: the time of the write in place of the file's mtime.             *)
MutStat(p) ==
  /\ pc[p] = "stating" /\ More(p)
  /\ snap' = [snap EXCEPT ![p] = Append(@, clock)]
  /\ IF NextFile(p) + 1 \in File
     THEN done' = [done EXCEPT ![p] = @ + 1] /\ UNCHANGED <<pc, walk>>
     ELSE Goto(p, "rehashing")
  /\ UNCHANGED <<disk, store, runs, memo, found, saw, used, history>>

(* snapshot_inputs: the mtime of the next file.                            *)
Stat(p) ==
  /\ pc[p] = "stating" /\ More(p)
  /\ snap' = [snap EXCEPT ![p] = Append(@, mtime[NextFile(p)])]
  /\ IF NextFile(p) + 1 \in File
     THEN done' = [done EXCEPT ![p] = @ + 1] /\ UNCHANGED <<pc, walk>>
     ELSE Goto(p, "rehashing")
  /\ UNCHANGED <<disk, store, runs, memo, found, saw, used, history>>

(* Store::put: derive_key is done, a temporary file is filled ...          *)
Create(p) ==
  /\ pc[p] = "rehashing" /\ ~More(p)
  /\ pc' = [pc EXCEPT ![p] = "persisting"]
  /\ memo' = [memo EXCEPT ![p] = ToolHash(p)]
  /\ temps' = temps \cup {p}
  /\ UNCHANGED <<disk, entries, runs, done, walk, found, snap, saw, used,
                 history>>

(* ... and renamed, unless somebody has removed it, which only warns.      *)
Persist(p) ==
  LET key == DeriveKey(p)
      entry == [inputs |-> snap[p], saw |-> saw[p], used |-> used[p],
                raced |-> raced[p]]
  IN  /\ pc[p] = "persisting"
      /\ IF p \in temps
         THEN /\ entries' = [k \in DOMAIN entries \cup {key} |->
                               IF k = key THEN entry ELSE entries[k]]
              /\ settled' = IF key = [content |-> content, tool |-> tool]
                            THEN ~raced[p] ELSE settled
         ELSE UNCHANGED <<entries, settled>>
      /\ steady' = [q \in Proc |-> q # p /\ steady[q] /\ settled']
      /\ temps' = temps \ {p}
      /\ End(p)
      /\ UNCHANGED <<disk, runs>>

Crash(p) ==
  /\ pc[p] # "idle"
  /\ End(p)
  /\ steady' = [steady EXCEPT ![p] = FALSE]
  /\ UNCHANGED <<disk, store, runs, settled>>

Step(p) ==
  \/ Begin(p) \/ Hash(p) \/ Get(p) \/ LookupFails(p)
  \/ Accept(p) \/ Stale(p) \/ Hit(p)
  \/ Check(p) \/ Passes(p) \/ Fails(p)
  \/ Stat(p) \/ Create(p) \/ Persist(p) \/ Crash(p)

Next ==
  \/ \E p \in Proc : Step(p) \/ ClearTemp(p)
  \/ \E f \in File, c \in Content : Save(f, c)
  \/ \E k \in DOMAIN entries : ClearEntry(k)
  \/ Upgrade

Spec == Init /\ [][Next]_vars

-----------------------------------------------------------------------------
Accepts(p) == pc[p] = "fresh" /\ pc'[p] = "fresh" /\ done'[p] > done[p]

(* Not for a file that cannot be read.                                     *)
Misses(p) ==
  /\ pc'[p] = "running"
  /\ pc[p] = "fresh" \/ (pc[p] = "hashing" /\ ~More(p))

(* A file that a hit accepts is as the command saw it when it passed, and  *)
(* the command was the version now looked for, whatever was edited since   *)
(* the lookup hashed it; provided that nobody changed files or tool while  *)
(* that command ran and its result was stored.                             *)
HitsAreEarned ==
  [][\A p \in Proc :
       Accepts(p) /\ ~found[p].raced =>
         /\ content[NextFile(p)] = found[p].saw[NextFile(p)]
         /\ found[p].used = memo[p]]_vars

(* A job that ran and was stored is answered from the cache for as long as *)
(* nothing was saved, upgraded or cleared, also when runs overlap          *)
(* (architecture/cache.mdx: two identical commits in a row always hit).    *)
CleanRecommitHits ==
  [][\A p \in Proc : Misses(p) => ~steady[p]]_vars

(* Said of the program (lookup.rs 121-123): hits are tied to the exact     *)
(* on-disk state they were computed from.                                  *)
HitsAreTiedToTheirInputs ==
  [][\A p \in Proc :
       Accepts(p) => content[NextFile(p)] = found[p].saw[NextFile(p)]]_vars
=============================================================================
