---------------------------- MODULE HookRunProofs ----------------------------
(* Theorems about HookRun, for any worktrees, hooks and trees: the lock    *)
(* keeps the entries of runs apart, what the user had is kept, and a       *)
(* report means that the tree is as it was.                                *)
(***************************************************************************)
EXTENDS HookRun, TLAPS

Mine == {"mine", "mine fixed"}
Forms(c) == {c, Fixed(c), "merged", "conflict"}
InRun == {"resolving", "running", "finding", "popping"}

(* Who holds what at which step of a run.                                  *)
Control(w) ==
  /\ pc[w] # "idle" => runs[w] \in 1..MaxRuns
  /\ guard[w] => pc[w] \in InRun
  /\ pc[w] \in {"finding", "popping"} => guard[w]
  /\ pc[w] = "pushing" \/ guard[w] => w \in holders
  /\ pc[w] \in {"locking", "pushing", "resolving", "running"} => exec[w] = "none"
  /\ pc[w] \in {"finding", "popping", "returning"} => exec[w] # "none"
  /\ pc[w] = "idle" /\ result[w] \in {"ok", "failed"} =>
       ~restore_err[w] /\ exec[w] # "none"

FlockInv == \A v, w \in holders : v = w

(* Entries are told apart by their runs, and there are none of runs to     *)
(* come.                                                                   *)
UniqueInv ==
  \A i, j \in DOMAIN stash :
    stash[i].run = stash[j].run /\ stash[i].run # NoRun => i = j

NumberInv(w) ==
  \A i \in DOMAIN stash : \A n \in 1..MaxRuns :
    stash[i].run = <<w, n>> => n <= runs[w]

HasEntry(w) == \E i \in DOMAIN stash : stash[i].run = ThisRun(w)

(* Where the entry of a run is.                                            *)
EntryInv(w) ==
  /\ (pc[w] \in {"locking", "pushing"} \/ (pc[w] \in InRun /\ ~guard[w])) => ~HasEntry(w)
  /\ (pc[w] = "popping" /\ ~raced[w]) => (stash # <<>> /\ stash[1].run = ThisRun(w))
  /\ \A i \in DOMAIN stash :
       stash[i].run = ThisRun(w) => stash[i] = Entry(given[w], ThisRun(w))
  /\ (/\ pc[w] = "returning" \/ (pc[w] = "idle" /\ result[w] # "crashed")
      /\ ~raced[w] /\ exec[w] # "none" /\ HasEntry(w)) => restore_err[w]
  /\ \A i \in DOMAIN stash :
       guard[w] /\ stash[i].run = ThisRun(w) =>
         \A j \in 1..(i - 1) : stash[j].run = NoRun

(* What a run has made of the tree it was given.                           *)
TreeInv(w) ==
  /\ pc[w] # "idle" => tree[w].head = given[w].head
  /\ pc[w] \in {"locking", "pushing"} => tree[w] = given[w]
  /\ guard[w] => ~HasPartiallyStaged(given[w])
  /\ guard[w] => \A f \in File : given[w].index[f] = "none" => tree[w].index[f] = "none"
  /\ pc[w] \in InRun =>
       \A f \in File :
         tree[w].index[f] \in {given[w].index[f], Fixed(given[w].index[f])}
  /\ pc[w] \in InRun =>
       \A f \in File \ hook[w].touches :
         /\ tree[w].index[f] = given[w].index[f]
         /\ tree[w].work[f] = IF guard[w] THEN given[w].index[f] ELSE given[w].work[f]
  /\ (/\ \/ pc[w] = "returning" /\ ~restore_err[w]
         \/ pc[w] = "idle" /\ result[w] \in {"ok", "failed"}
      /\ ~raced[w]) =>
       \A f \in File \ hook[w].touches :
         /\ tree[w].index[f] = given[w].index[f]
         /\ tree[w].work[f] = given[w].work[f]

(* What stage_fixed may come to stage.                                     *)
StageInv(w) ==
  /\ pc[w] = "running" /\ hook[w].stage_fixed =>
       \A f \in Tracked(tree[w]) \ before[w] :
         /\ tree[w].work[f] \in {tree[w].index[f], Fixed(tree[w].index[f])}
         /\ f \notin hook[w].touches => tree[w].work[f] = tree[w].index[f]
         /\ tree[w].work[f] \notin Mine
  /\ pc[w] \notin {"idle", "returning"} =>
       \A f \in File : tree[w].index[f] \notin Mine
  /\ \A f \in File : tree[w].index[f] \in Mine => Unmerged(tree[w])

(* Where a content is kept.  HEAD is only good for it where the index is   *)
(* unmerged, since a commit may overwrite it.                              *)
InTree(w, f, c) ==
  \/ tree[w].index[f] \in Forms(c) \/ tree[w].work[f] \in Forms(c)
  \/ /\ pc[w] \in {"idle", "returning"} /\ Unmerged(tree[w])
     /\ tree[w].head[f] \in Forms(c)

InEntry(w, f, c, e) == e.run \in {w} \X (1..runs[w]) /\ e.work[f] \in Forms(c)

InEntries(w, f, c) ==
  \/ \E e \in taken : InEntry(w, f, c, e)
  \/ \E i \in DOMAIN stash : InEntry(w, f, c, stash[i])

NotRaced == \A w \in Worktree : ~raced[w]

KeptInv ==
  NotRaced =>
    \A w \in Worktree, f \in File, c \in Content :
      <<w, f, c>> \in owed => InTree(w, f, c) \/ InEntries(w, f, c)

RunInv(w) == Control(w) /\ NumberInv(w) /\ EntryInv(w) /\ TreeInv(w) /\ StageInv(w)

IInv ==
  /\ TypeOK /\ FlockInv /\ UniqueInv
  /\ \A w \in Worktree : RunInv(w)
  /\ KeptInv

-----------------------------------------------------------------------------
(* Contents, sequences and git's operators.                                *)

LEMMA FixedFacts ==
  /\ \A c \in Content : Fixed(c) \in Content /\ Fixed(Fixed(c)) = Fixed(c)
  /\ \A c \in Content : Fixed(c) \in Mine <=> c \in Mine
  /\ Fixed("merged") = "merged" /\ Fixed("conflict") = "conflict"
  BY DEF Fixed, Content, Mine

LEMMA FormsFacts ==
  ASSUME NEW c \in Content, NEW x \in Forms(c)
  PROVE  x \in Content /\ Fixed(x) \in Forms(c)
  BY FixedFacts DEF Forms, Content

LEMMA Cons ==
  ASSUME NEW S, NEW s \in Seq(S), NEW e \in S
  PROVE  /\ <<e>> \o s \in Seq(S)
         /\ DOMAIN (<<e>> \o s) = 1..(Len(s) + 1)
         /\ (<<e>> \o s)[1] = e
         /\ \A i \in 1..Len(s) : (<<e>> \o s)[i + 1] = s[i]
         /\ \A i \in 2..(Len(s) + 1) : (<<e>> \o s)[i] = s[i - 1]
  OBVIOUS

LEMMA Rest ==
  ASSUME NEW S, NEW s \in Seq(S), s # <<>>
  PROVE  /\ Tail(s) \in Seq(S)
         /\ Len(s) \in Nat \ {0} /\ DOMAIN s = 1..Len(s)
         /\ DOMAIN Tail(s) = 1..(Len(s) - 1)
         /\ s[1] \in S
         /\ \A i \in 1..(Len(s) - 1) : Tail(s)[i] = s[i + 1]
         /\ \A i \in 2..Len(s) : Tail(s)[i - 1] = s[i]
  OBVIOUS

LEMMA PushTree ==
  ASSUME NEW t \in Tree
  PROVE  /\ AfterPush(t) \in Tree
         /\ AfterPush(t).head = t.head /\ AfterPush(t).index = t.index
         /\ AfterPush(t).work = t.index
  BY DEF AfterPush, Tree

LEMMA PopTree ==
  ASSUME NEW t \in Tree, NEW e \in StashEntry, NEW m \in Merges(t, e)
  PROVE  /\ AfterPop(t, e, m) \in Tree
         /\ AfterPop(t, e, m).head = t.head
         /\ \A f \in File :
              \/ /\ AfterPop(t, e, m).index[f] = t.index[f]
                 /\ \/ AfterPop(t, e, m).work[f] = t.work[f]
                    \/ /\ f \in e.untracked /\ t.work[f] = "none"
                       /\ AfterPop(t, e, m).work[f] = e.work[f]
              \/ /\ f \in ToMerge(t, e) /\ t.work[f] = t.index[f]
                 /\ AfterPop(t, e, m).work[f] = m[f]
                 /\ m[f] \in Merge(e.base[f], t.index[f], e.work[f])
                 /\ \/ AfterPop(t, e, m).index[f] = t.index[f]
                    \/ Unmerged(AfterPop(t, e, m))
         /\ PopSucceeds(t, e, m) => \A f \in File :
              /\ AfterPop(t, e, m).index[f] = t.index[f]
              /\ f \in ToMerge(t, e) =>
                   /\ AfterPop(t, e, m).work[f] = m[f] /\ m[f] # "conflict"
                   /\ m[f] \in Merge(e.base[f], t.index[f], e.work[f])
              /\ f \in e.untracked \ ToMerge(t, e) =>
                   t.work[f] = "none" /\ AfterPop(t, e, m).work[f] = e.work[f]
              /\ f \notin e.untracked /\ f \notin ToMerge(t, e) =>
                   AfterPop(t, e, m).work[f] = t.work[f]
  <1>0. m \in [ToMerge(t, e) -> Content] /\ ToMerge(t, e) \subseteq File
    <2>1. ToMerge(t, e) \subseteq File
      BY DEF ToMerge, StashEntry
    <2> QED BY <2>1 DEF Merges
  <1> DEFINE changed == IF Blocked(t, e) THEN {} ELSE DOMAIN m
             free == {f \in e.untracked : t.work[f] = "none"}
             indexed(f) == IF m[f] = "conflict" THEN "unmerged" ELSE m[f]
             work == [f \in File |-> IF f \in changed THEN m[f]
                                     ELSE IF f \in free THEN e.work[f]
                                     ELSE t.work[f]]
             index == [f \in File |-> IF f \in changed /\ Conflicts(m)
                                      THEN indexed(f) ELSE t.index[f]]
  <1>1. AfterPop(t, e, m) = [t EXCEPT !.work = work, !.index = index]
    BY DEF AfterPop
  <1>2. changed \subseteq ToMerge(t, e) /\ (changed # {} => changed = ToMerge(t, e))
    BY <1>0
  <1>3. work \in [File -> Content] /\ index \in [File -> Content]
    <2>1. \A f \in changed : m[f] \in Content /\ indexed(f) \in Content
      BY <1>0 DEF Content
    <2>2. \A f \in File : e.work[f] \in Content /\ t.work[f] \in Content /\ t.index[f] \in Content
      BY DEF StashEntry, Tree
    <2> QED BY <2>1, <2>2
  <1>4. /\ AfterPop(t, e, m) \in Tree
        /\ AfterPop(t, e, m).head = t.head
        /\ AfterPop(t, e, m).work = work /\ AfterPop(t, e, m).index = index
    BY <1>1, <1>3 DEF Tree
  <1>5. \A f \in changed :
          /\ t.work[f] = t.index[f]
          /\ m[f] \in Merge(e.base[f], t.index[f], e.work[f])
    BY <1>0, <1>2 DEF Blocked, Merges
  <1>6. changed # {} /\ Conflicts(m) => Unmerged(AfterPop(t, e, m))
    <2> SUFFICES ASSUME changed # {}, Conflicts(m)
                 PROVE  \E f \in File : index[f] = "unmerged"
      BY <1>4 DEF Unmerged
    <2>1. PICK f \in DOMAIN m : m[f] = "conflict"
      BY DEF Conflicts
    <2>2. f \in changed /\ f \in File
      BY <1>0, <1>2
    <2> QED BY <2>1, <2>2
  <1>7. PopSucceeds(t, e, m) =>
          /\ changed = ToMerge(t, e) /\ ~Conflicts(m)
          /\ \A f \in changed : m[f] # "conflict"
          /\ \A f \in e.untracked : t.work[f] = "none"
    BY <1>0 DEF PopSucceeds, Conflicts
  <1>8. PopSucceeds(t, e, m) => index = t.index
    BY <1>7 DEF Tree
  <1> QED BY <1>0, <1>2, <1>4, <1>5, <1>6, <1>7, <1>8

-----------------------------------------------------------------------------
(* The invariant holds at first.                                           *)

LEMMA InitIInv == Init => IInv
  <1> SUFFICES ASSUME Init PROVE IInv
    OBVIOUS
  <1> USE DEF Init
  <1>1. \A w \in Worktree : hook[w] \in Hook /\ tree[w] \in Trees[w]
    BY HooksAssumption
  <1>2. tree \in [Worktree -> Tree] /\ hook \in [Worktree -> Hook]
    BY <1>1, TreesAssumption
  <1>3. TypeOK
    BY <1>2, BoundsAssumption DEF TypeOK, PC, Result
  <1>4. FlockInv /\ UniqueInv /\ KeptInv
    BY DEF FlockInv, UniqueInv, KeptInv
  <1>5. ASSUME NEW w \in Worktree PROVE RunInv(w)
    <2>1. Control(w)
      BY DEF Control, InRun
    <2>2. NumberInv(w) /\ EntryInv(w)
      BY DEF NumberInv, EntryInv, HasEntry, InRun
    <2>3. TreeInv(w)
      BY DEF TreeInv, InRun
    <2>4. StageInv(w)
      BY <1>1, TreesAssumption DEF StageInv, Mine
    <2> QED BY <2>1, <2>2, <2>3, <2>4 DEF RunInv
  <1> QED BY <1>3, <1>4, <1>5 DEF IInv

-----------------------------------------------------------------------------
(* Each step keeps it.  Another run notices a step only by the lock, the   *)
(* list of entries and what it owes.                                       *)

(* What a step of w leaves alone of another worktree v.                    *)
Same(v) ==
  /\ pc'[v] = pc[v] /\ runs'[v] = runs[v] /\ hook'[v] = hook[v]
  /\ guard'[v] = guard[v] /\ before'[v] = before[v] /\ exec'[v] = exec[v]
  /\ restore_err'[v] = restore_err[v] /\ result'[v] = result[v]
  /\ tree'[v] = tree[v] /\ given'[v] = given[v]

LEMMA OtherRun ==
  ASSUME IInv, NEW v \in Worktree, Same(v), raced' = raced,
         v \in holders => v \in holders',
         \/ stash' = stash
         \/ /\ ~guard[v]
            /\ \A i \in DOMAIN stash' :
                 \/ \E j \in DOMAIN stash : stash'[i] = stash[j]
                 \/ \A n \in 0..MaxRuns : stash'[i].run # <<v, n>>
  PROVE  RunInv(v)'
  <1>0. TypeOK /\ RunInv(v)
    BY DEF IInv
  <1>1. Control(v)'
    BY <1>0 DEF RunInv, Control, Same
  <1>2. TreeInv(v)'
    BY <1>0 DEF RunInv, TreeInv, Same
  <1>3. StageInv(v)'
    BY <1>0 DEF RunInv, StageInv, Same, Tracked, Unmerged
  <1>4. ThisRun(v)' = ThisRun(v) /\ runs[v] \in 0..MaxRuns /\ ThisRun(v) = <<v, runs[v]>>
    BY <1>0 DEF ThisRun, Same, TypeOK
  <1>5. CASE stash' = stash
    <2>1. NumberInv(v)'
      BY <1>0, <1>5 DEF RunInv, NumberInv, Same
    <2>2. EntryInv(v)'
      BY <1>0, <1>4, <1>5 DEF RunInv, EntryInv, HasEntry, Same
    <2> QED BY <1>1, <1>2, <1>3, <2>1, <2>2 DEF RunInv
  <1>6. CASE ~guard[v] /\ stash' # stash
    <2>0. \A i \in DOMAIN stash' :
            \/ \E j \in DOMAIN stash : stash'[i] = stash[j]
            \/ \A n \in 0..MaxRuns : stash'[i].run # <<v, n>>
      BY <1>6
    <2>1. NumberInv(v)'
      <3> SUFFICES ASSUME NEW i \in DOMAIN stash', NEW n \in 1..MaxRuns,
                          stash'[i].run = <<v, n>>
                   PROVE  n <= runs'[v]
        BY DEF NumberInv
      <3>1. n \in 0..MaxRuns
        BY BoundsAssumption
      <3>2. PICK j \in DOMAIN stash : stash'[i] = stash[j]
        BY <2>0, <3>1
      <3> QED BY <1>0, <3>2 DEF RunInv, NumberInv, Same
    <2>2. \A i \in DOMAIN stash' : stash'[i].run = ThisRun(v) =>
            \E j \in DOMAIN stash : stash'[i] = stash[j]
      BY <2>0, <1>4
    <2>3. HasEntry(v)' => HasEntry(v)
      BY <2>2, <1>4 DEF HasEntry
    <2>4. \A i \in DOMAIN stash' : stash'[i].run = ThisRun(v) =>
            stash'[i] = Entry(given[v], ThisRun(v))
      BY <2>2, <1>0 DEF RunInv, EntryInv
    <2>5. EntryInv(v)'
      BY <2>3, <2>4, <1>0, <1>4, <1>6 DEF RunInv, EntryInv, Same, Control
    <2> QED BY <1>1, <1>2, <1>3, <2>1, <2>5 DEF RunInv
  <1> QED BY <1>5, <1>6

(* What is kept in entries stays there while entries are only added.       *)
LEMMA EntriesStay ==
  ASSUME IInv, NEW v \in Worktree, NEW f \in File, NEW c \in Content,
         runs'[v] \in Nat, runs'[v] >= runs[v],
         taken \subseteq taken',
         \A i \in DOMAIN stash :
            InEntry(v, f, c, stash[i]) =>
              stash[i] \in taken' \/ \E j \in DOMAIN stash' : stash'[j] = stash[i],
         InEntries(v, f, c)
  PROVE  InEntries(v, f, c)'
  <1>1. runs[v] \in Nat
    BY BoundsAssumption DEF IInv, TypeOK
  <1>2. ASSUME NEW e, InEntry(v, f, c, e)
        PROVE  e.run \in {v} \X (1..runs'[v]) /\ e.work[f] \in Forms(c)
    BY <1>1, <1>2 DEF InEntry
  <1>3. CASE \E e \in taken : InEntry(v, f, c, e)
    BY <1>2, <1>3 DEF InEntries, InEntry
  <1>4. CASE \E i \in DOMAIN stash : InEntry(v, f, c, stash[i])
    BY <1>2, <1>4 DEF InEntries, InEntry
  <1> QED BY <1>3, <1>4 DEF InEntries

(* A step that touches no entry, only one tree, and owes nothing new.      *)
LEMMA StepKeeps ==
  ASSUME IInv, NEW w \in Worktree, TypeOK',
         \A v \in Worktree \ {w} : Same(v),
         stash' = stash, taken' = taken, owed' = owed, raced' = raced,
         runs' = runs,
         \A f \in File, c \in Content : InTree(w, f, c) => InTree(w, f, c)'
  PROVE  KeptInv'
  <1> SUFFICES ASSUME NotRaced', NEW v \in Worktree, NEW f \in File, NEW c \in Content,
                      <<v, f, c>> \in owed'
               PROVE  InTree(v, f, c)' \/ InEntries(v, f, c)'
    BY DEF KeptInv
  <1>1. InTree(v, f, c) \/ InEntries(v, f, c)
    BY DEF IInv, KeptInv, NotRaced
  <1>2. CASE InEntries(v, f, c)
    BY <1>2 DEF InEntries, InEntry
  <1>3. CASE InTree(v, f, c)
    BY <1>3 DEF InTree, Same, Unmerged, Forms
  <1> QED BY <1>1, <1>2, <1>3

LEMMA StartKeeps ==
  ASSUME IInv, NEW w \in Worktree, Start(w)
  PROVE  IInv'
  <1>0. TypeOK /\ RunInv(w)
    BY DEF IInv
  <1>1. TypeOK'
    BY <1>0, BoundsAssumption DEF TypeOK, Start, UserWork, Staged, Tree, PC, Result
  <1>2. FlockInv' /\ UniqueInv'
    BY DEF IInv, FlockInv, UniqueInv, Start
  <1>3. ASSUME NEW v \in Worktree, v # w PROVE RunInv(v)'
    <2>1. Same(v)
      BY <1>0, <1>3 DEF Start, Same, TypeOK
    <2> QED BY <2>1, OtherRun DEF Start
  <1>4. RunInv(w)'
    <2>0. /\ runs[w] \in Nat /\ runs'[w] = runs[w] + 1 /\ runs'[w] \in 1..MaxRuns
          /\ pc'[w] \in {"locking", "resolving"} /\ exec'[w] = "none"
          /\ tree'[w] = tree[w] /\ given'[w] = tree[w] /\ ~guard[w] /\ guard' = guard
      BY <1>0, BoundsAssumption DEF TypeOK, Start, RunInv, Control, InRun
    <2>1. Control(w)'
      BY <2>0 DEF Control
    <2>2. NumberInv(w)'
      BY <1>0, <2>0 DEF RunInv, NumberInv, Start
    <2>3. ~HasEntry(w)'
      BY <1>0, <2>0 DEF RunInv, NumberInv, HasEntry, ThisRun, Start
    <2>4. EntryInv(w)'
      BY <2>0, <2>3 DEF EntryInv, HasEntry
    <2>5. TreeInv(w)'
      BY <2>0 DEF TreeInv
    <2>6. StageInv(w)'
      BY <1>0, <2>0 DEF RunInv, StageInv, Start, Unmerged
    <2> QED BY <2>1, <2>2, <2>4, <2>5, <2>6 DEF RunInv
  <1>5. KeptInv'
    <2> SUFFICES ASSUME NotRaced', NEW v \in Worktree, NEW f \in File, NEW c \in Content,
                        <<v, f, c>> \in owed'
                 PROVE  InTree(v, f, c)' \/ InEntries(v, f, c)'
      BY DEF KeptInv
    <2>1. CASE <<v, f, c>> \in owed
      <3>1. InTree(v, f, c) \/ InEntries(v, f, c)
        BY <2>1 DEF IInv, KeptInv, NotRaced, Start
      <3>2. CASE InTree(v, f, c)
        BY <1>0, <3>2 DEF InTree, Unmerged, Start, TypeOK
      <3>3. CASE InEntries(v, f, c)
        <4>1. runs'[v] \in Nat /\ runs'[v] >= runs[v]
          BY <1>0, BoundsAssumption DEF Start, TypeOK
        <4> QED BY <3>3, <4>1, EntriesStay DEF Start
      <3> QED BY <3>1, <3>2, <3>3
    <2>2. CASE <<v, f, c>> \in UserWork(w, tree[w])
      BY <2>2 DEF UserWork, InTree, Forms, Start
    <2> QED BY <2>1, <2>2 DEF Start
  <1> QED BY <1>1, <1>2, <1>3, <1>4, <1>5 DEF IInv

LEMMA LockKeeps ==
  ASSUME IInv, NEW w \in Worktree, Lock(w)
  PROVE  IInv'
  <1>0. TypeOK /\ RunInv(w)
    BY DEF IInv
  <1>1. TypeOK'
    BY <1>0 DEF TypeOK, Lock, PC, Result, history
  <1>2. FlockInv' /\ UniqueInv'
    BY DEF IInv, FlockInv, UniqueInv, Lock
  <1>3. \A v \in Worktree \ {w} : Same(v)
    BY <1>0 DEF Lock, Same, TypeOK, history
  <1>4. ASSUME NEW v \in Worktree, v # w PROVE RunInv(v)'
    BY <1>3, <1>4, OtherRun DEF Lock, history
  <1>5. RunInv(w)'
    <2>1. Control(w)'
      BY <1>0 DEF RunInv, Control, TypeOK, Lock, history, InRun
    <2>2. NumberInv(w)'
      BY <1>0 DEF RunInv, NumberInv, TypeOK, Lock, history, InRun
    <2>3. EntryInv(w)'
      BY <1>0 DEF RunInv, EntryInv, TypeOK, Lock, history, InRun, HasEntry, ThisRun, Control
    <2>4. TreeInv(w)'
      BY <1>0 DEF RunInv, TreeInv, TypeOK, Lock, history, InRun, Control
    <2>5. StageInv(w)'
      BY <1>0 DEF RunInv, StageInv, TypeOK, Lock, history, InRun, Unmerged, Tracked, Control
    <2> QED BY <2>1, <2>2, <2>3, <2>4, <2>5 DEF RunInv
  <1>6. KeptInv'
    <2>1. \A f \in File, c \in Content : InTree(w, f, c) => InTree(w, f, c)'
      BY <1>0 DEF InTree, Unmerged, Forms, Lock, TypeOK, RunInv, Control
    <2> QED BY <1>1, <1>3, <2>1, StepKeeps DEF Lock, history
  <1> QED BY <1>1, <1>2, <1>4, <1>5, <1>6 DEF IInv

LEMMA EarlyErrorKeeps ==
  ASSUME IInv, NEW w \in Worktree, EarlyError(w)
  PROVE  IInv'
  <1>0. TypeOK /\ RunInv(w)
    BY DEF IInv
  <1>1. TypeOK'
    BY <1>0 DEF TypeOK, EarlyError, PC, Result, history
  <1>2. FlockInv' /\ UniqueInv'
    BY DEF IInv, FlockInv, UniqueInv, EarlyError
  <1>3. \A v \in Worktree \ {w} : Same(v)
    BY <1>0 DEF EarlyError, Same, TypeOK, history
  <1>4. ASSUME NEW v \in Worktree, v # w PROVE RunInv(v)'
    BY <1>3, <1>4, OtherRun DEF EarlyError, history
  <1>5. RunInv(w)'
    <2>1. Control(w)'
      BY <1>0 DEF RunInv, Control, TypeOK, EarlyError, history, InRun
    <2>2. NumberInv(w)'
      BY <1>0 DEF RunInv, NumberInv, TypeOK, EarlyError, history, InRun
    <2>3. EntryInv(w)'
      BY <1>0 DEF RunInv, EntryInv, TypeOK, EarlyError, history, InRun, HasEntry, ThisRun, Control
    <2>4. TreeInv(w)'
      BY <1>0 DEF RunInv, TreeInv, TypeOK, EarlyError, history, InRun, Control
    <2>5. StageInv(w)'
      BY <1>0 DEF RunInv, StageInv, TypeOK, EarlyError, history, InRun, Unmerged, Tracked, Control
    <2> QED BY <2>1, <2>2, <2>3, <2>4, <2>5 DEF RunInv
  <1>6. KeptInv'
    <2>1. \A f \in File, c \in Content : InTree(w, f, c) => InTree(w, f, c)'
      BY <1>0 DEF InTree, Unmerged, Forms, EarlyError, TypeOK, RunInv, Control
    <2> QED BY <1>1, <1>3, <2>1, StepKeeps DEF EarlyError, history
  <1> QED BY <1>1, <1>2, <1>4, <1>5, <1>6 DEF IInv

LEMMA FindStashKeeps ==
  ASSUME IInv, NEW w \in Worktree, FindStash(w)
  PROVE  IInv'
  <1>0. TypeOK /\ RunInv(w)
    BY DEF IInv
  <1>1. TypeOK'
    BY <1>0 DEF TypeOK, FindStash, PC, Result, history
  <1>2. FlockInv' /\ UniqueInv'
    BY DEF IInv, FlockInv, UniqueInv, FindStash
  <1>3. \A v \in Worktree \ {w} : Same(v)
    BY <1>0 DEF FindStash, Same, TypeOK, history
  <1>4. ASSUME NEW v \in Worktree, v # w PROVE RunInv(v)'
    BY <1>3, <1>4, OtherRun DEF FindStash, history
  <1>5. RunInv(w)'
    <2>1. Control(w)'
      BY <1>0 DEF RunInv, Control, TypeOK, FindStash, history, InRun
    <2>2. NumberInv(w)'
      BY <1>0 DEF RunInv, NumberInv, TypeOK, FindStash, history, InRun
    <2>3. EntryInv(w)'
      BY <1>0 DEF RunInv, EntryInv, TypeOK, FindStash, history, InRun, HasEntry, ThisRun, Control
    <2>4. TreeInv(w)'
      BY <1>0 DEF RunInv, TreeInv, TypeOK, FindStash, history, InRun, Control
    <2>5. StageInv(w)'
      BY <1>0 DEF RunInv, StageInv, TypeOK, FindStash, history, InRun, Unmerged, Tracked, Control
    <2> QED BY <2>1, <2>2, <2>3, <2>4, <2>5 DEF RunInv
  <1>6. KeptInv'
    <2>1. \A f \in File, c \in Content : InTree(w, f, c) => InTree(w, f, c)'
      BY <1>0 DEF InTree, Unmerged, Forms, FindStash, TypeOK, RunInv, Control
    <2> QED BY <1>1, <1>3, <2>1, StepKeeps DEF FindStash, history
  <1> QED BY <1>1, <1>2, <1>4, <1>5, <1>6 DEF IInv

LEMMA GitFailsKeeps ==
  ASSUME IInv, NEW w \in Worktree, GitFails(w)
  PROVE  IInv'
  <1>0. TypeOK /\ RunInv(w)
    BY DEF IInv
  <1>1. TypeOK'
    BY <1>0 DEF TypeOK, GitFails, PC, Result, history
  <1>2. FlockInv' /\ UniqueInv'
    BY DEF IInv, FlockInv, UniqueInv, GitFails
  <1>3. \A v \in Worktree \ {w} : Same(v)
    BY <1>0 DEF GitFails, Same, TypeOK, history
  <1>4. ASSUME NEW v \in Worktree, v # w PROVE RunInv(v)'
    BY <1>3, <1>4, OtherRun DEF GitFails, history
  <1>5. RunInv(w)'
    <2>1. Control(w)'
      BY <1>0 DEF RunInv, Control, TypeOK, GitFails, history, InRun
    <2>2. NumberInv(w)'
      BY <1>0 DEF RunInv, NumberInv, TypeOK, GitFails, history, InRun
    <2>3. EntryInv(w)'
      BY <1>0 DEF RunInv, EntryInv, TypeOK, GitFails, history, InRun, HasEntry, ThisRun, Control
    <2>4. TreeInv(w)'
      BY <1>0 DEF RunInv, TreeInv, TypeOK, GitFails, history, InRun, Control
    <2>5. StageInv(w)'
      BY <1>0 DEF RunInv, StageInv, TypeOK, GitFails, history, InRun, Unmerged, Tracked, Control
    <2> QED BY <2>1, <2>2, <2>3, <2>4, <2>5 DEF RunInv
  <1>6. KeptInv'
    <2>1. \A f \in File, c \in Content : InTree(w, f, c) => InTree(w, f, c)'
      BY <1>0 DEF InTree, Unmerged, Forms, GitFails, TypeOK, RunInv, Control
    <2> QED BY <1>1, <1>3, <2>1, StepKeeps DEF GitFails, history
  <1> QED BY <1>1, <1>2, <1>4, <1>5, <1>6 DEF IInv

LEMMA ReturnKeeps ==
  ASSUME IInv, NEW w \in Worktree, Return(w)
  PROVE  IInv'
  <1>0. TypeOK /\ RunInv(w)
    BY DEF IInv
  <1>1. TypeOK'
    BY <1>0 DEF TypeOK, Return, PC, Result, history
  <1>2. FlockInv' /\ UniqueInv'
    BY DEF IInv, FlockInv, UniqueInv, Return
  <1>3. \A v \in Worktree \ {w} : Same(v)
    BY <1>0 DEF Return, Same, TypeOK, history
  <1>4. ASSUME NEW v \in Worktree, v # w PROVE RunInv(v)'
    BY <1>3, <1>4, OtherRun DEF Return, history
  <1>5. RunInv(w)'
    <2>1. Control(w)'
      BY <1>0 DEF RunInv, Control, TypeOK, Return, history, InRun
    <2>2. NumberInv(w)'
      BY <1>0 DEF RunInv, NumberInv, TypeOK, Return, history, InRun
    <2>3. EntryInv(w)'
      BY <1>0 DEF RunInv, EntryInv, TypeOK, Return, history, InRun, HasEntry, ThisRun, Control
    <2>4. TreeInv(w)'
      BY <1>0 DEF RunInv, TreeInv, TypeOK, Return, history, InRun, Control
    <2>5. StageInv(w)'
      BY <1>0 DEF RunInv, StageInv, TypeOK, Return, history, InRun, Unmerged, Tracked, Control
    <2> QED BY <2>1, <2>2, <2>3, <2>4, <2>5 DEF RunInv
  <1>6. KeptInv'
    <2>1. \A f \in File, c \in Content : InTree(w, f, c) => InTree(w, f, c)'
      BY <1>0 DEF InTree, Unmerged, Forms, Return, TypeOK, RunInv, Control
    <2> QED BY <1>1, <1>3, <2>1, StepKeeps DEF Return, history
  <1> QED BY <1>1, <1>2, <1>4, <1>5, <1>6 DEF IInv

LEMMA CrashKeeps ==
  ASSUME IInv, NEW w \in Worktree, Crash(w)
  PROVE  IInv'
  <1>0. TypeOK /\ RunInv(w)
    BY DEF IInv
  <1>1. TypeOK'
    BY <1>0 DEF TypeOK, Crash, PC, Result, history
  <1>2. FlockInv' /\ UniqueInv'
    BY DEF IInv, FlockInv, UniqueInv, Crash
  <1>3. \A v \in Worktree \ {w} : Same(v)
    BY <1>0 DEF Crash, Same, TypeOK, history
  <1>4. ASSUME NEW v \in Worktree, v # w PROVE RunInv(v)'
    BY <1>3, <1>4, OtherRun DEF Crash, history
  <1>5. RunInv(w)'
    <2>1. Control(w)'
      BY <1>0 DEF RunInv, Control, TypeOK, Crash, history, InRun
    <2>2. NumberInv(w)'
      BY <1>0 DEF RunInv, NumberInv, TypeOK, Crash, history, InRun
    <2>3. EntryInv(w)'
      BY <1>0 DEF RunInv, EntryInv, TypeOK, Crash, history, InRun, HasEntry, ThisRun, Control
    <2>4. TreeInv(w)'
      BY <1>0 DEF RunInv, TreeInv, TypeOK, Crash, history, InRun, Control
    <2>5. StageInv(w)'
      BY <1>0 DEF RunInv, StageInv, TypeOK, Crash, history, InRun, Unmerged, Tracked, Control
    <2> QED BY <2>1, <2>2, <2>3, <2>4, <2>5 DEF RunInv
  <1>6. KeptInv'
    <2>1. \A f \in File, c \in Content : InTree(w, f, c) => InTree(w, f, c)'
      BY <1>0 DEF InTree, Unmerged, Forms, Crash, TypeOK, RunInv, Control
    <2> QED BY <1>1, <1>3, <2>1, StepKeeps DEF Crash, history
  <1> QED BY <1>1, <1>2, <1>4, <1>5, <1>6 DEF IInv

LEMMA ResolveKeeps ==
  ASSUME IInv, NEW w \in Worktree, Resolve(w)
  PROVE  IInv'
  <1>0. TypeOK /\ RunInv(w)
    BY DEF IInv
  <1>1. TypeOK'
    BY <1>0 DEF TypeOK, Resolve, PC, Result, history, Snapshot, Unstaged, Tracked
  <1>2. FlockInv' /\ UniqueInv'
    BY DEF IInv, FlockInv, UniqueInv, Resolve
  <1>3. \A v \in Worktree \ {w} : Same(v)
    BY <1>0 DEF Resolve, Same, TypeOK, history
  <1>4. ASSUME NEW v \in Worktree, v # w PROVE RunInv(v)'
    BY <1>3, <1>4, OtherRun DEF Resolve, history
  <1>5. RunInv(w)'
    <2>1. Control(w)'
      BY <1>0 DEF RunInv, Control, TypeOK, Resolve, history, InRun
    <2>2. NumberInv(w)'
      BY <1>0 DEF RunInv, NumberInv, TypeOK, Resolve, history
    <2>3. EntryInv(w)'
      BY <1>0 DEF RunInv, EntryInv, TypeOK, Resolve, history, InRun, HasEntry, ThisRun, Control
    <2>4. TreeInv(w)'
      BY <1>0 DEF RunInv, TreeInv, TypeOK, Resolve, history, InRun, Control
    <2>5. StageInv(w)'
      <3>1. ASSUME hook[w].stage_fixed, NEW f \in Tracked(tree[w]), f \notin Unstaged(tree[w])
            PROVE  tree[w].work[f] = tree[w].index[f] /\ tree[w].work[f] \notin Mine
        BY <1>0, <3>1 DEF RunInv, StageInv, Resolve, Unstaged, Tracked
      <3>2. tree' = tree /\ pc'[w] = "running" /\ pc[w] = "resolving" /\ hook' = hook
        BY <1>0 DEF Resolve, TypeOK
      <3>3. hook[w].stage_fixed => before'[w] = Unstaged(tree[w])
        BY <1>0 DEF Resolve, TypeOK, Snapshot
      <3> QED BY <1>0, <3>1, <3>2, <3>3 DEF RunInv, StageInv, Unmerged, Tracked
    <2> QED BY <2>1, <2>2, <2>3, <2>4, <2>5 DEF RunInv
  <1>6. KeptInv'
    <2>1. \A f \in File, c \in Content : InTree(w, f, c) => InTree(w, f, c)'
      BY <1>0 DEF InTree, Unmerged, Forms, Resolve, TypeOK, RunInv, Control
    <2> QED BY <1>1, <1>3, <2>1, StepKeeps DEF Resolve, history
  <1> QED BY <1>1, <1>2, <1>4, <1>5, <1>6 DEF IInv

LEMMA TouchKeeps ==
  ASSUME IInv, NEW w \in Worktree, NEW g \in File, Touch(w, g)
  PROVE  IInv'
  <1>0. TypeOK /\ RunInv(w) /\ tree[w] \in Tree
    BY DEF IInv, TypeOK
  <1>a. /\ tree' = [tree EXCEPT ![w].work[g] = Fixed(tree[w].work[g])]
        /\ g \in hook[w].touches
        /\ pc[w] = "running" \/ (pc[w] \in {"finding", "popping", "returning"} /\ exec[w] = "error")
        /\ pc' = pc /\ runs' = runs /\ hook' = hook /\ guard' = guard /\ before' = before
        /\ exec' = exec /\ restore_err' = restore_err /\ result' = result /\ given' = given
        /\ raced' = raced /\ stash' = stash /\ holders' = holders /\ taken' = taken
        /\ owed' = owed /\ outsider' = outsider
    BY DEF Touch, local, history
  <1>b. /\ tree'[w] \in Tree
        /\ tree'[w].head = tree[w].head /\ tree'[w].index = tree[w].index
        /\ tree'[w].work[g] = Fixed(tree[w].work[g])
        /\ \A f \in File \ {g} : tree'[w].work[f] = tree[w].work[f]
        /\ \A v \in Worktree \ {w} : tree'[v] = tree[v]
    BY <1>0, <1>a, FixedFacts DEF TypeOK, Tree
  <1>1. TypeOK'
    <2>1. tree' \in [Worktree -> Tree]
      BY <1>0, <1>a, <1>b DEF TypeOK
    <2> QED BY <1>0, <1>a, <2>1 DEF TypeOK
  <1>2. FlockInv' /\ UniqueInv'
    BY <1>a DEF IInv, FlockInv, UniqueInv
  <1>3. \A v \in Worktree \ {w} : Same(v)
    BY <1>a, <1>b DEF Same
  <1>4. ASSUME NEW v \in Worktree, v # w PROVE RunInv(v)'
    BY <1>a, <1>3, <1>4, OtherRun
  <1>5. RunInv(w)'
    <2>1. Control(w)' /\ NumberInv(w)'
      BY <1>0, <1>a DEF RunInv, Control, NumberInv
    <2>3. EntryInv(w)'
      BY <1>0, <1>a DEF RunInv, EntryInv, HasEntry, ThisRun
    <2>4. TreeInv(w)'
      BY <1>0, <1>a, <1>b DEF RunInv, TreeInv, Control
    <2>5. StageInv(w)'
      <3>1. Tracked(tree[w])' = Tracked(tree[w]) /\ Unmerged(tree[w])' = Unmerged(tree[w])
        BY <1>b DEF Tracked, Unmerged
      <3>2. \A f \in File : tree[w].index[f] \in Content /\ tree[w].work[f] \in Content
        BY <1>0 DEF Tree
      <3> QED BY <1>0, <1>a, <1>b, <3>1, <3>2, FixedFacts DEF RunInv, StageInv, Tracked
    <2> QED BY <2>1, <2>3, <2>4, <2>5 DEF RunInv
  <1>6. KeptInv'
    <2>1. ASSUME NEW f \in File, NEW c \in Content, InTree(w, f, c)
          PROVE  InTree(w, f, c)'
      <3>1. tree[w].work[f] \in Forms(c) => tree'[w].work[f] \in Forms(c)
        BY <1>b, FormsFacts
      <3> QED BY <1>a, <1>b, <2>1, <3>1 DEF InTree, Unmerged
    <2> QED BY <1>1, <1>3, <1>a, <2>1, StepKeeps
  <1> QED BY <1>1, <1>2, <1>4, <1>5, <1>6 DEF IInv

LEMMA EndJobsKeeps ==
  ASSUME IInv, NEW w \in Worktree, EndJobs(w)
  PROVE  IInv'
  <1>0. TypeOK /\ RunInv(w) /\ tree[w] \in Tree
    BY DEF IInv, TypeOK
  <1> DEFINE newly == Unstaged(tree[w]) \ before[w]
             index == [f \in File |-> IF f \in newly THEN tree[w].work[f] ELSE tree[w].index[f]]
  <1>a. /\ index \in [File -> Content]
        /\ StageFixed(w) \in Tree /\ StageFixed(w).head = tree[w].head
        /\ StageFixed(w).work = tree[w].work /\ StageFixed(w).index = index
    <2>1. index \in [File -> Content]
      BY <1>0 DEF Tree
    <2>2. StageFixed(w) = [tree[w] EXCEPT !.index = index]
      BY DEF StageFixed
    <2> QED BY <1>0, <2>1, <2>2 DEF Tree
  <1>b. PICK r \in {"ok", "failed", "error"} :
          /\ exec' = [exec EXCEPT ![w] = r]
          /\ tree' = IF hook[w].stage_fixed /\ r # "error"
                     THEN [tree EXCEPT ![w] = StageFixed(w)] ELSE tree
    BY DEF EndJobs
  <1>c. /\ pc[w] = "running"
        /\ pc' = [pc EXCEPT ![w] = IF guard[w] THEN "finding" ELSE "returning"]
        /\ runs' = runs /\ hook' = hook /\ guard' = guard /\ before' = before
        /\ restore_err' = restore_err /\ result' = result /\ given' = given
        /\ raced' = raced /\ stash' = stash /\ holders' = holders /\ taken' = taken
        /\ owed' = owed /\ outsider' = outsider
    BY DEF EndJobs, history
  <1>d. /\ tree'[w] \in Tree /\ tree'[w].head = tree[w].head /\ tree'[w].work = tree[w].work
        /\ exec'[w] # "none"
        /\ pc'[w] = IF guard[w] THEN "finding" ELSE "returning"
        /\ \A v \in Worktree \ {w} : tree'[v] = tree[v] /\ pc'[v] = pc[v] /\ exec'[v] = exec[v]
    BY <1>0, <1>a, <1>b, <1>c DEF TypeOK
  (* What gets staged is what a job made of what was staged.               *)
  <1>e. ASSUME NEW f \in File
        PROVE  \/ tree'[w].index[f] = tree[w].index[f]
               \/ /\ hook[w].stage_fixed /\ f \in Tracked(tree[w]) \ before[w]
                  /\ tree'[w].index[f] = tree[w].work[f]
    <2>1. tree'[w] = tree[w] \/ (hook[w].stage_fixed /\ tree'[w] = StageFixed(w))
      BY <1>0, <1>b DEF TypeOK
    <2> QED BY <2>1, <1>a DEF Unstaged
  <1>1. TypeOK'
    <2>1. tree' \in [Worktree -> Tree]
      BY <1>0, <1>a, <1>b DEF TypeOK
    <2> QED BY <1>0, <1>b, <1>c, <2>1 DEF TypeOK, PC
  <1>2. FlockInv' /\ UniqueInv'
    BY <1>c DEF IInv, FlockInv, UniqueInv
  <1>3. \A v \in Worktree \ {w} : Same(v)
    BY <1>c, <1>d DEF Same
  <1>4. ASSUME NEW v \in Worktree, v # w PROVE RunInv(v)'
    BY <1>c, <1>3, <1>4, OtherRun
  <1>f. \A f \in Tracked(tree[w]) \ before[w] :
          hook[w].stage_fixed =>
            /\ tree[w].work[f] \in {tree[w].index[f], Fixed(tree[w].index[f])}
            /\ f \notin hook[w].touches => tree[w].work[f] = tree[w].index[f]
            /\ tree[w].work[f] \notin Mine
    BY <1>0, <1>c DEF RunInv, StageInv
  <1>5. RunInv(w)'
    <2>1. Control(w)' /\ NumberInv(w)'
      BY <1>0, <1>c, <1>d DEF RunInv, Control, NumberInv, InRun
    <2>3. EntryInv(w)'
      BY <1>0, <1>c, <1>d DEF RunInv, EntryInv, HasEntry, ThisRun, InRun
    <2>4. TreeInv(w)'
      <3>1. \A f \in File \ hook[w].touches : tree'[w].index[f] = tree[w].index[f]
        BY <1>e, <1>f
      <3>2. \A f \in File : tree[w].index[f] = "none" => tree'[w].index[f] = "none"
        BY <1>e DEF Tracked
      <3>3. \A f \in File : tree[w].index[f] \in {given[w].index[f], Fixed(given[w].index[f])}
        BY <1>0, <1>c DEF RunInv, TreeInv, InRun
      <3>4. \A f \in File : given[w].index[f] \in Content
        BY <1>0 DEF TypeOK, Tree
      <3>5. \A f \in File : tree'[w].index[f] \in {given[w].index[f], Fixed(given[w].index[f])}
        BY <1>e, <1>f, <3>3, <3>4, FixedFacts
      <3> QED BY <1>0, <1>c, <1>d, <3>1, <3>2, <3>5 DEF RunInv, TreeInv, InRun
    <2>5. StageInv(w)'
      <3>1. \A f \in File : tree'[w].index[f] \notin Mine
        BY <1>0, <1>c, <1>e, <1>f DEF RunInv, StageInv
      <3> QED BY <1>d, <3>1 DEF StageInv
    <2> QED BY <2>1, <2>3, <2>4, <2>5 DEF RunInv
  <1>6. KeptInv'
    <2>1. ASSUME NEW f \in File, NEW c \in Content, InTree(w, f, c)
          PROVE  InTree(w, f, c)'
      <3>1. tree[w].index[f] \in Forms(c) \/ tree[w].work[f] \in Forms(c)
        BY <1>c, <2>1 DEF InTree
      <3>2. tree[w].index[f] \in Forms(c) => tree'[w].index[f] \in Forms(c)
        BY <1>e, <1>f, FormsFacts
      <3> QED BY <1>d, <3>1, <3>2 DEF InTree
    <2> QED BY <1>1, <1>3, <1>c, <2>1, StepKeeps
  <1> QED BY <1>1, <1>2, <1>4, <1>5, <1>6 DEF IInv

LEMMA PushKeeps ==
  ASSUME IInv, NEW w \in Worktree, Push(w)
  PROVE  IInv'
  <1>0. /\ TypeOK /\ RunInv(w) /\ tree[w] \in Tree /\ stash \in Seq(StashEntry)
        /\ pc[w] = "pushing" /\ ~HasPartiallyStaged(tree[w]) /\ ~guard[w]
        /\ runs[w] \in 1..MaxRuns /\ ThisRun(w) = <<w, runs[w]>>
    BY DEF IInv, TypeOK, Push, RunInv, Control, InRun, ThisRun
  <1>a. /\ pc' = [pc EXCEPT ![w] = "resolving"]
        /\ guard' = [guard EXCEPT ![w] = HasDirty(tree[w])]
        /\ runs' = runs /\ hook' = hook /\ before' = before /\ exec' = exec
        /\ restore_err' = restore_err /\ result' = result /\ given' = given
        /\ raced' = raced /\ holders' = holders /\ taken' = taken
        /\ owed' = owed /\ outsider' = outsider
        /\ pc'[w] = "resolving" /\ guard'[w] = HasDirty(tree[w])
        /\ \A v \in Worktree \ {w} : pc'[v] = pc[v] /\ guard'[v] = guard[v]
    BY <1>0 DEF Push, history, TypeOK
  <1>b. HasDirty(tree[w]) \in BOOLEAN
    BY DEF HasDirty
  (* The other runs are not between their push and their pop.              *)
  <1>c. ASSUME NEW v \in Worktree \ {w} PROVE ~guard[v]
    <2>1. w \in holders /\ (guard[v] => v \in holders)
      BY <1>0 DEF IInv, RunInv, Control
    <2> QED BY <2>1 DEF IInv, FlockInv
  <1>d. \A i \in DOMAIN stash : stash[i].run # ThisRun(w)
    BY <1>0 DEF RunInv, EntryInv, HasEntry
  <1>e. tree[w] = given[w]
    BY <1>0 DEF RunInv, TreeInv
  <1>f. CASE ~HasDirty(tree[w])
    <2>0. tree' = tree /\ stash' = stash /\ ~guard'[w]
      BY <1>a, <1>f DEF Push
    <2>1. TypeOK'
      BY <1>0, <1>a, <1>b, <2>0 DEF TypeOK, PC
    <2>2. FlockInv' /\ UniqueInv'
      BY <1>a, <2>0 DEF IInv, FlockInv, UniqueInv
    <2>3. \A v \in Worktree \ {w} : Same(v)
      BY <1>a, <2>0 DEF Same
    <2>4. ASSUME NEW v \in Worktree, v # w PROVE RunInv(v)'
      BY <1>a, <2>0, <2>3, <2>4, OtherRun
    <2>5. RunInv(w)'
      <3>1. Control(w)' /\ NumberInv(w)'
        BY <1>0, <1>a, <2>0 DEF RunInv, Control, NumberInv, InRun
      <3>2. EntryInv(w)'
        BY <1>0, <1>a, <1>d, <2>0 DEF EntryInv, HasEntry, ThisRun, InRun
      <3>3. TreeInv(w)' /\ StageInv(w)'
        BY <1>0, <1>a, <1>e, <2>0 DEF RunInv, TreeInv, StageInv, InRun, Unmerged
      <3> QED BY <3>1, <3>2, <3>3 DEF RunInv
    <2>6. KeptInv'
      <3>1. \A f \in File, c \in Content : InTree(w, f, c) => InTree(w, f, c)'
        BY <1>0, <1>a, <2>0 DEF InTree
      <3> QED BY <1>a, <2>0, <2>1, <2>3, <3>1, StepKeeps
    <2> QED BY <2>1, <2>2, <2>4, <2>5, <2>6 DEF IInv
  <1>g. CASE HasDirty(tree[w])
    <2> DEFINE new == Entry(tree[w], ThisRun(w))
    <2>0. tree' = [tree EXCEPT ![w] = AfterPush(tree[w])] /\ stash' = <<new>> \o stash /\ guard'[w]
      BY <1>0, <1>a, <1>g DEF Push
    <2>a. new \in StashEntry /\ new.run = ThisRun(w) /\ new.work = tree[w].work
      BY <1>0 DEF Entry, StashEntry, Tree, Run, Tracked, Untracked
    <2> HIDE DEF new
    <2>b. /\ stash' \in Seq(StashEntry) /\ stash'[1] = new
          /\ DOMAIN stash' = 1..(Len(stash) + 1) /\ DOMAIN stash = 1..Len(stash)
          /\ Len(stash) \in Nat
          /\ \A i \in DOMAIN stash : stash'[i + 1] = stash[i] /\ i + 1 \in DOMAIN stash'
          /\ \A i \in DOMAIN stash' \ {1} : stash'[i] = stash[i - 1] /\ i - 1 \in DOMAIN stash
      <3>1. Len(stash) \in Nat /\ DOMAIN stash = 1..Len(stash)
        BY <1>0
      <3> QED BY <1>0, <2>0, <2>a, <3>1, Cons
    <2>c. /\ tree'[w] \in Tree /\ tree'[w].head = tree[w].head
          /\ tree'[w].index = tree[w].index /\ tree'[w].work = tree[w].index
          /\ \A v \in Worktree \ {w} : tree'[v] = tree[v]
      BY <1>0, <2>0, PushTree DEF TypeOK
    <2>1. TypeOK'
      <3>1. tree' \in [Worktree -> Tree]
        BY <1>0, <2>0, PushTree DEF TypeOK
      <3> QED BY <1>0, <1>a, <1>b, <2>b, <3>1 DEF TypeOK, PC
    <2>2. FlockInv' /\ UniqueInv'
      <3>1. FlockInv'
        BY <1>a DEF IInv, FlockInv
      <3>2. ASSUME NEW i \in DOMAIN stash', NEW j \in DOMAIN stash',
                   stash'[i].run = stash'[j].run, stash'[i].run # NoRun
            PROVE  i = j
        <4>1. CASE i = 1 \/ j = 1
          BY <1>d, <2>a, <2>b, <3>2, <4>1
        <4>2. CASE i # 1 /\ j # 1
          <5>1. i - 1 = j - 1
            BY <2>b, <3>2, <4>2 DEF IInv, UniqueInv
          <5> QED BY <2>b, <5>1
        <4> QED BY <4>1, <4>2
      <3> QED BY <3>1, <3>2 DEF UniqueInv
    <2>3. \A v \in Worktree \ {w} : Same(v)
      BY <1>a, <2>c DEF Same
    <2>4. ASSUME NEW v \in Worktree, v # w PROVE RunInv(v)'
      <3>1. \A i \in DOMAIN stash' :
              \/ \E j \in DOMAIN stash : stash'[i] = stash[j]
              \/ \A n \in 0..MaxRuns : stash'[i].run # <<v, n>>
        BY <1>0, <2>a, <2>b, <2>4
      <3> QED BY <1>a, <1>c, <2>3, <2>4, <3>1, OtherRun
    <2>5. RunInv(w)'
      <3>1. Control(w)'
        BY <1>0, <1>a, <2>0 DEF RunInv, Control, InRun
      <3>2. NumberInv(w)'
        <4> SUFFICES ASSUME NEW i \in DOMAIN stash', NEW n \in 1..MaxRuns,
                            stash'[i].run = <<w, n>>
                     PROVE  n <= runs[w]
          BY <1>a DEF NumberInv
        <4>1. CASE i = 1
          <5>1. <<w, n>> = <<w, runs[w]>>
            BY <1>0, <2>a, <2>b, <4>1
          <5> QED BY <5>1, BoundsAssumption
        <4>2. CASE i # 1
          BY <1>0, <2>b, <4>2 DEF RunInv, NumberInv
        <4> QED BY <4>1, <4>2
      <3>3. EntryInv(w)'
        <4>1. \A i \in DOMAIN stash' : stash'[i].run = ThisRun(w) => i = 1
          BY <1>d, <2>b
        <4>2. ThisRun(w)' = ThisRun(w)
          BY <1>a DEF ThisRun
        <4>3. stash'[1] = Entry(given[w], ThisRun(w))
          BY <1>e, <2>b DEF new
        <4>4. \A i \in DOMAIN stash' :
                 stash'[i].run = ThisRun(w) => \A j \in 1..(i - 1) : stash'[j].run = NoRun
          BY <4>1
        <4> QED BY <1>a, <2>0, <4>1, <4>2, <4>3, <4>4 DEF EntryInv, InRun
      <3>4. TreeInv(w)'
        BY <1>0, <1>a, <1>e, <2>0, <2>c DEF TreeInv, InRun
      <3>5. StageInv(w)'
        BY <1>0, <1>a, <2>c DEF RunInv, StageInv, Unmerged
      <3> QED BY <3>1, <3>2, <3>3, <3>4, <3>5 DEF RunInv
    <2>6. KeptInv'
      <3> SUFFICES ASSUME NotRaced', NEW v \in Worktree, NEW f \in File, NEW c \in Content,
                          <<v, f, c>> \in owed'
                   PROVE  InTree(v, f, c)' \/ InEntries(v, f, c)'
        BY DEF KeptInv
      <3>1. InTree(v, f, c) \/ InEntries(v, f, c)
        BY <1>a DEF IInv, KeptInv, NotRaced
      <3>2. CASE InEntries(v, f, c)
        <4>1. runs'[v] \in Nat /\ runs'[v] >= runs[v]
          BY <1>0, <1>a, BoundsAssumption DEF TypeOK
        <4>2. \A i \in DOMAIN stash : \E j \in DOMAIN stash' : stash'[j] = stash[i]
          BY <2>b
        <4> QED BY <1>a, <3>2, <4>1, <4>2, EntriesStay
      <3>3. CASE InTree(v, f, c) /\ v # w
        BY <2>3, <3>3 DEF InTree, Same, Unmerged
      <3>4. CASE InTree(w, f, c) /\ v = w
        <4>1. tree[w].index[f] \in Forms(c) \/ tree[w].work[f] \in Forms(c)
          BY <1>0, <3>4 DEF InTree
        <4>2. CASE tree[w].work[f] \in Forms(c)
          <5>1. new.run \in {w} \X (1..runs'[w])
            BY <1>0, <1>a, <2>a
          <5>2. 1 \in DOMAIN stash'
            BY <2>b
          <5> QED BY <2>a, <2>b, <3>4, <4>2, <5>1, <5>2 DEF InEntries, InEntry
        <4> QED BY <2>c, <3>4, <4>1, <4>2 DEF InTree
      <3> QED BY <3>1, <3>2, <3>3, <3>4
    <2> QED BY <2>1, <2>2, <2>4, <2>5, <2>6 DEF IInv
  <1> QED BY <1>f, <1>g

LEMMA PopStashKeeps ==
  ASSUME IInv, NEW w \in Worktree, PopStash(w)
  PROVE  IInv'
  <1>0. /\ TypeOK /\ RunInv(w) /\ tree[w] \in Tree /\ stash \in Seq(StashEntry)
        /\ pc[w] = "popping" /\ guard[w] /\ w \in holders
        /\ runs[w] \in 1..MaxRuns /\ ThisRun(w) = <<w, runs[w]>>
        /\ given[w] \in Tree
    BY DEF IInv, TypeOK, PopStash, RunInv, Control, ThisRun
  <1>a. /\ pc' = [pc EXCEPT ![w] = "returning"] /\ guard' = [guard EXCEPT ![w] = FALSE]
        /\ runs' = runs /\ hook' = hook /\ before' = before /\ exec' = exec
        /\ result' = result /\ given' = given
        /\ raced' = raced /\ holders' = holders /\ taken' = taken
        /\ owed' = owed /\ outsider' = outsider
        /\ pc'[w] = "returning" /\ ~guard'[w]
        /\ \A v \in Worktree \ {w} : pc'[v] = pc[v] /\ guard'[v] = guard[v]
    BY <1>0 DEF PopStash, history, TypeOK
  <1>c. ASSUME NEW v \in Worktree \ {w} PROVE ~guard[v]
    BY <1>0 DEF IInv, RunInv, Control, FlockInv
  <1>d. DOMAIN stash = 1..Len(stash) /\ Len(stash) \in Nat
    BY <1>0
  <1>f. CASE stash = <<>>
    <2>0. /\ tree' = tree /\ stash' = stash /\ restore_err' = [restore_err EXCEPT ![w] = TRUE]
          /\ restore_err'[w]
          /\ \A v \in Worktree \ {w} : restore_err'[v] = restore_err[v]
      BY <1>0, <1>f DEF PopStash, TypeOK
    <2>1. TypeOK'
      BY <1>0, <1>a, <2>0 DEF TypeOK, PC
    <2>2. FlockInv' /\ UniqueInv'
      BY <1>a, <2>0 DEF IInv, FlockInv, UniqueInv
    <2>3. \A v \in Worktree \ {w} : Same(v)
      BY <1>a, <2>0 DEF Same
    <2>4. ASSUME NEW v \in Worktree, v # w PROVE RunInv(v)'
      BY <1>a, <2>0, <2>3, <2>4, OtherRun
    <2>5. RunInv(w)'
      <3>1. Control(w)' /\ NumberInv(w)'
        BY <1>0, <1>a, <2>0 DEF RunInv, Control, NumberInv, InRun
      <3>2. EntryInv(w)'
        BY <1>0, <1>a, <1>f, <2>0 DEF EntryInv, HasEntry, InRun
      <3>3. TreeInv(w)' /\ StageInv(w)'
        BY <1>0, <1>a, <2>0 DEF RunInv, TreeInv, StageInv, InRun, Unmerged
      <3> QED BY <3>1, <3>2, <3>3 DEF RunInv
    <2>6. KeptInv'
      <3>1. \A f \in File, c \in Content : InTree(w, f, c) => InTree(w, f, c)'
        BY <1>0, <1>a, <2>0 DEF InTree
      <3> QED BY <1>a, <2>0, <2>1, <2>3, <3>1, StepKeeps
    <2> QED BY <2>1, <2>2, <2>4, <2>5, <2>6 DEF IInv
  <1>g. CASE stash # <<>>
    <2> DEFINE top == stash[1]
    <2>a. top \in StashEntry /\ 1 \in DOMAIN stash
      BY <1>0, <1>d, <1>g, Rest
    <2>b. PICK m \in Merges(tree[w], top) :
            /\ tree' = [tree EXCEPT ![w] = AfterPop(tree[w], top, m)]
            /\ stash' = IF PopSucceeds(tree[w], top, m) THEN Tail(stash) ELSE stash
            /\ restore_err' = [restore_err EXCEPT ![w] = ~PopSucceeds(tree[w], top, m)]
      BY <1>0, <1>g DEF PopStash
    <2> DEFINE ok == PopSucceeds(tree[w], top, m)
               t == AfterPop(tree[w], top, m)
    <2>c. /\ t \in Tree /\ t.head = tree[w].head /\ tree'[w] = t
          /\ restore_err'[w] = ~ok /\ ok \in BOOLEAN
          /\ \A v \in Worktree \ {w} : tree'[v] = tree[v] /\ restore_err'[v] = restore_err[v]
      BY <1>0, <2>a, <2>b, PopTree DEF TypeOK, PopSucceeds
    <2>d. \A f \in File :
            \/ /\ t.index[f] = tree[w].index[f]
               /\ \/ t.work[f] = tree[w].work[f]
                  \/ /\ f \in top.untracked /\ tree[w].work[f] = "none"
                     /\ t.work[f] = top.work[f]
            \/ /\ f \in ToMerge(tree[w], top) /\ tree[w].work[f] = tree[w].index[f]
               /\ t.work[f] = m[f]
               /\ m[f] \in Merge(top.base[f], tree[w].index[f], top.work[f])
               /\ \/ t.index[f] = tree[w].index[f]
                  \/ Unmerged(t)
      BY <1>0, <2>a, <2>b, PopTree
    <2>e. ok => \A f \in File :
            /\ t.index[f] = tree[w].index[f]
            /\ f \in ToMerge(tree[w], top) =>
                 t.work[f] = m[f] /\ m[f] # "conflict"
                 /\ m[f] \in Merge(top.base[f], tree[w].index[f], top.work[f])
            /\ f \in top.untracked \ ToMerge(tree[w], top) =>
                 tree[w].work[f] = "none" /\ t.work[f] = top.work[f]
            /\ f \notin top.untracked /\ f \notin ToMerge(tree[w], top) =>
                 t.work[f] = tree[w].work[f]
      BY <1>0, <2>a, <2>b, PopTree
    <2> HIDE DEF t, ok, top
    <2>g. /\ stash' \in Seq(StashEntry)
          /\ ~ok => stash' = stash
          /\ ok => /\ DOMAIN stash' = 1..(Len(stash) - 1)
                   /\ \A i \in DOMAIN stash' : stash'[i] = stash[i + 1] /\ i + 1 \in DOMAIN stash
                   /\ \A i \in DOMAIN stash \ {1} : stash[i] = stash'[i - 1] /\ i - 1 \in DOMAIN stash'
      <3>1. CASE ~ok
        BY <1>0, <2>b, <3>1 DEF ok
      <3>2. CASE ok
        <4>1. stash' = Tail(stash)
          BY <2>b, <3>2 DEF ok
        <4> QED BY <1>0, <1>d, <1>g, <3>2, <4>1, Rest
      <3> QED BY <2>c, <3>1, <3>2
    <2>1. TypeOK'
      <3>1. tree' \in [Worktree -> Tree]
        BY <1>0, <2>b, <2>c DEF TypeOK, t
      <3>2. restore_err' \in [Worktree -> BOOLEAN]
        BY <1>0, <2>b, <2>c DEF TypeOK, ok
      <3> QED BY <1>0, <1>a, <2>g, <3>1, <3>2 DEF TypeOK, PC
    <2>2. FlockInv' /\ UniqueInv'
      <3>1. FlockInv'
        BY <1>a DEF IInv, FlockInv
      <3>2. UniqueInv'
        <4>1. CASE ~ok
          BY <2>g, <4>1 DEF IInv, UniqueInv
        <4>2. CASE ok
          <5> SUFFICES ASSUME NEW i \in DOMAIN stash', NEW j \in DOMAIN stash',
                              stash'[i].run = stash'[j].run, stash'[i].run # NoRun
                       PROVE  i = j
            BY DEF UniqueInv
          <5>1. i + 1 = j + 1
            BY <2>g, <4>2 DEF IInv, UniqueInv
          <5>2. i \in Int /\ j \in Int
            BY <1>d, <2>g, <4>2
          <5> QED BY <5>1, <5>2
        <4> QED BY <2>c, <4>1, <4>2
      <3> QED BY <3>1, <3>2
    <2>3. \A v \in Worktree \ {w} : Same(v)
      BY <1>a, <2>c DEF Same
    <2>h. \A i \in DOMAIN stash' : \E j \in DOMAIN stash : stash'[i] = stash[j]
      BY <2>c, <2>g
    <2>4. ASSUME NEW v \in Worktree, v # w PROVE RunInv(v)'
      BY <1>a, <1>c, <2>h, <2>3, <2>4, OtherRun
    <2>i. /\ tree[w].head = given[w].head
          /\ \A f \in File : given[w].index[f] = "none" => tree[w].index[f] = "none"
          /\ \A f \in File : tree[w].index[f] \in {given[w].index[f], Fixed(given[w].index[f])}
          /\ \A f \in File : given[w].index[f] # given[w].head[f] =>
               given[w].index[f] = "none" \/ given[w].work[f] = given[w].index[f]
      BY <1>0 DEF RunInv, TreeInv, InRun, HasPartiallyStaged, Staged, Unstaged, Tracked
    <2>j. ASSUME ~raced[w]
          PROVE  /\ top.run = ThisRun(w) /\ top = Entry(given[w], ThisRun(w))
                 /\ top.base = given[w].head /\ top.work = given[w].work
                 /\ \A f \in File : f \in top.tracked <=> given[w].index[f] # "none"
                 /\ \A f \in File : f \in top.untracked <=>
                      given[w].index[f] = "none" /\ given[w].work[f] # "none"
      <3>1. top.run = ThisRun(w) /\ top = Entry(given[w], ThisRun(w))
        BY <1>0, <2>a, <2>j DEF RunInv, EntryInv, top
      <3> QED BY <3>1 DEF Entry, Tracked, Untracked
    <2>5. RunInv(w)'
      <3>1. Control(w)'
        BY <1>0, <1>a DEF RunInv, Control, InRun
      <3>2. NumberInv(w)'
        BY <1>0, <1>a, <2>h DEF RunInv, NumberInv
      <3>3. EntryInv(w)'
        <4>1. ThisRun(w)' = ThisRun(w)
          BY <1>a DEF ThisRun
        <4>2. \A i \in DOMAIN stash' :
                stash'[i].run = ThisRun(w) => stash'[i] = Entry(given[w], ThisRun(w))
          BY <1>0, <2>h DEF RunInv, EntryInv
        <4>3. ASSUME ~raced[w], ok, NEW i \in DOMAIN stash', stash'[i].run = ThisRun(w)
              PROVE  FALSE
          <5>1. ThisRun(w) # NoRun
            BY <1>0, NoRunAssumption DEF TypeOK
          <5>2. i + 1 = 1
            BY <2>a, <2>g, <2>j, <4>3, <5>1 DEF IInv, UniqueInv, top
          <5>3. i \in 1..(Len(stash) - 1) /\ Len(stash) - 1 \in Int
            BY <1>d, <2>g, <4>3
          <5> QED BY <5>2, <5>3
        <4> QED BY <1>a, <2>c, <4>1, <4>2, <4>3 DEF EntryInv, HasEntry, InRun
      <3>4. TreeInv(w)'
        <4>1. ASSUME ok, ~raced[w], NEW f \in File \ hook[w].touches
              PROVE  t.index[f] = given[w].index[f] /\ t.work[f] = given[w].work[f]
          <5>1. tree[w].index[f] = given[w].index[f] /\ tree[w].work[f] = given[w].index[f]
            BY <1>0 DEF RunInv, TreeInv, InRun
          <5>2. t.index[f] = given[w].index[f]
            BY <2>e, <4>1, <5>1
          <5>3. CASE f \in ToMerge(tree[w], top)
            <6>1. /\ given[w].index[f] # "none" /\ given[w].work[f] # given[w].index[f]
              BY <2>j, <4>1, <5>1, <5>3 DEF ToMerge
            <6>2. tree[w].index[f] = top.base[f]
              BY <2>i, <2>j, <4>1, <5>1, <6>1
            <6>3. t.work[f] = top.work[f]
              BY <2>e, <4>1, <5>3, <6>2 DEF Merge
            <6> QED BY <2>j, <4>1, <5>2, <6>3
          <5>4. CASE f \in top.untracked \ ToMerge(tree[w], top)
            BY <2>e, <2>j, <4>1, <5>2, <5>4
          <5>5. CASE f \notin top.untracked /\ f \notin ToMerge(tree[w], top)
            <6>1. t.work[f] = given[w].index[f]
              BY <2>e, <4>1, <5>1, <5>5
            <6>2. CASE given[w].index[f] = "none"
              BY <2>j, <4>1, <5>2, <5>5, <6>1, <6>2
            <6>3. CASE given[w].index[f] # "none"
              <7>1. given[w].work[f] \in {given[w].head[f], given[w].index[f]}
                BY <2>j, <4>1, <5>1, <5>5, <6>3 DEF ToMerge
              <7> QED BY <2>i, <5>2, <6>1, <6>3, <7>1
            <6> QED BY <6>2, <6>3
          <5> QED BY <5>3, <5>4, <5>5
        <4> QED BY <1>0, <1>a, <2>c, <2>i, <4>1 DEF TreeInv, InRun
      <3>5. StageInv(w)'
        <4>1. \A f \in File : tree[w].index[f] \notin Mine
          BY <1>0 DEF RunInv, StageInv
        <4> QED BY <1>a, <2>c, <2>d, <4>1 DEF StageInv
      <3> QED BY <3>1, <3>2, <3>3, <3>4, <3>5 DEF RunInv
    <2>6. KeptInv'
      <3> SUFFICES ASSUME NotRaced', NEW v \in Worktree, NEW f \in File, NEW c \in Content,
                          <<v, f, c>> \in owed'
                   PROVE  InTree(v, f, c)' \/ InEntries(v, f, c)'
        BY DEF KeptInv
      <3>0. ~raced[w]
        BY <1>a DEF NotRaced
      <3>1. InTree(v, f, c) \/ InEntries(v, f, c)
        BY <1>a DEF IInv, KeptInv, NotRaced
      <3>2. runs'[v] \in Nat /\ runs'[v] >= runs[v]
        BY <1>0, <1>a, BoundsAssumption DEF TypeOK
      <3>3. \A i \in DOMAIN stash : i # 1 \/ ~ok => \E j \in DOMAIN stash' : stash'[j] = stash[i]
        BY <2>c, <2>g
      <3>4. CASE v # w /\ InTree(v, f, c)
        BY <2>3, <3>4 DEF InTree, Same, Unmerged
      <3>5. CASE v # w /\ InEntries(v, f, c)
        <4>1. ~InEntry(v, f, c, top)
          BY <1>0, <2>j, <3>0, <3>5 DEF InEntry
        <4> QED BY <1>a, <3>2, <3>3, <3>5, <4>1, EntriesStay DEF top
      <3>6. ASSUME v = w, tree[w].index[f] \in Forms(c)
            PROVE  InTree(w, f, c)'
        <4>1. CASE t.index[f] = tree[w].index[f]
          BY <2>c, <3>6, <4>1 DEF InTree
        <4>2. CASE t.index[f] # tree[w].index[f]
          <5>1. /\ Unmerged(t) /\ t.work[f] = m[f]
                /\ m[f] \in Merge(top.base[f], tree[w].index[f], top.work[f])
            BY <2>d, <4>2
          <5>2. CASE tree[w].index[f] = top.base[f]
            <6>1. t.head[f] \in Forms(c)
              BY <2>c, <2>i, <2>j, <3>0, <3>6, <5>2
            <6> QED BY <1>a, <2>c, <5>1, <6>1 DEF InTree, Unmerged
          <5>3. CASE tree[w].index[f] # top.base[f]
            BY <2>c, <5>1, <5>3 DEF InTree, Merge, Forms
          <5> QED BY <5>2, <5>3
        <4> QED BY <4>1, <4>2
      <3>7. CASE v = w /\ InTree(w, f, c)
        <4>1. tree[w].index[f] \in Forms(c) \/ tree[w].work[f] \in Forms(c)
          BY <1>0, <3>7 DEF InTree
        <4>2. tree[w].work[f] = tree[w].index[f] \/ t.work[f] = tree[w].work[f]
          BY <2>d, <2>i, <2>j, <3>0
        <4> QED BY <2>c, <3>6, <3>7, <4>1, <4>2 DEF InTree
      <3>8. CASE v = w /\ InEntries(w, f, c)
        <4>1. CASE ~ok \/ ~InEntry(w, f, c, top)
          BY <1>a, <3>2, <3>3, <3>8, <4>1, EntriesStay DEF top
        <4>2. CASE ok /\ InEntry(w, f, c, top)
          <5>0. top.work[f] \in Forms(c) /\ top.work[f] = given[w].work[f]
            BY <2>j, <3>0, <4>2 DEF InEntry
          <5>1. CASE f \in ToMerge(tree[w], top)
            <6>1. t.work[f] \in {top.work[f], "merged"}
              BY <2>e, <4>2, <5>1 DEF Merge
            <6> QED BY <2>c, <3>8, <5>0, <6>1 DEF InTree, Forms
          <5>2. CASE f \in top.untracked \ ToMerge(tree[w], top)
            BY <2>c, <2>e, <3>8, <4>2, <5>0, <5>2 DEF InTree
          <5>3. CASE f \notin top.untracked /\ f \notin ToMerge(tree[w], top)
            <6>1. t.index[f] = tree[w].index[f]
              BY <2>e, <4>2
            <6>2. tree[w].index[f] \in {top.work[f], Fixed(top.work[f])}
              <7>1. CASE given[w].index[f] = "none"
                BY <2>i, <2>j, <3>0, <5>0, <5>3, <7>1
              <7>2. CASE given[w].index[f] # "none"
                <8>1. given[w].work[f] \in {given[w].head[f], tree[w].index[f]}
                  BY <2>j, <3>0, <5>3, <7>2 DEF ToMerge
                <8>2. given[w].work[f] = given[w].index[f] \/ given[w].work[f] = tree[w].index[f]
                  BY <2>i, <7>2, <8>1
                <8> QED BY <2>i, <5>0, <8>2
              <7> QED BY <7>1, <7>2
            <6>3. tree[w].index[f] \in Forms(c)
              BY <5>0, <6>2, FormsFacts
            <6> QED BY <3>6, <3>8, <6>3
          <5> QED BY <5>1, <5>2, <5>3
        <4>3. ok \in BOOLEAN
          BY <2>c
        <4> QED BY <4>1, <4>2, <4>3
      <3> QED BY <3>1, <3>4, <3>5, <3>7, <3>8
    <2> QED BY <2>1, <2>2, <2>4, <2>5, <2>6 DEF IInv
  <1> QED BY <1>f, <1>g

LEMMA CommitKeeps ==
  ASSUME IInv, NEW w \in Worktree, Commit(w)
  PROVE  IInv'
  <1>0. TypeOK /\ RunInv(w) /\ tree[w] \in Tree /\ pc[w] = "idle" /\ ~Unmerged(tree[w])
    BY DEF IInv, TypeOK, Commit
  <1>a. /\ tree' = [tree EXCEPT ![w].head = tree[w].index]
        /\ pc' = pc /\ runs' = runs /\ hook' = hook /\ guard' = guard /\ before' = before
        /\ exec' = exec /\ restore_err' = restore_err /\ result' = result /\ given' = given
        /\ raced' = raced /\ stash' = stash /\ holders' = holders /\ taken' = taken
        /\ owed' = owed /\ outsider' = outsider
    BY DEF Commit, local, history
  <1>b. /\ tree'[w] \in Tree
        /\ tree'[w].index = tree[w].index /\ tree'[w].work = tree[w].work
        /\ \A v \in Worktree \ {w} : tree'[v] = tree[v]
    BY <1>0, <1>a DEF TypeOK, Tree
  <1>1. TypeOK'
    <2>1. tree' \in [Worktree -> Tree]
      BY <1>0, <1>a, <1>b DEF TypeOK
    <2> QED BY <1>0, <1>a, <2>1 DEF TypeOK
  <1>2. FlockInv' /\ UniqueInv'
    BY <1>a DEF IInv, FlockInv, UniqueInv
  <1>3. \A v \in Worktree \ {w} : Same(v)
    BY <1>a, <1>b DEF Same
  <1>4. ASSUME NEW v \in Worktree, v # w PROVE RunInv(v)'
    BY <1>a, <1>3, <1>4, OtherRun
  <1>5. RunInv(w)'
    <2>1. Control(w)' /\ NumberInv(w)'
      BY <1>0, <1>a DEF RunInv, Control, NumberInv
    <2>3. EntryInv(w)'
      BY <1>0, <1>a DEF RunInv, EntryInv, HasEntry, ThisRun
    <2>4. TreeInv(w)'
      BY <1>0, <1>a, <1>b DEF RunInv, TreeInv, InRun, Control
    <2>5. StageInv(w)'
      BY <1>0, <1>a, <1>b DEF RunInv, StageInv, Unmerged
    <2> QED BY <2>1, <2>3, <2>4, <2>5 DEF RunInv
  <1>6. KeptInv'
    <2>1. \A f \in File, c \in Content : InTree(w, f, c) => InTree(w, f, c)'
      BY <1>0, <1>a, <1>b DEF InTree
    <2> QED BY <1>1, <1>3, <1>a, <2>1, StepKeeps
  <1> QED BY <1>1, <1>2, <1>4, <1>5, <1>6 DEF IInv

(* The outsider races every run that is about to pop.                      *)
LEMMA OutsideKeeps ==
  ASSUME IInv, Outside
  PROVE  IInv'
  <1>0. TypeOK /\ stash \in Seq(StashEntry) /\ Len(stash) \in Nat /\ DOMAIN stash = 1..Len(stash)
    BY DEF IInv, TypeOK
  <1>a. OutsiderMove
    BY DEF Outside, OutsiderPush, OutsiderTake
  <1>b. /\ pc' = pc /\ runs' = runs /\ hook' = hook /\ guard' = guard /\ before' = before
        /\ exec' = exec /\ restore_err' = restore_err /\ result' = result /\ given' = given
        /\ tree' = tree /\ holders' = holders /\ owed' = owed
        /\ outsider' \in 0..MaxOutsider
        /\ raced' \in [Worktree -> BOOLEAN]
        /\ \A w \in Worktree : raced'[w] <=> raced[w] \/ pc[w] = "popping"
    <2>1. outsider' \in 0..MaxOutsider
      BY <1>0, <1>a, BoundsAssumption DEF OutsiderMove, TypeOK
    <2>2. \A w \in Worktree : (raced[w] \/ pc[w] = "popping") \in BOOLEAN
      BY <1>0 DEF TypeOK
    <2> QED BY <1>a, <2>1, <2>2 DEF OutsiderMove, local
  (* An entry on top that is no run's, or one less.                        *)
  <1>c. /\ stash' \in Seq(StashEntry) /\ taken' \subseteq StashEntry /\ taken \subseteq taken'
        /\ \/ /\ taken' = taken
              /\ DOMAIN stash' = 1..(Len(stash) + 1) /\ stash'[1].run = NoRun
              /\ \A i \in DOMAIN stash' \ {1} : stash'[i] = stash[i - 1] /\ i - 1 \in DOMAIN stash
              /\ \A i \in DOMAIN stash : stash[i] = stash'[i + 1] /\ i + 1 \in DOMAIN stash'
           \/ /\ DOMAIN stash' = 1..(Len(stash) - 1) /\ stash[1] \in taken'
              /\ \A i \in DOMAIN stash' : stash'[i] = stash[i + 1] /\ i + 1 \in DOMAIN stash
              /\ \A i \in DOMAIN stash \ {1} : stash[i] = stash'[i - 1] /\ i - 1 \in DOMAIN stash'
    <2>1. ASSUME NEW f \in File, OutsiderPush(f)
          PROVE  /\ taken' = taken /\ stash' \in Seq(StashEntry)
                 /\ DOMAIN stash' = 1..(Len(stash) + 1) /\ stash'[1].run = NoRun
                 /\ \A i \in DOMAIN stash' \ {1} : stash'[i] = stash[i - 1] /\ i - 1 \in DOMAIN stash
                 /\ \A i \in DOMAIN stash : stash[i] = stash'[i + 1] /\ i + 1 \in DOMAIN stash'
      <3> DEFINE e == [run |-> NoRun,
                       base |-> [g \in File |-> "old"],
                       work |-> [[g \in File |-> "old"] EXCEPT ![f] = "foreign"],
                       tracked |-> File, untracked |-> {}]
      <3>1. stash' = <<e>> \o stash /\ taken' = taken
        BY <2>1 DEF OutsiderPush
      <3>2. e \in StashEntry /\ e.run = NoRun
        BY DEF StashEntry, Content
      <3> HIDE DEF e
      <3> QED BY <1>0, <3>1, <3>2, Cons
    <2>2. ASSUME OutsiderTake
          PROVE  /\ stash' \in Seq(StashEntry)
                 /\ taken' \subseteq StashEntry /\ taken \subseteq taken'
                 /\ DOMAIN stash' = 1..(Len(stash) - 1) /\ stash[1] \in taken'
                 /\ \A i \in DOMAIN stash' : stash'[i] = stash[i + 1] /\ i + 1 \in DOMAIN stash
                 /\ \A i \in DOMAIN stash \ {1} : stash[i] = stash'[i - 1] /\ i - 1 \in DOMAIN stash'
      <3>1. stash # <<>> /\ stash' = Tail(stash) /\ taken' = taken \cup {stash[1]}
        BY <2>2 DEF OutsiderTake
      <3> QED BY <1>0, <3>1, Rest DEF TypeOK
    <2> QED BY <1>0, <2>1, <2>2 DEF Outside, TypeOK
  <1>1. TypeOK'
    BY <1>0, <1>b, <1>c DEF TypeOK
  <1>2. FlockInv'
    BY <1>b DEF IInv, FlockInv
  <1>3. UniqueInv'
    <2> SUFFICES ASSUME NEW i \in DOMAIN stash', NEW j \in DOMAIN stash',
                        stash'[i].run = stash'[j].run, stash'[i].run # NoRun
                 PROVE  i = j
      BY DEF UniqueInv
    <2>1. i \in Int /\ j \in Int
      BY <1>0, <1>c
    <2>2. \A k, n \in DOMAIN stash :
            stash[k].run = stash[n].run /\ stash[k].run # NoRun => k = n
      BY DEF IInv, UniqueInv
    <2>3. CASE stash'[1].run = NoRun /\ \A k \in DOMAIN stash' \ {1} :
                 stash'[k] = stash[k - 1] /\ k - 1 \in DOMAIN stash
      <3>1. i # 1 /\ j # 1
        BY <2>3
      <3>2. /\ stash'[i] = stash[i - 1] /\ i - 1 \in DOMAIN stash
            /\ stash'[j] = stash[j - 1] /\ j - 1 \in DOMAIN stash
        BY <2>3, <3>1
      <3>3. i - 1 = j - 1
        BY <2>2, <3>2
      <3> QED BY <2>1, <3>3
    <2>4. CASE \A k \in DOMAIN stash' :
                 stash'[k] = stash[k + 1] /\ k + 1 \in DOMAIN stash
      <3>1. /\ stash'[i] = stash[i + 1] /\ i + 1 \in DOMAIN stash
            /\ stash'[j] = stash[j + 1] /\ j + 1 \in DOMAIN stash
        BY <2>4
      <3>2. i + 1 = j + 1
        BY <2>2, <3>1
      <3> QED BY <2>1, <3>2
    <2> QED BY <1>c, <2>3, <2>4
  <1>4. ASSUME NEW v \in Worktree
        PROVE  RunInv(v)'
    <2>0. RunInv(v) /\ ThisRun(v)' = ThisRun(v) /\ ThisRun(v) # NoRun /\ ThisRun(v) = <<v, runs[v]>>
      BY <1>0, <1>b, NoRunAssumption DEF IInv, ThisRun, TypeOK
    <2>1. Control(v)'
      BY <1>b, <2>0 DEF RunInv, Control
    <2>2. TreeInv(v)'
      BY <1>b, <2>0 DEF RunInv, TreeInv
    <2>3. StageInv(v)'
      BY <1>b, <2>0 DEF RunInv, StageInv, Unmerged, Tracked
    <2>4. ASSUME NEW i \in DOMAIN stash', stash'[i].run # NoRun
          PROVE  \E j \in DOMAIN stash : stash'[i] = stash[j]
      BY <1>c, <2>4
    <2>5. NumberInv(v)'
      <3> SUFFICES ASSUME NEW i \in DOMAIN stash', NEW n \in 1..MaxRuns,
                          stash'[i].run = <<v, n>>
                   PROVE  n <= runs[v]
        BY <1>b DEF NumberInv
      <3>1. <<v, n>> # NoRun
        BY NoRunAssumption, BoundsAssumption
      <3> QED BY <2>0, <2>4, <3>1 DEF RunInv, NumberInv
    <2>6. EntryInv(v)'
      <3>1. HasEntry(v)' => HasEntry(v)
        BY <2>0, <2>4 DEF HasEntry
      <3>2. \A i \in DOMAIN stash' :
              stash'[i].run = ThisRun(v) => stash'[i] = Entry(given[v], ThisRun(v))
        BY <2>0, <2>4 DEF RunInv, EntryInv
      <3>3. ASSUME guard[v], NEW i \in DOMAIN stash', stash'[i].run = ThisRun(v),
                   NEW j \in 1..(i - 1)
            PROVE  stash'[j].run = NoRun
        <4>0. /\ i \in Int /\ j \in Int /\ 1 <= j /\ j < i /\ j \in DOMAIN stash'
          BY <1>0, <1>c, <3>3
        <4>1. \A k \in DOMAIN stash : stash[k].run = ThisRun(v) =>
                \A n \in 1..(k - 1) : stash[n].run = NoRun
          BY <2>0, <3>3 DEF RunInv, EntryInv
        <4>2. CASE stash'[1].run = NoRun /\ \A k \in DOMAIN stash' \ {1} :
                     stash'[k] = stash[k - 1] /\ k - 1 \in DOMAIN stash
          <5>1. CASE j = 1
            BY <4>2, <5>1
          <5>2. CASE j # 1
            <6>1. /\ stash'[i] = stash[i - 1] /\ i - 1 \in DOMAIN stash
                  /\ stash'[j] = stash[j - 1]
              BY <3>3, <4>0, <4>2, <5>2
            <6>2. j - 1 \in 1..((i - 1) - 1)
              BY <4>0, <5>2
            <6> QED BY <3>3, <4>1, <6>1, <6>2
          <5> QED BY <5>1, <5>2
        <4>3. CASE \A k \in DOMAIN stash' :
                     stash'[k] = stash[k + 1] /\ k + 1 \in DOMAIN stash
          <5>1. /\ stash'[i] = stash[i + 1] /\ i + 1 \in DOMAIN stash
                /\ stash'[j] = stash[j + 1]
            BY <3>3, <4>0, <4>3
          <5>2. j + 1 \in 1..((i + 1) - 1)
            BY <4>0
          <5> QED BY <3>3, <4>1, <5>1, <5>2
        <4> QED BY <1>c, <4>2, <4>3
      <3> QED BY <1>b, <2>0, <3>1, <3>2, <3>3 DEF RunInv, EntryInv
    <2> QED BY <2>1, <2>2, <2>3, <2>5, <2>6 DEF RunInv
  <1>5. KeptInv'
    <2> SUFFICES ASSUME NotRaced', NEW v \in Worktree, NEW f \in File, NEW c \in Content,
                        <<v, f, c>> \in owed'
                 PROVE  InTree(v, f, c)' \/ InEntries(v, f, c)'
      BY DEF KeptInv
    <2>1. InTree(v, f, c) \/ InEntries(v, f, c)
      BY <1>b DEF IInv, KeptInv, NotRaced
    <2>2. CASE InTree(v, f, c)
      BY <1>b, <2>2 DEF InTree, Unmerged
    <2>3. CASE InEntries(v, f, c)
      <3>1. runs'[v] \in Nat /\ runs'[v] >= runs[v]
        BY <1>0, <1>b, BoundsAssumption DEF TypeOK
      <3>2. \A i \in DOMAIN stash :
              stash[i] \in taken' \/ \E j \in DOMAIN stash' : stash'[j] = stash[i]
        BY <1>c
      <3> QED BY <1>c, <2>3, <3>1, <3>2, EntriesStay
    <2> QED BY <2>1, <2>2, <2>3
  <1> QED BY <1>1, <1>2, <1>3, <1>4, <1>5 DEF IInv

LEMMA StutterKeeps ==
  ASSUME IInv, UNCHANGED vars
  PROVE  IInv'
  <1>1. /\ pc' = pc /\ runs' = runs /\ hook' = hook /\ guard' = guard /\ before' = before
        /\ exec' = exec /\ restore_err' = restore_err /\ result' = result /\ given' = given
        /\ tree' = tree /\ holders' = holders /\ owed' = owed /\ taken' = taken
        /\ stash' = stash /\ raced' = raced /\ outsider' = outsider
    BY DEF vars, local, history
  <1>2. TypeOK' /\ FlockInv' /\ UniqueInv'
    BY <1>1 DEF IInv, TypeOK, FlockInv, UniqueInv
  <1>3. ASSUME NEW v \in Worktree PROVE RunInv(v)'
    BY <1>1, <1>3, OtherRun DEF Same
  <1>4. KeptInv'
    BY <1>1 DEF IInv, KeptInv, NotRaced, InTree, InEntries, InEntry, Unmerged
  <1> QED BY <1>2, <1>3, <1>4 DEF IInv

-----------------------------------------------------------------------------
(* Theorems.                                                               *)

(* The invariant holds in every reachable state.                           *)
THEOREM Invariance == Spec => []IInv
  <1>1. ASSUME IInv, [Next]_vars PROVE IInv'
    <2>1. ASSUME NEW w \in Worktree, RunStep(w) PROVE IInv'
      <3>1. CASE \E f \in File : Touch(w, f)
        BY <1>1, <3>1, TouchKeeps
      <3> QED BY <1>1, <2>1, <3>1, StartKeeps, LockKeeps, PushKeeps, EarlyErrorKeeps,
                 ResolveKeeps, EndJobsKeeps, FindStashKeeps, PopStashKeeps,
                 GitFailsKeeps, ReturnKeeps DEF RunStep
    <2>2. ASSUME NEW w \in Worktree, Commit(w) \/ Crash(w) PROVE IInv'
      BY <1>1, <2>2, CommitKeeps, CrashKeeps
    <2>3. CASE Outside
      BY <1>1, <2>3, OutsideKeeps
    <2>4. CASE AllRun \/ UNCHANGED vars
      BY <1>1, <2>4, StutterKeeps DEF AllRun
    <2> QED BY <1>1, <2>1, <2>2, <2>3, <2>4 DEF Next
  <1> QED BY <1>1, InitIInv, PTL DEF Spec

(* Variables keep their types (TypeOK).                                    *)
THEOREM TypeCorrect == Spec => []TypeOK
  <1>1. IInv => TypeOK
    BY DEF IInv
  <1> QED BY <1>1, Invariance, PTL

(* UserWorkSurvives: crashes, errors and outsiders included, what the user *)
(* had not committed stays where he can find it.                           *)
THEOREM NothingIsLost == Spec => []UserWorkSurvives
  <1>1. IInv => UserWorkSurvives
    <2> SUFFICES ASSUME IInv, NotRaced, NEW o \in owed
                 PROVE  Kept(o[1], o[2], o[3])
      BY DEF UserWorkSurvives, NotRaced
    <2>1. PICK w \in Worktree, f \in File, c \in Content : o = <<w, f, c>>
      BY DEF IInv, TypeOK
    <2>2. InTree(w, f, c) \/ InEntries(w, f, c)
      BY <2>1 DEF IInv, KeptInv
    <2>3. Kept(w, f, c)
      BY <2>2 DEF Kept, InTree, InEntries, InEntry, Forms
    <2> QED BY <2>1, <2>3
  <1> QED BY <1>1, Invariance, PTL

(* NoRunBuriesAnother: the flock covers a run from push to pop.            *)
THEOREM FlockCoversTheStash == Spec => []NoRunBuriesAnother
  <1>1. IInv => NoRunBuriesAnother
    BY DEF IInv, RunInv, EntryInv, NoRunBuriesAnother
  <1> QED BY <1>1, Invariance, PTL

(* ReportMeansRestored: after a report work tree and index are what they   *)
(* were, but for the files of the jobs, and no entry is left.              *)
THEOREM ReportsAreTrue == Spec => []ReportMeansRestored
  <1>1. IInv => ReportMeansRestored
    BY DEF IInv, RunInv, Control, EntryInv, TreeInv, HasEntry, ReportMeansRestored
  <1> QED BY <1>1, Invariance, PTL

(* EntryLeftIsReported: a run whose jobs ran leaves no entry in silence.   *)
THEOREM LeftEntriesAreReported == Spec => []EntryLeftIsReported
  <1>1. IInv => EntryLeftIsReported
    BY DEF IInv, RunInv, EntryInv, HasEntry, EntryLeftIsReported
  <1> QED BY <1>1, Invariance, PTL

(* NoUnstagedWorkIsStaged: neither stage_fixed nor a pop stages what the   *)
(* user has not, short of conflicts.                                       *)
THEOREM OnlyTheStagedIsStaged == Spec => []NoUnstagedWorkIsStaged
  <1>1. IInv => NoUnstagedWorkIsStaged
    BY DEF IInv, RunInv, StageInv, Mine, NoUnstagedWorkIsStaged
  <1> QED BY <1>1, Invariance, PTL
=============================================================================
