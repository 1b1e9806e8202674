--------------------------- MODULE JobCacheProofs ---------------------------
(***************************************************************************)
(* Theorems about module JobCache, for any processes, any number of files, *)
(* any contents and any number of runs, writes and versions of the tool.   *)
(***************************************************************************)
EXTENDS JobCache, TLAPS

Walking == {"hashing", "fresh", "rehashing", "persisting"}

(* How far a process has come with each of its walks.                      *)
WalkInv(p) ==
  /\ pc[p] \in Walking => Len(walk[p]) = done[p]
  /\ pc[p] \in {"idle", "hashing", "fresh"} => Len(saw[p]) = 0 /\ Len(snap[p]) = 0
  /\ pc[p] = "running" => Len(saw[p]) = done[p] /\ Len(snap[p]) = 0
  /\ pc[p] = "stating" => Len(saw[p]) = Files /\ Len(snap[p]) = done[p]
  /\ pc[p] \in {"rehashing", "persisting"} =>
       Len(saw[p]) = Files /\ Len(snap[p]) = Files
  /\ pc[p] = "persisting" => done[p] = Files
  /\ pc[p] \in {"idle", "hashing"} => memo[p] = 0
  /\ pc[p] \in Storing => used[p] # 0

(* What a process is about to store, if nobody came in between.            *)
SawInv(p) ==
  pc[p] \in Storing /\ ~raced[p] =>
    /\ used[p] = tool
    /\ memo[p] \in {0, tool}
    /\ \A f \in 1..Len(saw[p]) : saw[p][f] = content[f]
    /\ \A f \in 1..Len(snap[p]) : snap[p][f] = mtime[f]

(* A file that is still of the second that the entry has is what the       *)
(* command saw.                                                            *)
Sound(e, version) ==
  ~e.raced =>
    /\ e.used = version
    /\ \A f \in File : e.inputs[f] <= clock
    /\ \A f \in File : mtime[f] = e.inputs[f] => content[f] = e.saw[f]

FoundInv(p) ==
  pc[p] = "fresh" => found[p] \in Entry /\ Sound(found[p], memo[p])

(* A process that found the store settled has only met what is there now.  *)
SteadyInv(p) ==
  steady[p] =>
    /\ settled
    /\ pc[p] = "hashing" => \A f \in 1..Len(walk[p]) : walk[p][f] = content[f]
    /\ pc[p] = "fresh" => found[p].inputs = mtime

ProcInv(p) == WalkInv(p) /\ SawInv(p) /\ FoundInv(p) /\ SteadyInv(p)

ClockInv == \A f \in File : mtime[f] <= clock

StoreInv == \A k \in DOMAIN entries : Sound(entries[k], k.tool)

Current == [content |-> content, tool |-> tool]

SettledInv ==
  settled => Current \in DOMAIN entries /\ entries[Current].inputs = mtime

IInv ==
  /\ TypeOK /\ ClockInv /\ StoreInv /\ SettledInv
  /\ \A p \in Proc : ProcInv(p)

-----------------------------------------------------------------------------
(* Sequences and files.                                                    *)

LEMMA Appended ==
  ASSUME NEW S, NEW s \in Seq(S), NEW e \in S
  PROVE  /\ Append(s, e) \in Seq(S)
         /\ Len(Append(s, e)) = Len(s) + 1
         /\ \A i \in 1..Len(s) : Append(s, e)[i] = s[i]
         /\ Append(s, e)[Len(s) + 1] = e
  OBVIOUS

LEMMA NextFileFacts ==
  ASSUME TypeOK, NEW p \in Proc
  PROVE  /\ done[p] \in Nat /\ done[p] <= Files
         /\ More(p) => NextFile(p) \in File /\ NextFile(p) \in 1..Files
         /\ More(p) => done[p] + 1 \in 0..Files /\ NextFile(p) = done[p] + 1
         /\ ~More(p) => done[p] = Files
  BY FilesAssumption DEF TypeOK, NextFile, More, File

LEMMA InitIInv == Init => IInv
  <1> SUFFICES ASSUME Init PROVE IInv
    OBVIOUS
  <1>1. TypeOK
    <2>1. /\ 0 \in Second /\ 1 \in 1..MaxTool /\ 0 \in 0..MaxTool /\ 0 \in 0..MaxMoves
          /\ 0 \in 0..Files
      BY BoundsAssumption, FilesAssumption DEF Second
    <2>2. /\ content \in [File -> Content] /\ mtime \in [File -> Second]
          /\ clock \in Second /\ tool \in 1..MaxTool /\ runs \in 0..MaxMoves
      BY <2>1 DEF Init
    <2>3. /\ DOMAIN entries \subseteq Key /\ \A k \in DOMAIN entries : entries[k] \in Entry
          /\ temps \subseteq Proc
      BY DEF Init
    <2>4. /\ pc \in [Proc -> PC] /\ done \in [Proc -> 0..Files]
          /\ memo \in [Proc -> 0..MaxTool] /\ used \in [Proc -> 0..MaxTool]
          /\ found \in [Proc -> Entry \cup {NoEntry}]
          /\ raced \in [Proc -> BOOLEAN] /\ steady \in [Proc -> BOOLEAN]
          /\ settled \in BOOLEAN
      BY <2>1 DEF Init, PC
    <2>5. /\ walk \in [Proc -> Seq(Content)] /\ saw \in [Proc -> Seq(Content)]
          /\ snap \in [Proc -> Seq(Second)]
      BY DEF Init
    <2> QED BY <2>2, <2>3, <2>4, <2>5 DEF TypeOK
  <1>2. ClockInv /\ StoreInv /\ SettledInv
    BY DEF Init, ClockInv, StoreInv, SettledInv
  <1>3. ASSUME NEW p \in Proc PROVE ProcInv(p)
    BY DEF Init, ProcInv, WalkInv, SawInv, FoundInv, SteadyInv, Storing, Walking
  <1> QED BY <1>1, <1>2, <1>3 DEF IInv

(* Types of what a step leaves alone.                                      *)
DiskType ==
  /\ content \in [File -> Content] /\ mtime \in [File -> Second]
  /\ clock \in Second /\ tool \in 1..MaxTool

StoreType ==
  /\ DOMAIN entries \subseteq Key /\ \A k \in DOMAIN entries : entries[k] \in Entry
  /\ temps \subseteq Proc

WalkType ==
  /\ pc \in [Proc -> PC] /\ done \in [Proc -> 0..Files]
  /\ walk \in [Proc -> Seq(Content)]

KnowType ==
  /\ memo \in [Proc -> 0..MaxTool] /\ found \in [Proc -> Entry \cup {NoEntry}]
  /\ saw \in [Proc -> Seq(Content)] /\ snap \in [Proc -> Seq(Second)]
  /\ used \in [Proc -> 0..MaxTool]

HistoryType ==
  /\ raced \in [Proc -> BOOLEAN] /\ steady \in [Proc -> BOOLEAN]
  /\ settled \in BOOLEAN

LEMMA Types ==
  TypeOK <=> /\ DiskType /\ StoreType /\ runs \in 0..MaxMoves
             /\ WalkType /\ KnowType /\ HistoryType
  BY DEF TypeOK, DiskType, StoreType, WalkType, KnowType, HistoryType

LEMMA TypesNext ==
  ASSUME DiskType', StoreType', runs' \in 0..MaxMoves, WalkType', KnowType', HistoryType'
  PROVE  TypeOK'
  BY DEF TypeOK, DiskType, StoreType, WalkType, KnowType, HistoryType

-----------------------------------------------------------------------------
(* What a step does to those that do not take it.                          *)

Local(q) ==
  /\ pc'[q] = pc[q] /\ done'[q] = done[q] /\ walk'[q] = walk[q]
  /\ memo'[q] = memo[q] /\ found'[q] = found[q] /\ saw'[q] = saw[q]
  /\ snap'[q] = snap[q] /\ used'[q] = used[q]

LEMMA QuietOther ==
  ASSUME NEW q \in Proc, ProcInv(q), Local(q), UNCHANGED disk,
         raced'[q] = raced[q], steady'[q] => steady[q] /\ settled'
  PROVE  ProcInv(q)'
  <1>1. WalkInv(q)'
    BY DEF ProcInv, WalkInv, Local
  <1>2. SawInv(q)'
    BY DEF ProcInv, SawInv, Local, disk
  <1>3. FoundInv(q)'
    BY DEF ProcInv, FoundInv, Sound, Local, disk
  <1>4. SteadyInv(q)'
    BY DEF ProcInv, SteadyInv, Local, disk
  <1> QED BY <1>1, <1>2, <1>3, <1>4 DEF ProcInv

(* An entry stays sound when a file is written: the write has a second of  *)
(* its own.                                                                *)
LEMMA WriteKeepsSound ==
  ASSUME TypeOK, ClockInv, NEW f \in File, NEW c \in Content, Write(f, c),
         NEW e \in Entry, NEW version, Sound(e, version)
  PROVE  Sound(e, version)'
  <1> SUFFICES ASSUME ~e.raced
               PROVE  /\ e.used = version
                      /\ \A g \in File : e.inputs[g] <= clock'
                      /\ \A g \in File : mtime'[g] = e.inputs[g] => content'[g] = e.saw[g]
    BY DEF Sound
  <1>1. /\ clock \in Int /\ clock' = clock + 1
        /\ mtime' = [mtime EXCEPT ![f] = clock + 1]
        /\ content' = [content EXCEPT ![f] = c]
        /\ DOMAIN mtime = File /\ DOMAIN content = File
    BY BoundsAssumption DEF TypeOK, Write, Second
  <1>2. \A g \in File : e.inputs[g] \in Int /\ e.inputs[g] <= clock
    BY BoundsAssumption DEF Entry, Second, Sound
  <1>3. ASSUME NEW g \in File, mtime'[g] = e.inputs[g]
        PROVE  content'[g] = e.saw[g]
    <2>1. g # f
      BY <1>1, <1>2, <1>3
    <2> QED BY <1>1, <1>3, <2>1 DEF Sound
  <1> QED BY <1>1, <1>2, <1>3 DEF Sound

LEMMA WriteType ==
  ASSUME TypeOK, ClockInv, NEW f \in File, NEW c \in Content, Write(f, c)
  PROVE  /\ content' \in [File -> Content] /\ mtime' \in [File -> Second]
         /\ clock' \in Second /\ tool' = tool /\ ClockInv'
  <1>1. /\ clock \in Nat /\ runs \in Nat /\ runs + clock < MaxMoves
        /\ clock' = clock + 1 /\ mtime' = [mtime EXCEPT ![f] = clock + 1]
    BY BoundsAssumption DEF TypeOK, Write, MayMove, Second
  <1>2. clock' \in Second
    BY <1>1, BoundsAssumption DEF Second
  <1>3. \A g \in File : mtime[g] \in Int /\ mtime[g] <= clock
    BY BoundsAssumption DEF TypeOK, Second, ClockInv
  <1>4. ClockInv'
    BY <1>1, <1>3 DEF ClockInv, TypeOK
  <1> QED BY <1>1, <1>2, <1>4 DEF TypeOK, Write

(* Everybody else is disturbed by a write, and by an upgrade.              *)
LEMMA WriteOther ==
  ASSUME TypeOK, ClockInv, NEW f \in File, NEW c \in Content, Write(f, c),
         NEW p, Disturb(p), NEW q \in Proc, q # p, ProcInv(q), Local(q)
  PROVE  ProcInv(q)'
  <1>1. /\ raced'[q] <=> raced[q] \/ pc[q] \in Storing
        /\ ~steady'[q]
    BY DEF Disturb
  <1>2. WalkInv(q)'
    BY DEF ProcInv, WalkInv, Local
  <1>3. SawInv(q)'
    BY <1>1 DEF SawInv, Local
  <1>4. FoundInv(q)'
    BY WriteKeepsSound DEF ProcInv, FoundInv, Local, Sound
  <1>5. SteadyInv(q)'
    BY <1>1 DEF SteadyInv
  <1> QED BY <1>2, <1>3, <1>4, <1>5 DEF ProcInv

LEMMA WriteStore ==
  ASSUME TypeOK, ClockInv, StoreInv, NEW f \in File, NEW c \in Content, Write(f, c),
         entries' = entries, ~settled'
  PROVE  StoreInv' /\ SettledInv'
  <1>1. ASSUME NEW k \in DOMAIN entries PROVE Sound(entries[k], k.tool)'
    <2> DEFINE e == entries[k]  version == k.tool
    <2>1. e \in Entry /\ Sound(e, version)
      BY DEF TypeOK, StoreInv
    <2>2. e' = e
      OBVIOUS
    <2> HIDE DEF e, version
    <2>3. \A x \in Entry : Sound(x, version) => Sound(x, version)'
      BY WriteKeepsSound
    <2> QED BY <2>1, <2>2, <2>3 DEF e, version, Sound
  <1> QED BY <1>1 DEF StoreInv, SettledInv

(* A step of p that leaves disk and store alone.                           *)
LEMMA QuietStep ==
  ASSUME IInv, NEW p \in Proc, TypeOK', UNCHANGED <<disk, entries, settled>>,
         ProcInv(p)',
         \A q \in Proc \ {p} :
           Local(q) /\ raced'[q] = raced[q] /\ steady'[q] = steady[q]
  PROVE  IInv'
  <1>1. ClockInv' /\ SettledInv'
    BY DEF IInv, ClockInv, SettledInv, Current, disk
  <1>2. StoreInv'
    BY DEF IInv, StoreInv, Sound, disk
  <1>3. ASSUME NEW q \in Proc \ {p} PROVE ProcInv(q)'
    <2>1. steady'[q] => steady[q] /\ settled'
      BY DEF IInv, ProcInv, SteadyInv
    <2> QED BY <2>1, QuietOther DEF IInv
  <1> QED BY <1>1, <1>2, <1>3 DEF IInv

-----------------------------------------------------------------------------
(* One lemma per action.                                                   *)

LEMMA GotoFacts ==
  ASSUME TypeOK, NEW p \in Proc, NEW to \in PC, Goto(p, to)
  PROVE  /\ pc' \in [Proc -> PC] /\ done' \in [Proc -> 0..Files]
         /\ walk' \in [Proc -> Seq(Content)]
         /\ pc'[p] = to /\ done'[p] = 0 /\ Len(walk'[p]) = 0
         /\ \A q \in Proc \ {p} :
              pc'[q] = pc[q] /\ done'[q] = done[q] /\ walk'[q] = walk[q]
  <1>1. 0 \in 0..Files /\ <<>> \in Seq(Content) /\ Len(<<>>) = 0
    BY FilesAssumption
  <1> QED BY <1>1 DEF TypeOK, Goto

LEMMA EndFacts ==
  ASSUME TypeOK, NEW p \in Proc, End(p)
  PROVE  /\ pc' \in [Proc -> PC] /\ done' \in [Proc -> 0..Files]
         /\ walk' \in [Proc -> Seq(Content)] /\ memo' \in [Proc -> 0..MaxTool]
         /\ found' \in [Proc -> Entry \cup {NoEntry}]
         /\ snap' \in [Proc -> Seq(Second)] /\ saw' \in [Proc -> Seq(Content)]
         /\ used' \in [Proc -> 0..MaxTool] /\ raced' \in [Proc -> BOOLEAN]
         /\ pc'[p] = "idle" /\ memo'[p] = 0 /\ Len(saw'[p]) = 0 /\ Len(snap'[p]) = 0
         /\ \A q \in Proc \ {p} : Local(q) /\ raced'[q] = raced[q]
  <1>1. /\ 0 \in 0..MaxTool /\ <<>> \in Seq(Content) /\ <<>> \in Seq(Second)
        /\ Len(<<>>) = 0 /\ "idle" \in PC
    BY BoundsAssumption DEF PC
  <1>2. Goto(p, "idle")
    BY DEF End
  <1>3. /\ memo' \in [Proc -> 0..MaxTool] /\ found' \in [Proc -> Entry \cup {NoEntry}]
        /\ snap' \in [Proc -> Seq(Second)] /\ saw' \in [Proc -> Seq(Content)]
        /\ used' \in [Proc -> 0..MaxTool] /\ raced' \in [Proc -> BOOLEAN]
        /\ memo'[p] = 0 /\ saw'[p] = <<>> /\ snap'[p] = <<>>
    BY <1>1 DEF TypeOK, End
  <1>4. \A q \in Proc \ {p} :
          /\ memo'[q] = memo[q] /\ found'[q] = found[q] /\ snap'[q] = snap[q]
          /\ saw'[q] = saw[q] /\ used'[q] = used[q] /\ raced'[q] = raced[q]
    BY DEF TypeOK, End
  <1> QED BY <1>1, <1>2, <1>3, <1>4, GotoFacts DEF Local

(* An idle process has nothing to answer for.                              *)
LEMMA IdleNext ==
  ASSUME NEW p \in Proc, pc'[p] = "idle", memo'[p] = 0, Len(saw'[p]) = 0,
         Len(snap'[p]) = 0, ~steady'[p]
  PROVE  ProcInv(p)'
  BY DEF ProcInv, WalkInv, SawInv, FoundInv, SteadyInv, Walking, Storing

(* A run begins in vain or on a miss.                                      *)
LEMMA RunFacts ==
  ASSUME IInv, NEW p \in Proc, Run(p), memo' \in [Proc -> 0..MaxTool],
         pc[p] \in {"hashing", "fresh"},
         UNCHANGED <<disk, store, runs, snap, saw>>,
         found' = found,
         \A q \in Proc \ {p} : memo'[q] = memo[q]
  PROVE  IInv'
  <1>0. TypeOK
    BY DEF IInv
  <1>1. Goto(p, "running") /\ "running" \in PC
    BY DEF Run, PC
  <1>2. /\ tool \in 0..MaxTool /\ tool # 0
    BY <1>0, BoundsAssumption DEF TypeOK
  <1>3. /\ used' \in [Proc -> 0..MaxTool] /\ used'[p] = tool
        /\ raced' \in [Proc -> BOOLEAN]
        /\ raced'[p] <=> memo'[p] \notin {0, tool}
        /\ settled' = settled /\ steady' = steady
        /\ \A q \in Proc \ {p} : used'[q] = used[q] /\ raced'[q] = raced[q]
    BY <1>0, <1>2 DEF Run, TypeOK
  <1>4. TypeOK'
    <2>1. DiskType' /\ StoreType' /\ runs' \in 0..MaxMoves
      BY <1>0, Types DEF DiskType, StoreType, disk, store
    <2>2. KnowType' /\ HistoryType'
      BY <1>0, <1>3, Types DEF KnowType, HistoryType
    <2>3. WalkType'
      BY <1>0, <1>1, GotoFacts DEF WalkType
    <2> QED BY <2>1, <2>2, <2>3, TypesNext
  <1>5. ProcInv(p)'
    <2>1. /\ pc'[p] = "running" /\ done'[p] = 0
          /\ Len(saw'[p]) = 0 /\ Len(snap'[p]) = 0
      BY <1>0, <1>1, GotoFacts DEF IInv, ProcInv, WalkInv
    <2>2. WalkInv(p)'
      BY <1>2, <1>3, <2>1 DEF WalkInv, Walking
    <2>3. SawInv(p)'
      BY <1>3, <2>1 DEF SawInv, disk
    <2>4. FoundInv(p)' /\ SteadyInv(p)'
      BY <1>3, <2>1 DEF FoundInv, SteadyInv, IInv, ProcInv
    <2> QED BY <2>2, <2>3, <2>4 DEF ProcInv
  <1>6. \A q \in Proc \ {p} :
          Local(q) /\ raced'[q] = raced[q] /\ steady'[q] = steady[q]
    BY <1>0, <1>1, <1>3, GotoFacts DEF Local
  <1> QED BY <1>3, <1>4, <1>5, <1>6, QuietStep DEF store


LEMMA GotoType ==
  ASSUME TypeOK, NEW p \in Proc, NEW to \in PC, Goto(p, to)
  PROVE  WalkType'
  BY GotoFacts DEF WalkType

LEMMA BeginKeeps ==
  ASSUME IInv, NEW p \in Proc, Begin(p)
  PROVE  IInv'
  <1>0. TypeOK /\ Goto(p, "hashing") /\ "hashing" \in PC
    BY DEF IInv, Begin, PC
  <1>1. /\ UNCHANGED <<disk, store, memo, found, snap, saw, used, raced, settled>>
        /\ steady' \in [Proc -> BOOLEAN] /\ steady'[p] = settled
        /\ \A q \in Proc \ {p} : steady'[q] = steady[q]
    BY <1>0 DEF Begin, TypeOK
  <1>2. runs' \in 0..MaxMoves
    <2>1. runs \in Nat /\ clock \in Nat /\ runs + clock < MaxMoves /\ runs' = runs + 1
      BY <1>0, BoundsAssumption DEF TypeOK, Begin, MayMove, Second
    <2> QED BY <2>1, BoundsAssumption
  <1>3. TypeOK'
    <2>1. DiskType' /\ StoreType' /\ KnowType' /\ HistoryType'
      BY <1>0, <1>1, Types DEF DiskType, StoreType, KnowType, HistoryType, disk, store
    <2>2. WalkType'
      BY <1>0, GotoType
    <2> QED BY <1>2, <2>1, <2>2, TypesNext
  <1>4. ProcInv(p)'
    <2>1. /\ pc'[p] = "hashing" /\ done'[p] = 0 /\ Len(walk'[p]) = 0
          /\ memo'[p] = 0 /\ Len(saw'[p]) = 0 /\ Len(snap'[p]) = 0
      BY <1>0, <1>1, GotoFacts DEF IInv, ProcInv, WalkInv, Begin
    <2> QED BY <1>1, <2>1
         DEF ProcInv, WalkInv, SawInv, FoundInv, SteadyInv, Walking, Storing
  <1>5. \A q \in Proc \ {p} :
          Local(q) /\ raced'[q] = raced[q] /\ steady'[q] = steady[q]
    BY <1>0, <1>1, GotoFacts DEF Local
  <1> QED BY <1>1, <1>3, <1>4, <1>5, QuietStep DEF store

(* The step of a walk that reads a file: hashing and accepting.            *)
LEMMA WalkKeeps ==
  ASSUME IInv, NEW p \in Proc, Hash(p) \/ Accept(p)
  PROVE  IInv'
  <1>0. TypeOK /\ ProcInv(p)
    BY DEF IInv
  <1>a. /\ pc[p] \in {"hashing", "rehashing", "fresh"} /\ More(p)
        /\ done' = [done EXCEPT ![p] = @ + 1]
        /\ walk' = [walk EXCEPT ![p] = Append(@, content[NextFile(p)])]
        /\ UNCHANGED <<disk, store, runs, pc, memo, found, snap, saw, used, history>>
    BY DEF Hash, Accept
  <1>b. /\ NextFile(p) \in File /\ done[p] + 1 \in 0..Files /\ NextFile(p) = done[p] + 1
        /\ done[p] \in Nat
    BY <1>0, <1>a, NextFileFacts
  <1>c. walk[p] \in Seq(Content) /\ content[NextFile(p)] \in Content
    BY <1>0, <1>b DEF TypeOK
  <1>d. /\ walk'[p] \in Seq(Content) /\ Len(walk'[p]) = Len(walk[p]) + 1
        /\ \A i \in 1..Len(walk[p]) : walk'[p][i] = walk[p][i]
        /\ walk'[p][Len(walk[p]) + 1] = content[NextFile(p)]
    BY <1>0, <1>a, <1>c, Appended DEF TypeOK
  <1>e. /\ done' \in [Proc -> 0..Files] /\ walk' \in [Proc -> Seq(Content)]
        /\ done'[p] = done[p] + 1
        /\ \A q \in Proc \ {p} : done'[q] = done[q] /\ walk'[q] = walk[q]
    BY <1>0, <1>a, <1>b, <1>d DEF TypeOK
  <1>1. TypeOK'
    <2>1. DiskType' /\ StoreType' /\ KnowType' /\ HistoryType' /\ runs' \in 0..MaxMoves
      BY <1>0, <1>a, Types DEF DiskType, StoreType, KnowType, HistoryType, disk, store, history
    <2>2. WalkType'
      BY <1>0, <1>a, <1>e DEF TypeOK, WalkType
    <2> QED BY <2>1, <2>2, TypesNext
  <1>2. ProcInv(p)'
    <2>0. Len(walk[p]) = done[p] /\ Len(walk[p]) \in Nat
      BY <1>0, <1>a, <1>c DEF ProcInv, WalkInv, Walking
    <2>1. WalkInv(p)'
      BY <1>0, <1>a, <1>d, <1>e, <2>0 DEF ProcInv, WalkInv, Walking, Storing
    <2>2. SawInv(p)' /\ FoundInv(p)'
      BY <1>0, <1>a DEF ProcInv, SawInv, FoundInv, Sound, disk, history
    <2>3. SteadyInv(p)'
      <3> SUFFICES ASSUME steady[p]
                   PROVE  /\ settled'
                          /\ pc[p] = "hashing" =>
                               \A f \in 1..Len(walk'[p]) : walk'[p][f] = content[f]
                          /\ pc[p] = "fresh" => found[p].inputs = mtime
        BY <1>a DEF SteadyInv, disk, history
      <3>1. settled' /\ (pc[p] = "fresh" => found[p].inputs = mtime)
        BY <1>0, <1>a DEF ProcInv, SteadyInv, history
      <3>2. ASSUME pc[p] = "hashing", NEW f \in 1..Len(walk'[p])
            PROVE  walk'[p][f] = content[f]
        <4>1. CASE f \in 1..Len(walk[p])
          BY <1>0, <1>d, <3>2, <4>1 DEF ProcInv, SteadyInv
        <4>2. CASE f = Len(walk[p]) + 1
          BY <1>b, <1>d, <2>0, <4>2
        <4> QED BY <1>d, <2>0, <3>2, <4>1, <4>2
      <3> QED BY <3>1, <3>2
    <2> QED BY <2>1, <2>2, <2>3 DEF ProcInv
  <1>3. \A q \in Proc \ {p} :
          Local(q) /\ raced'[q] = raced[q] /\ steady'[q] = steady[q]
    BY <1>a, <1>e DEF Local, history
  <1> QED BY <1>1, <1>2, <1>3, <1>a, QuietStep DEF store, history

(* The key of a process that is done hashing, if nothing came in between.  *)
LEMMA KeyIsCurrent ==
  ASSUME IInv, NEW p \in Proc, pc[p] = "hashing", ~More(p), steady[p]
  PROVE  DeriveKey(p) = Current /\ Current \in DOMAIN entries
  <1>1. /\ walk[p] \in Seq(Content) /\ Len(walk[p]) = Files /\ memo[p] = 0
        /\ content \in [File -> Content] /\ settled
        /\ \A f \in 1..Len(walk[p]) : walk[p][f] = content[f]
    BY NextFileFacts DEF IInv, TypeOK, ProcInv, WalkInv, SteadyInv, Walking
  <1>2. walk[p] = content
    BY <1>1, FilesAssumption DEF File
  <1> QED BY <1>1, <1>2 DEF DeriveKey, ToolHash, Current, IInv, SettledInv

LEMMA GetKeeps ==
  ASSUME IInv, NEW p \in Proc, Get(p)
  PROVE  IInv'
  <1> DEFINE key == DeriveKey(p)
  <1>0. TypeOK /\ ProcInv(p) /\ pc[p] = "hashing" /\ ~More(p) /\ "fresh" \in PC
    BY DEF IInv, Get, PC
  <1>1. /\ memo[p] = 0 /\ tool \in 0..MaxTool /\ key.tool = tool
        /\ memo' = [memo EXCEPT ![p] = tool]
    BY <1>0, BoundsAssumption DEF Get, ProcInv, WalkInv, DeriveKey, ToolHash, TypeOK
  <1>2. /\ memo' \in [Proc -> 0..MaxTool] /\ memo'[p] = tool
        /\ \A q \in Proc \ {p} : memo'[q] = memo[q]
    BY <1>0, <1>1 DEF TypeOK
  <1>3. CASE StoreHas(key)
    <2> HIDE DEF key
    <2>1. /\ found' = [found EXCEPT ![p] = entries[key]] /\ Goto(p, "fresh")
          /\ UNCHANGED <<disk, store, runs, snap, saw, used, history>>
      BY <1>3 DEF Get, key
    <2>2. key \in DOMAIN entries /\ entries[key] \in Entry /\ Sound(entries[key], tool)
      BY <1>0, <1>1, <1>3 DEF StoreHas, TypeOK, IInv, StoreInv
    <2>3. /\ found' \in [Proc -> Entry \cup {NoEntry}] /\ found'[p] = entries[key]
          /\ \A q \in Proc \ {p} : found'[q] = found[q]
      BY <1>0, <2>1, <2>2 DEF TypeOK
    <2>4. TypeOK'
      <3>1. DiskType' /\ StoreType' /\ HistoryType' /\ runs' \in 0..MaxMoves
        BY <1>0, <2>1, Types DEF DiskType, StoreType, HistoryType, disk, store, history
      <3>2. KnowType'
        BY <1>0, <1>2, <2>1, <2>3, Types DEF KnowType
      <3>3. WalkType'
        BY <1>0, <2>1, GotoType
      <3> QED BY <3>1, <3>2, <3>3, TypesNext
    <2>5. ProcInv(p)'
      <3>1. /\ pc'[p] = "fresh" /\ done'[p] = 0 /\ Len(walk'[p]) = 0
            /\ Len(saw'[p]) = 0 /\ Len(snap'[p]) = 0
        BY <1>0, <2>1, GotoFacts DEF ProcInv, WalkInv
      <3>2. WalkInv(p)' /\ SawInv(p)'
        BY <3>1 DEF WalkInv, SawInv, Walking, Storing
      <3>3. FoundInv(p)'
        BY <1>2, <2>1, <2>2, <2>3 DEF FoundInv, Sound, disk
      <3>4. steady[p] => settled /\ entries[key].inputs = mtime
        BY <1>0, KeyIsCurrent DEF IInv, SettledInv, ProcInv, SteadyInv, key
      <3>5. SteadyInv(p)'
        BY <2>1, <2>3, <3>1, <3>4 DEF SteadyInv, disk, history
      <3> QED BY <3>2, <3>3, <3>5 DEF ProcInv
    <2>6. \A q \in Proc \ {p} :
            Local(q) /\ raced'[q] = raced[q] /\ steady'[q] = steady[q]
      BY <1>0, <1>2, <2>1, <2>3, GotoFacts DEF Local, history
    <2> QED BY <2>1, <2>4, <2>5, <2>6, QuietStep DEF store, history
  <1>4. CASE ~StoreHas(key)
    <2>1. Run(p) /\ UNCHANGED <<disk, store, runs, snap, saw, found>>
      BY <1>4 DEF Get
    <2> QED BY <1>0, <1>2, <2>1, RunFacts
  <1> QED BY <1>3, <1>4


LEMMA MissKeeps ==
  ASSUME IInv, NEW p \in Proc, LookupFails(p) \/ Stale(p)
  PROVE  IInv'
  <1>1. /\ pc[p] \in {"hashing", "fresh"} /\ Run(p) /\ UNCHANGED memo
        /\ UNCHANGED <<disk, store, runs, snap, saw>> /\ found' = found
    BY DEF LookupFails, Stale
  <1>2. memo' \in [Proc -> 0..MaxTool]
    BY <1>1 DEF IInv, TypeOK
  <1> QED BY <1>1, <1>2, RunFacts

(* A hit, a failure or a crash ends a process.                             *)
LEMMA EndKeeps ==
  ASSUME IInv, NEW p \in Proc, Hit(p) \/ Fails(p) \/ Crash(p)
  PROVE  IInv'
  <1>0. TypeOK
    BY DEF IInv
  <1>1. /\ End(p) /\ steady' = [steady EXCEPT ![p] = FALSE]
        /\ UNCHANGED <<disk, store, runs, settled>>
    BY DEF Hit, Fails, Crash
  <1>2. /\ steady' \in [Proc -> BOOLEAN] /\ ~steady'[p]
        /\ \A q \in Proc \ {p} : steady'[q] = steady[q]
    BY <1>0, <1>1 DEF TypeOK
  <1>3. TypeOK'
    <2>1. DiskType' /\ StoreType' /\ runs' \in 0..MaxMoves
      BY <1>0, <1>1, Types DEF DiskType, StoreType, disk, store
    <2>2. WalkType' /\ KnowType' /\ raced' \in [Proc -> BOOLEAN]
      BY <1>0, <1>1, EndFacts DEF WalkType, KnowType
    <2>3. HistoryType'
      BY <1>0, <1>1, <1>2, <2>2, Types DEF HistoryType
    <2> QED BY <2>1, <2>2, <2>3, TypesNext
  <1>4. ProcInv(p)'
    BY <1>0, <1>1, <1>2, EndFacts, IdleNext
  <1>5. \A q \in Proc \ {p} :
          Local(q) /\ raced'[q] = raced[q] /\ steady'[q] = steady[q]
    BY <1>0, <1>1, <1>2, EndFacts
  <1> QED BY <1>1, <1>3, <1>4, <1>5, QuietStep DEF store

LEMMA CheckKeeps ==
  ASSUME IInv, NEW p \in Proc, Check(p)
  PROVE  IInv'
  <1> DEFINE f == NextFile(p)
  <1>0. TypeOK /\ ProcInv(p) /\ ClockInv /\ StoreInv /\ pc[p] = "running" /\ More(p)
    BY DEF IInv, Check
  <1>1. /\ f \in File /\ done[p] + 1 \in 0..Files /\ f = done[p] + 1 /\ done[p] \in Nat
    BY <1>0, NextFileFacts
  <1>2. /\ saw[p] \in Seq(Content) /\ Len(saw[p]) = done[p] /\ Len(snap[p]) = 0
        /\ used[p] # 0
    BY <1>0 DEF TypeOK, ProcInv, WalkInv, Storing
  <1>3. PICK c \in Content :
          /\ saw' = [saw EXCEPT ![p] = Append(@, c)]
          /\ \/ c = content[f] /\ UNCHANGED <<disk, history>>
             \/ Write(f, c) /\ Disturb(p)
    BY <1>0, <1>1 DEF Check, TypeOK
  <1>4. /\ done' = [done EXCEPT ![p] = @ + 1]
        /\ UNCHANGED <<store, runs, pc, walk, memo, found, snap, used>>
    BY DEF Check
  <1> HIDE DEF f
  <1>5. /\ saw'[p] \in Seq(Content) /\ Len(saw'[p]) = done[p] + 1
        /\ \A i \in 1..done[p] : saw'[p][i] = saw[p][i]
        /\ saw'[p][f] = c
    BY <1>0, <1>1, <1>2, <1>3, Appended DEF TypeOK
  <1>6. /\ done' \in [Proc -> 0..Files] /\ saw' \in [Proc -> Seq(Content)]
        /\ done'[p] = done[p] + 1
        /\ \A q \in Proc \ {p} : done'[q] = done[q] /\ saw'[q] = saw[q]
    BY <1>0, <1>1, <1>3, <1>4, <1>5 DEF TypeOK
  <1>7. DiskType' /\ HistoryType' /\ ClockInv'
    <2>1. CASE UNCHANGED <<disk, history>>
      BY <1>0, <2>1, Types DEF DiskType, HistoryType, disk, history, ClockInv
    <2>2. CASE Write(f, c) /\ Disturb(p)
      <3>1. DiskType' /\ ClockInv'
        BY <1>0, <1>1, <2>2, WriteType DEF DiskType, TypeOK, f
      <3>2. HistoryType'
        BY <1>0, <2>2 DEF HistoryType, Disturb, TypeOK
      <3> QED BY <3>1, <3>2
    <2> QED BY <1>3, <2>1, <2>2
  <1>8. TypeOK'
    <2>1. StoreType' /\ runs' \in 0..MaxMoves /\ WalkType' /\ KnowType'
      BY <1>0, <1>4, <1>6, Types DEF StoreType, WalkType, KnowType, store
    <2> QED BY <1>7, <2>1, TypesNext
  <1>9. \A q \in Proc \ {p} : Local(q)
    BY <1>4, <1>6 DEF Local
  <1>10. /\ raced'[p] = raced[p] /\ tool' = tool
         /\ content'[f] = c /\ (\A g \in File \ {f} : content'[g] = content[g])
         /\ steady'[p] => steady[p] /\ settled'
    <2>1. CASE c = content[f] /\ UNCHANGED <<disk, history>>
      BY <1>0, <2>1 DEF disk, history, ProcInv, SteadyInv
    <2>2. CASE Write(f, c) /\ Disturb(p)
      BY <1>0, <1>1, <2>2 DEF Write, Disturb, TypeOK
    <2> QED BY <1>3, <2>1, <2>2
  <1>11. ProcInv(p)'
    <2>0. pc'[p] = "running" /\ snap' = snap /\ memo' = memo /\ used' = used
      BY <1>0, <1>4
    <2>1. WalkInv(p)'
      BY <1>2, <1>5, <1>6, <2>0 DEF WalkInv, Walking
    <2>2. SawInv(p)'
      <3> SUFFICES ASSUME ~raced[p]
                   PROVE  /\ used[p] = tool /\ memo[p] \in {0, tool}
                          /\ \A g \in 1..Len(saw'[p]) : saw'[p][g] = content'[g]
                          /\ \A g \in 1..Len(snap[p]) : snap[p][g] = mtime'[g]
        BY <1>10, <2>0 DEF SawInv
      <3>1. /\ used[p] = tool /\ memo[p] \in {0, tool}
            /\ \A g \in 1..done[p] : saw[p][g] = content[g]
        BY <1>0, <1>2 DEF ProcInv, SawInv, Storing
      <3>2. ASSUME NEW g \in 1..Len(saw'[p])
            PROVE  saw'[p][g] = content'[g]
        <4>1. CASE g = f
          BY <1>5, <1>10, <4>1
        <4>2. CASE g # f
          <5>1. g \in 1..done[p] /\ g \in File \ {f}
            BY <1>1, <1>5, <3>2, <4>2, FilesAssumption DEF File
          <5> QED BY <1>5, <1>10, <3>1, <5>1
        <4> QED BY <4>1, <4>2
      <3> QED BY <1>2, <3>1, <3>2
    <2>3. FoundInv(p)' /\ SteadyInv(p)'
      BY <1>10, <2>0 DEF FoundInv, SteadyInv
    <2> QED BY <2>1, <2>2, <2>3 DEF ProcInv
  <1>12. CASE UNCHANGED <<disk, history>>
    <2>1. \A q \in Proc \ {p} : raced'[q] = raced[q] /\ steady'[q] = steady[q]
      BY <1>12 DEF history
    <2> QED BY <1>4, <1>8, <1>9, <1>11, <1>12, <2>1, QuietStep DEF store, history
  <1>13. CASE Write(f, c) /\ Disturb(p)
    <2>1. StoreInv' /\ SettledInv'
      BY <1>0, <1>1, <1>4, <1>13, WriteStore DEF store, Disturb
    <2>2. ASSUME NEW q \in Proc \ {p} PROVE ProcInv(q)'
      <3>1. ProcInv(q) /\ Local(q) /\ q # p
        BY <1>9 DEF IInv
      <3> QED BY <1>0, <1>1, <1>13, <3>1, WriteOther
    <2> QED BY <1>7, <1>8, <1>11, <2>1, <2>2 DEF IInv
  <1> QED BY <1>3, <1>12, <1>13

LEMMA PassesKeeps ==
  ASSUME IInv, NEW p \in Proc, Passes(p)
  PROVE  IInv'
  <1>0. /\ TypeOK /\ ProcInv(p) /\ pc[p] = "running" /\ ~More(p) /\ "stating" \in PC
        /\ Goto(p, "stating")
        /\ UNCHANGED <<disk, store, runs, memo, found, snap, saw, used, history>>
    BY DEF IInv, Passes, PC
  <1>1. TypeOK'
    <2>1. DiskType' /\ StoreType' /\ KnowType' /\ HistoryType' /\ runs' \in 0..MaxMoves
      BY <1>0, Types DEF DiskType, StoreType, KnowType, HistoryType, disk, store, history
    <2>2. WalkType'
      BY <1>0, GotoType
    <2> QED BY <2>1, <2>2, TypesNext
  <1>2. /\ pc'[p] = "stating" /\ done'[p] = 0
        /\ \A q \in Proc \ {p} :
             Local(q) /\ raced'[q] = raced[q] /\ steady'[q] = steady[q]
    BY <1>0, GotoFacts DEF Local, history
  <1>3. Len(saw[p]) = Files /\ Len(snap[p]) = 0 /\ used[p] # 0
    BY <1>0, NextFileFacts DEF ProcInv, WalkInv, Storing
  <1>4. ProcInv(p)'
    <2>1. WalkInv(p)'
      BY <1>0, <1>2, <1>3 DEF WalkInv, Walking
    <2>2. SawInv(p)'
      BY <1>0 DEF ProcInv, SawInv, Storing, disk, history
    <2>3. FoundInv(p)' /\ SteadyInv(p)'
      BY <1>0, <1>2 DEF FoundInv, SteadyInv, ProcInv, history
    <2> QED BY <2>1, <2>2, <2>3 DEF ProcInv
  <1> QED BY <1>0, <1>1, <1>2, <1>4, QuietStep DEF store, history


LEMMA StatKeeps ==
  ASSUME IInv, NEW p \in Proc, Stat(p)
  PROVE  IInv'
  <1> DEFINE f == NextFile(p)
  <1>0. /\ TypeOK /\ ProcInv(p) /\ pc[p] = "stating" /\ More(p) /\ "rehashing" \in PC
        /\ snap' = [snap EXCEPT ![p] = Append(@, mtime[f])]
        /\ UNCHANGED <<disk, store, runs, memo, found, saw, used, history>>
    BY DEF IInv, Stat, PC
  <1>1. /\ f \in File /\ done[p] + 1 \in 0..Files /\ f = done[p] + 1 /\ done[p] \in Nat
    BY <1>0, NextFileFacts
  <1>2. /\ snap[p] \in Seq(Second) /\ Len(snap[p]) = done[p] /\ Len(saw[p]) = Files
        /\ used[p] # 0 /\ mtime[f] \in Second
    BY <1>0, <1>1 DEF TypeOK, ProcInv, WalkInv, Storing
  <1> HIDE DEF f
  <1>4. /\ snap'[p] \in Seq(Second) /\ Len(snap'[p]) = done[p] + 1
        /\ \A i \in 1..done[p] : snap'[p][i] = snap[p][i]
        /\ snap'[p][done[p] + 1] = mtime[done[p] + 1]
        /\ \A q \in Proc \ {p} : snap'[q] = snap[q]
        /\ snap' \in [Proc -> Seq(Second)]
    BY <1>0, <1>1, <1>2, Appended DEF TypeOK
  <1>5. /\ WalkType'
        /\ \/ pc'[p] = "stating" /\ done'[p] = done[p] + 1
           \/ pc'[p] = "rehashing" /\ done[p] + 1 = Files /\ done'[p] = 0 /\ Len(walk'[p]) = 0
        /\ \A q \in Proc \ {p} :
             pc'[q] = pc[q] /\ done'[q] = done[q] /\ walk'[q] = walk[q]
    <2>1. CASE f + 1 \in File
      <3>1. done' = [done EXCEPT ![p] = @ + 1] /\ UNCHANGED <<pc, walk>>
        BY <2>1 DEF Stat, f
      <3> QED BY <1>0, <1>1, <3>1 DEF TypeOK, WalkType
    <2>2. CASE f + 1 \notin File
      <3>1. Goto(p, "rehashing")
        BY <2>2 DEF Stat, f
      <3>2. done[p] + 1 = Files
        BY <1>1, <2>2, FilesAssumption DEF File
      <3> QED BY <1>0, <3>1, <3>2, GotoFacts, GotoType
    <2> QED BY <2>1, <2>2
  <1>6. TypeOK'
    <2>1. DiskType' /\ StoreType' /\ HistoryType' /\ runs' \in 0..MaxMoves
      BY <1>0, Types DEF DiskType, StoreType, HistoryType, disk, store, history
    <2>2. KnowType'
      BY <1>0, <1>4, Types DEF KnowType
    <2> QED BY <1>5, <2>1, <2>2, TypesNext
  <1>7. \A q \in Proc \ {p} :
          Local(q) /\ raced'[q] = raced[q] /\ steady'[q] = steady[q]
    BY <1>0, <1>4, <1>5 DEF Local, history
  <1>8. ProcInv(p)'
    <2>1. WalkInv(p)'
      BY <1>0, <1>1, <1>2, <1>4, <1>5 DEF WalkInv, Walking
    <2>2. ASSUME ~raced[p], NEW g \in 1..Len(snap'[p])
          PROVE  snap'[p][g] = mtime[g]
      <3>1. \A i \in 1..done[p] : snap[p][i] = mtime[i]
        BY <1>0, <1>2, <2>2 DEF ProcInv, SawInv, Storing
      <3>2. g \in 1..done[p] \/ g = done[p] + 1
        BY <1>1, <1>4, <2>2
      <3> QED BY <1>4, <3>1, <3>2
    <2>3. SawInv(p)'
      BY <1>0, <2>2 DEF ProcInv, SawInv, Storing, disk, history
    <2>4. FoundInv(p)' /\ SteadyInv(p)'
      BY <1>0, <1>5 DEF FoundInv, SteadyInv, ProcInv, history
    <2> QED BY <2>1, <2>3, <2>4 DEF ProcInv
  <1> QED BY <1>0, <1>6, <1>7, <1>8, QuietStep DEF store, history

LEMMA CreateKeeps ==
  ASSUME IInv, NEW p \in Proc, Create(p)
  PROVE  IInv'
  <1>0. /\ TypeOK /\ ProcInv(p) /\ pc[p] = "rehashing" /\ ~More(p) /\ "persisting" \in PC
        /\ pc' = [pc EXCEPT ![p] = "persisting"]
        /\ memo' = [memo EXCEPT ![p] = ToolHash(p)] /\ temps' = temps \cup {p}
        /\ UNCHANGED <<disk, entries, runs, done, walk, found, snap, saw, used, history>>
    BY DEF IInv, Create, PC
  <1>1. ToolHash(p) \in 0..MaxTool
    BY <1>0, BoundsAssumption DEF ToolHash, TypeOK
  <1>2. /\ memo' \in [Proc -> 0..MaxTool] /\ memo'[p] = ToolHash(p)
        /\ pc' \in [Proc -> PC] /\ pc'[p] = "persisting"
        /\ \A q \in Proc \ {p} : memo'[q] = memo[q] /\ pc'[q] = pc[q]
    BY <1>0, <1>1 DEF TypeOK
  <1>3. TypeOK'
    <2>1. DiskType' /\ StoreType' /\ HistoryType' /\ runs' \in 0..MaxMoves
      BY <1>0, Types DEF DiskType, StoreType, HistoryType, disk, history
    <2>2. WalkType' /\ KnowType'
      BY <1>0, <1>2, Types DEF WalkType, KnowType
    <2> QED BY <2>1, <2>2, TypesNext
  <1>4. ProcInv(p)'
    <2>1. WalkInv(p)'
      BY <1>0, <1>2, NextFileFacts DEF ProcInv, WalkInv, Walking, Storing
    <2>2. SawInv(p)'
      BY <1>0, <1>2 DEF ProcInv, SawInv, Storing, ToolHash, disk, history
    <2>3. FoundInv(p)' /\ SteadyInv(p)'
      BY <1>0, <1>2 DEF FoundInv, SteadyInv, ProcInv, history
    <2> QED BY <2>1, <2>2, <2>3 DEF ProcInv
  <1>5. \A q \in Proc \ {p} :
          Local(q) /\ raced'[q] = raced[q] /\ steady'[q] = steady[q]
    BY <1>0, <1>2 DEF Local, history
  <1> QED BY <1>0, <1>3, <1>4, <1>5, QuietStep DEF history

(* What a process stores is of the key and the files that it names.        *)
LEMMA PersistKeeps ==
  ASSUME IInv, NEW p \in Proc, Persist(p)
  PROVE  IInv'
  <1> DEFINE key == DeriveKey(p)
             entry == [inputs |-> snap[p], saw |-> saw[p], used |-> used[p],
                       raced |-> raced[p]]
  <1>0. /\ TypeOK /\ ProcInv(p) /\ ClockInv /\ StoreInv /\ SettledInv
        /\ pc[p] = "persisting" /\ End(p) /\ temps' = temps \ {p}
        /\ UNCHANGED <<disk, runs>>
        /\ steady' = [q \in Proc |-> q # p /\ steady[q] /\ settled']
    BY DEF IInv, Persist
  <1>1. \/ /\ entries' = [k \in DOMAIN entries \cup {key} |->
                            IF k = key THEN entry ELSE entries[k]]
           /\ settled' = IF key = Current THEN ~raced[p] ELSE settled
        \/ UNCHANGED <<entries, settled>>
    BY DEF Persist, Current
  <1>2. /\ Len(walk[p]) = Files /\ Len(saw[p]) = Files /\ Len(snap[p]) = Files
        /\ used[p] # 0
        /\ walk[p] \in Seq(Content) /\ saw[p] \in Seq(Content) /\ snap[p] \in Seq(Second)
        /\ used[p] \in 0..MaxTool /\ raced[p] \in BOOLEAN
    BY <1>0 DEF ProcInv, WalkInv, Walking, Storing, TypeOK
  <1>3. /\ walk[p] \in [File -> Content] /\ saw[p] \in [File -> Content]
        /\ snap[p] \in [File -> Second] /\ used[p] \in 1..MaxTool
    BY <1>2, FilesAssumption, BoundsAssumption DEF File
  <1>4. ToolHash(p) \in 1..MaxTool
    BY <1>0, BoundsAssumption DEF ToolHash, TypeOK
  <1>5. key \in Key /\ key.tool = ToolHash(p) /\ entry \in Entry
    BY <1>2, <1>3, <1>4 DEF DeriveKey, Key, Entry
  <1>6. ~raced[p] => Sound(entry, key.tool) /\ entry.inputs = mtime
    <2> SUFFICES ASSUME ~raced[p] PROVE Sound(entry, key.tool) /\ entry.inputs = mtime
      OBVIOUS
    <2>1. /\ used[p] = tool /\ memo[p] \in {0, tool}
          /\ \A f \in File : saw[p][f] = content[f] /\ snap[p][f] = mtime[f]
      BY <1>0, <1>2 DEF ProcInv, SawInv, Storing, File
    <2>2. snap[p] = mtime
      BY <1>0, <1>3, <2>1 DEF TypeOK
    <2>3. used[p] = key.tool
      BY <1>5, <2>1 DEF ToolHash
    <2> QED BY <1>0, <2>1, <2>2, <2>3 DEF Sound, ClockInv
  <1>7. Sound(entry, key.tool) /\ (entry.raced <=> raced[p])
    BY <1>2, <1>6 DEF Sound
  <1> HIDE DEF key, entry
  <1>8. StoreType' /\ settled' \in BOOLEAN
    BY <1>0, <1>1, <1>2, <1>5 DEF TypeOK, StoreType
  <1>9. TypeOK'
    <2>1. DiskType' /\ runs' \in 0..MaxMoves
      BY <1>0, Types DEF DiskType, disk
    <2>2. WalkType' /\ KnowType' /\ raced' \in [Proc -> BOOLEAN]
      BY <1>0, EndFacts DEF WalkType, KnowType
    <2>3. HistoryType'
      BY <1>0, <1>8, <2>2 DEF HistoryType, TypeOK
    <2> QED BY <1>8, <2>1, <2>2, <2>3, TypesNext
  <1>10. ClockInv' /\ StoreInv'
    <2>1. ASSUME NEW k \in DOMAIN entries' PROVE Sound(entries'[k], k.tool)
      BY <1>0, <1>1, <1>7 DEF StoreInv
    <2> QED BY <1>0, <2>1 DEF ClockInv, StoreInv, Sound, disk
  <1>11. SettledInv'
    <2>1. Current' = Current /\ mtime' = mtime
      BY <1>0 DEF Current, disk
    <2>2. settled' => Current \in DOMAIN entries' /\ entries'[Current].inputs = mtime
      BY <1>0, <1>1, <1>6 DEF SettledInv
    <2> QED BY <2>1, <2>2 DEF SettledInv
  <1>12. ASSUME NEW q \in Proc PROVE ProcInv(q)'
    <2>1. CASE q = p
      BY <1>0, <2>1, EndFacts, IdleNext
    <2>2. CASE q # p
      <3>1. Local(q) /\ raced'[q] = raced[q] /\ (steady'[q] => steady[q] /\ settled')
        BY <1>0, <2>2, EndFacts
      <3> QED BY <1>0, <3>1, QuietOther DEF IInv
    <2> QED BY <2>1, <2>2
  <1> QED BY <1>9, <1>10, <1>11, <1>12 DEF IInv

-----------------------------------------------------------------------------
(* The world.                                                              *)

LEMMA SaveKeeps ==
  ASSUME IInv, NEW f \in File, NEW c \in Content, Save(f, c)
  PROVE  IInv'
  <1>0. /\ TypeOK /\ ClockInv /\ StoreInv /\ Write(f, c) /\ Disturb(0)
        /\ UNCHANGED <<store, runs, pc, local>>
    BY DEF IInv, Save
  <1>1. TypeOK' /\ ClockInv'
    <2>1. DiskType' /\ ClockInv'
      BY <1>0, WriteType DEF DiskType, TypeOK
    <2>2. HistoryType'
      BY <1>0 DEF HistoryType, Disturb, TypeOK
    <2>3. StoreType' /\ runs' \in 0..MaxMoves /\ WalkType' /\ KnowType'
      BY <1>0, Types DEF StoreType, WalkType, KnowType, store, local
    <2> QED BY <2>1, <2>2, <2>3, TypesNext
  <1>2. StoreInv' /\ SettledInv'
    BY <1>0, WriteStore DEF store, Disturb
  <1>3. ASSUME NEW q \in Proc PROVE ProcInv(q)'
    <2>1. q # 0 /\ Local(q) /\ ProcInv(q)
      BY <1>0, ProcAssumption DEF Local, local, IInv
    <2> QED BY <1>0, <2>1, WriteOther
  <1> QED BY <1>1, <1>2, <1>3 DEF IInv

LEMMA UpgradeKeeps ==
  ASSUME IInv, Upgrade
  PROVE  IInv'
  <1>0. /\ TypeOK /\ tool < MaxTool /\ tool' = tool + 1 /\ Disturb(0)
        /\ UNCHANGED <<content, mtime, clock, store, runs, pc, local>>
    BY DEF IInv, Upgrade
  <1>1. TypeOK'
    <2>1. tool' \in 1..MaxTool
      BY <1>0, BoundsAssumption DEF TypeOK
    <2>2. DiskType'
      BY <1>0, <2>1, Types DEF DiskType
    <2>3. HistoryType'
      BY <1>0 DEF HistoryType, Disturb, TypeOK
    <2>4. StoreType' /\ runs' \in 0..MaxMoves /\ WalkType' /\ KnowType'
      BY <1>0, Types DEF StoreType, WalkType, KnowType, store, local
    <2> QED BY <2>2, <2>3, <2>4, TypesNext
  <1>2. ClockInv' /\ StoreInv' /\ SettledInv'
    BY <1>0 DEF IInv, ClockInv, StoreInv, SettledInv, Sound, store, Disturb
  <1>3. ASSUME NEW q \in Proc PROVE ProcInv(q)'
    <2>0. Local(q) /\ ProcInv(q)
      BY <1>0 DEF Local, local, IInv
    <2>1. (raced'[q] <=> raced[q] \/ pc[q] \in Storing) /\ ~steady'[q]
      BY <1>0, ProcAssumption DEF Disturb
    <2>2. WalkInv(q)'
      BY <2>0 DEF ProcInv, WalkInv, Local
    <2>3. SawInv(q)' /\ SteadyInv(q)'
      BY <2>0, <2>1 DEF SawInv, SteadyInv, Local
    <2>4. FoundInv(q)'
      BY <1>0, <2>0 DEF ProcInv, FoundInv, Sound, Local
    <2> QED BY <2>2, <2>3, <2>4 DEF ProcInv
  <1> QED BY <1>1, <1>2, <1>3 DEF IInv

LEMMA ClearKeeps ==
  ASSUME IInv,
         \/ \E k \in DOMAIN entries : ClearEntry(k)
         \/ \E p \in Proc : ClearTemp(p)
         \/ UNCHANGED vars
  PROVE  IInv'
  <1>0. /\ TypeOK /\ UNCHANGED <<disk, runs, pc, local, raced>>
        /\ temps' \subseteq temps
        /\ \/ entries' = entries /\ settled' = settled /\ steady' = steady
           \/ /\ \E k \in DOMAIN entries :
                   entries' = [j \in DOMAIN entries \ {k} |-> entries[j]]
              /\ settled' = FALSE /\ steady' = [q \in Proc |-> FALSE]
    <2>1. CASE \E k \in DOMAIN entries : ClearEntry(k)
      BY <2>1 DEF IInv, ClearEntry, Restrict
    <2>2. CASE \E p \in Proc : ClearTemp(p)
      BY <2>2 DEF IInv, ClearTemp, history
    <2>3. CASE UNCHANGED vars
      BY <2>3 DEF IInv, vars, store, history
    <2> QED BY <2>1, <2>2, <2>3
  <1>1. TypeOK'
    <2>1. DiskType' /\ runs' \in 0..MaxMoves /\ WalkType' /\ KnowType'
      BY <1>0, Types DEF DiskType, WalkType, KnowType, disk, local
    <2>2. StoreType' /\ HistoryType'
      BY <1>0 DEF StoreType, HistoryType, TypeOK
    <2> QED BY <2>1, <2>2, TypesNext
  <1>2. ClockInv' /\ StoreInv' /\ SettledInv'
    <2>1. ClockInv' /\ SettledInv'
      BY <1>0 DEF IInv, ClockInv, SettledInv, Current, disk
    <2>2. \A k \in DOMAIN entries' : k \in DOMAIN entries /\ entries'[k] = entries[k]
      BY <1>0
    <2>3. StoreInv'
      BY <1>0, <2>2 DEF IInv, StoreInv, Sound, disk
    <2> QED BY <2>1, <2>3
  <1>3. ASSUME NEW q \in Proc PROVE ProcInv(q)'
    <2>1. ProcInv(q) /\ Local(q) /\ raced'[q] = raced[q]
      BY <1>0 DEF IInv, Local, local
    <2>2. steady'[q] => steady[q] /\ settled'
      BY <1>0, <2>1 DEF ProcInv, SteadyInv
    <2> QED BY <1>0, <2>1, <2>2, QuietOther
  <1> QED BY <1>1, <1>2, <1>3 DEF IInv

-----------------------------------------------------------------------------
(* Theorems.                                                               *)

(* The invariant holds in every reachable state.                           *)
THEOREM Invariance == Spec => []IInv
  <1>1. ASSUME IInv, [Next]_vars PROVE IInv'
    BY <1>1, BeginKeeps, WalkKeeps, GetKeeps, MissKeeps, EndKeeps, CheckKeeps,
       PassesKeeps, StatKeeps, CreateKeeps, PersistKeeps, SaveKeeps, UpgradeKeeps,
       ClearKeeps DEF Next, Step
  <1> QED BY <1>1, InitIInv, PTL DEF Spec

(* Variables keep their types (TypeOK).                                    *)
THEOREM TypeCorrect == Spec => []TypeOK
  <1>1. IInv => TypeOK
    BY DEF IInv
  <1> QED BY <1>1, Invariance, PTL

(* Where a process goes, it goes itself.                                   *)
LEMMA OthersStay ==
  ASSUME TypeOK, NEW q \in Proc, NEW p \in Proc \ {q}, Step(q)
  PROVE  pc'[p] = pc[p] /\ done'[p] = done[p]
  <1>a. ASSUME NEW to, Goto(q, to)
        PROVE  pc'[p] = pc[p] /\ done'[p] = done[p]
    BY <1>a DEF TypeOK, Goto
  <1>1. CASE Begin(q) \/ LookupFails(q) \/ Stale(q) \/ Get(q) \/ Passes(q)
    BY <1>1, <1>a DEF Begin, LookupFails, Stale, Get, Passes, Run
  <1>2. CASE Hit(q) \/ Fails(q) \/ Persist(q) \/ Crash(q)
    BY <1>2, <1>a DEF Hit, Fails, Persist, Crash, End
  <1>3. CASE Hash(q) \/ Accept(q) \/ Check(q) \/ Create(q)
    BY <1>3 DEF Hash, Accept, Check, Create, TypeOK
  <1>4. CASE Stat(q)
    BY <1>4, <1>a DEF Stat, TypeOK
  <1> QED BY <1>1, <1>2, <1>3, <1>4 DEF Step

LEMMA OwnStep ==
  ASSUME TypeOK, NEW p \in Proc, [Next]_vars,
         pc[p] \in {"hashing", "fresh"}, pc'[p] # pc[p] \/ done'[p] # done[p]
  PROVE  Hash(p) \/ Get(p) \/ LookupFails(p) \/ Accept(p) \/ Stale(p) \/ Hit(p) \/ Crash(p)
  <1>1. CASE \E q \in Proc : Step(q)
    <2>1. Step(p)
      BY <1>1, OthersStay
    <2> QED BY <2>1 DEF Step, Begin, Check, Passes, Fails, Stat, Create, Persist
  <1>2. CASE \/ \E q \in Proc : ClearTemp(q)
             \/ \E f \in File, c \in Content : Save(f, c)
             \/ \E k \in DOMAIN entries : ClearEntry(k)
             \/ Upgrade \/ UNCHANGED vars
    BY <1>2 DEF ClearTemp, Save, ClearEntry, Upgrade, vars, local
  <1> QED BY <1>1, <1>2 DEF Next

(* HitsAreEarned: a hit accepts only what the command saw when it passed,  *)
(* unless somebody interfered while it ran (lookup.rs 121-163).            *)
THEOREM HitsHold == Spec => HitsAreEarned
  <1>1. ASSUME IInv, [Next]_vars, NEW p \in Proc, Accepts(p), ~found[p].raced
        PROVE  /\ content[NextFile(p)] = found[p].saw[NextFile(p)]
               /\ found[p].used = memo[p]
    <2>0. /\ TypeOK /\ ProcInv(p) /\ pc[p] = "fresh" /\ pc'[p] = "fresh"
          /\ done'[p] # done[p] /\ pc \in [Proc -> PC]
      BY <1>1 DEF IInv, Accepts, TypeOK
    <2>1. Accept(p)
      <3>1. Hash(p) \/ Get(p) \/ LookupFails(p) \/ Accept(p) \/ Stale(p) \/ Hit(p) \/ Crash(p)
        BY <1>1, <2>0, OwnStep
      <3> QED BY <2>0, <3>1 DEF Hash, Get, LookupFails, Stale, Hit, Crash, Run, End, Goto
    <2>2. NextFile(p) \in File /\ mtime[NextFile(p)] = found[p].inputs[NextFile(p)]
      BY <2>0, <2>1, NextFileFacts DEF Accept, Fresh
    <2> QED BY <1>1, <2>0, <2>2 DEF ProcInv, FoundInv, Sound
  <1>2. ASSUME IInv, [Next]_vars
        PROVE  [\A p \in Proc :
                  Accepts(p) /\ ~found[p].raced =>
                    /\ content[NextFile(p)] = found[p].saw[NextFile(p)]
                    /\ found[p].used = memo[p]]_vars
    BY <1>1, <1>2
  <1> QED BY <1>2, Invariance, PTL DEF Spec, HitsAreEarned

(* CleanRecommitHits: what was stored is not looked up in vain as long as  *)
(* nothing was saved, upgraded or cleared (architecture/cache.mdx).        *)
THEOREM CleanRecommitsHit == Spec => CleanRecommitHits
  <1>1. ASSUME IInv, [Next]_vars, NEW p \in Proc, Misses(p)
        PROVE  ~steady[p]
    <2>0. /\ TypeOK /\ ProcInv(p) /\ pc'[p] = "running" /\ pc \in [Proc -> PC]
          /\ pc[p] = "fresh" \/ (pc[p] = "hashing" /\ ~More(p))
      BY <1>1 DEF IInv, Misses, TypeOK
    <2>1. Get(p) \/ Stale(p)
      <3>1. Hash(p) \/ Get(p) \/ LookupFails(p) \/ Accept(p) \/ Stale(p) \/ Hit(p) \/ Crash(p)
        BY <1>1, <2>0, OwnStep
      <3> QED BY <2>0, <3>1 DEF Hash, LookupFails, Accept, Hit, Crash, End, Goto
    <2>2. CASE Get(p)
      <3>1. ~StoreHas(DeriveKey(p)) /\ pc[p] = "hashing" /\ ~More(p)
        BY <2>0, <2>2 DEF Get, Goto
      <3> QED BY <1>1, <3>1, KeyIsCurrent DEF StoreHas
    <2>3. CASE Stale(p)
      BY <2>0, <2>3 DEF Stale, Fresh, ProcInv, SteadyInv
    <2> QED BY <2>1, <2>2, <2>3
  <1>2. ASSUME IInv, [Next]_vars
        PROVE  [\A p \in Proc : Misses(p) => ~steady[p]]_vars
    BY <1>1, <1>2
  <1> QED BY <1>2, Invariance, PTL DEF Spec, CleanRecommitHits
=============================================================================
