--------------------------- MODULE DispatchProofs ---------------------------
(***************************************************************************)
(* Theorems about module Dispatch: the resolution of a configuration, for  *)
(* any files, however they extend each other, then the jobs that are       *)
(* planned and shown, for any jobs, packages, lists of files and options.  *)
(***************************************************************************)
EXTENDS Dispatch, FiniteSetTheorems, SequenceTheorems,
        WellFoundedInduction, TLAPS

Reads(f) == ParseFile(f) # Bad

(* Nothing that a call for f looks at is wrong.                            *)
Sound(f) == \A g \in Below(f) : Reads(g) /\ ~OnACycle(g)

LocalsAgree == Cardinality(LocalsThere) <= 1 /\ \A f \in LocalsThere : Reads(f)

(* What a file holds is a configuration or nothing.                        *)
DiskOK ==
  /\ DOMAIN disk \subseteq File
  /\ \A f \in File : Reads(f) => IsRawConfig(ParseFile(f))
  /\ foreign # None => IsImport(foreign)

(* One activation: the files whose calls have returned are sound.          *)
Frame(frame) ==
  /\ frame = [file |-> frame.file, main |-> frame.main, next |-> frame.next,
              merged |-> frame.merged]
  /\ frame.file \in File /\ Reads(frame.file) /\ frame.main = ParseFile(frame.file)
  /\ frame.next \in 1..Len(frame.main.extends) + 1
  /\ \A k \in 1..frame.next - 1 : Sound(frame.main.extends[k])

(* Every activation is a call of the one before, for the file it is at.    *)
Chained(st) ==
  /\ st # <<>> => st[1].file = Found
  /\ \A i \in 1..Len(st) - 1 :
       /\ st[i].next \in 1..Len(st[i].main.extends)
       /\ st[i + 1].file = st[i].main.extends[st[i].next]

Nested(st) ==
  \A i, k \in 1..Len(st) : i <= k => st[k].file \in Below(st[i].file)

Distinct(st) ==
  \A i, k \in 1..Len(st) : st[i].file = st[k].file => i = k

StackOK(st, sn) ==
  /\ st \in Seq(ToSet(st))
  /\ \A i \in 1..Len(st) : Frame(st[i])
  /\ Chained(st) /\ Nested(st) /\ Distinct(st)
  /\ sn = { st[i].file : i \in 1..Len(st) }

Wrong ==
  \/ \E f \in Below(Found) : OnACycle(f) \/ ~Reads(f)
  \/ ~LocalsAgree

EndOK ==
  /\ pc \in {"start", "resolving", "lowering", "selecting", "planning", "done"}
  /\ pc # "done" => exit = "none"
  /\ pc # "resolving" => stack = <<>> \/ exit = "unresolved"
  /\ pc = "start" => seen = {}
  /\ pc = "resolving" => There # {}
  /\ Resolved => Sound(Found) /\ LocalsAgree
  /\ exit = "unresolved" => Wrong

IInv == DiskOK /\ StackOK(stack, seen) /\ EndOK

-----------------------------------------------------------------------------
(* What a call looks at.                                                   *)

LEMMA ExtendsAreFiles ==
  ASSUME DiskOK, NEW f \in File
  PROVE  /\ ExtendsOf(f) \subseteq File
         /\ Reads(f) => /\ ParseFile(f).extends \in Seq(File)
                        /\ \A k \in 1..Len(ParseFile(f).extends) :
                             ParseFile(f).extends[k] \in ExtendsOf(f)
                        /\ \A g \in ExtendsOf(f) :
                             \E k \in 1..Len(ParseFile(f).extends) :
                               g = ParseFile(f).extends[k]
         /\ ~Reads(f) => ExtendsOf(f) = {}
  <1>1. CASE Reads(f)
    <2>1. ParseFile(f).extends \in Seq(File)
      BY <1>1 DEF DiskOK, IsRawConfig
    <2>2. ExtendsOf(f) = ToSet(ParseFile(f).extends)
      BY <1>1 DEF ExtendsOf, Reads
    <2> DEFINE s == ParseFile(f).extends
    <2>3. s \in Seq(File) /\ ExtendsOf(f) = { s[k] : k \in 1..Len(s) }
      BY <2>1, <2>2 DEF ToSet
    <2> HIDE DEF s
    <2>4. /\ ExtendsOf(f) \subseteq File
          /\ \A k \in 1..Len(s) : s[k] \in ExtendsOf(f)
          /\ \A g \in ExtendsOf(f) : \E k \in 1..Len(s) : g = s[k]
      BY <2>3
    <2> QED BY <1>1, <2>3, <2>4 DEF s
  <1>2. CASE ~Reads(f)
    BY <1>2 DEF ExtendsOf, Reads
  <1> QED BY <1>1, <1>2

LEMMA BelowFacts ==
  ASSUME DiskOK, NEW f \in File
  PROVE  /\ f \in Below(f) /\ Below(f) \subseteq File
         /\ \A g \in Below(f) : ExtendsOf(g) \subseteq Below(f)
  <1>1. ASSUME NEW g \in File PROVE ExtendsOf(g) \subseteq File
    BY ExtendsAreFiles
  <1> QED BY <1>1 DEF Below

LEMMA BelowLeast ==
  ASSUME NEW f \in File, NEW S \in SUBSET File, f \in S,
         \A g \in S : ExtendsOf(g) \subseteq S
  PROVE  Below(f) \subseteq S
  BY DEF Below

(* A call looks at its file, and at what the calls it makes look at.       *)
LEMMA BelowStep ==
  ASSUME DiskOK, NEW f \in File, NEW h \in Below(f)
  PROVE  h = f \/ \E g \in ExtendsOf(f) : h \in Below(g)
  <1> DEFINE S == {f} \cup UNION { Below(g) : g \in ExtendsOf(f) }
  <1>1. ExtendsOf(f) \subseteq File BY ExtendsAreFiles
  <1>2. ASSUME NEW g \in ExtendsOf(f)
        PROVE  /\ g \in Below(g) /\ Below(g) \subseteq File
               /\ \A k \in Below(g) : ExtendsOf(k) \subseteq Below(g)
    BY <1>1, <1>2, BelowFacts
  <1>3. S \in SUBSET File /\ f \in S BY <1>2
  <1>4. \A g \in S : ExtendsOf(g) \subseteq S BY <1>2
  <1>5. Below(f) \subseteq S
    <2> HIDE DEF S
    <2> QED BY <1>3, <1>4, BelowLeast
  <1> QED BY <1>5

(* The state lemmas above speak of what is on the disk alone.              *)
LEMMA SameDisk ==
  ASSUME disk' = disk
  PROVE  /\ \A f : ParseFile(f)' = ParseFile(f) /\ (Reads(f)' <=> Reads(f))
         /\ \A f : ExtendsOf(f)' = ExtendsOf(f) /\ Below(f)' = Below(f)
         /\ \A f : (OnACycle(f)' <=> OnACycle(f)) /\ (Sound(f)' <=> Sound(f))
         /\ There' = There /\ Found' = Found
         /\ LocalsThere' = LocalsThere /\ (LocalsAgree' <=> LocalsAgree)
         /\ Wrong' <=> Wrong
  <1>1. ASSUME NEW f PROVE ParseFile(f)' = ParseFile(f) /\ (Reads(f)' <=> Reads(f))
    BY DEF ParseFile, Reads
  <1>2. ASSUME NEW f PROVE ExtendsOf(f)' = ExtendsOf(f)
    BY <1>1 DEF ExtendsOf
  <1>3. ASSUME NEW f PROVE Below(f)' = Below(f)
    BY <1>2 DEF Below
  <1>4. ASSUME NEW f PROVE OnACycle(f)' <=> OnACycle(f)
    BY <1>2, <1>3 DEF OnACycle
  <1>5. ASSUME NEW f PROVE Sound(f)' <=> Sound(f)
    BY <1>1, <1>3, <1>4 DEF Sound
  <1>6. There' = There /\ LocalsThere' = LocalsThere
    BY DEF There, LocalsThere
  <1>7. Found' = Found
    BY <1>6 DEF Found
  <1>8. LocalsAgree' <=> LocalsAgree
    BY <1>1, <1>6 DEF LocalsAgree
  <1>9. Wrong' <=> Wrong
    BY <1>1, <1>3, <1>4, <1>7, <1>8 DEF Wrong
  <1> QED BY <1>1, <1>2, <1>3, <1>4, <1>5, <1>6, <1>7, <1>8, <1>9

LEMMA SameStack ==
  ASSUME disk' = disk, StackOK(stack', seen')
  PROVE  StackOK(stack, seen)'
  <1>1. ASSUME NEW i \in 1..Len(stack'), Frame(stack'[i]) PROVE Frame(stack[i])'
    BY <1>1, SameDisk DEF Frame
  <1>2. Chained(stack') => Chained(stack)'
    BY SameDisk DEF Chained
  <1>3. Nested(stack') => Nested(stack)'
    BY SameDisk DEF Nested
  <1>4. Distinct(stack') => Distinct(stack)'
    BY DEF Distinct
  <1> QED BY <1>1, <1>2, <1>3, <1>4 DEF StackOK, ToSet

-----------------------------------------------------------------------------
(* The stack.                                                              *)

LEMMA SeqFacts ==
  ASSUME NEW S, NEW s \in Seq(S)
  PROVE  /\ s \in Seq(ToSet(s)) /\ Len(s) \in Nat /\ DOMAIN s = 1..Len(s)
         /\ \A e : /\ Append(s, e) \in Seq(ToSet(Append(s, e)))
                   /\ Len(Append(s, e)) = Len(s) + 1
                   /\ \A i \in 1..Len(s) : Append(s, e)[i] = s[i]
                   /\ Append(s, e)[Len(s) + 1] = e
  <1>1. ASSUME NEW T, NEW t \in Seq(T)
        PROVE  t \in Seq(ToSet(t)) /\ Len(t) \in Nat /\ DOMAIN t = 1..Len(t)
    <2>1. t \in [1..Len(t) -> T] /\ Len(t) \in Nat /\ DOMAIN t = 1..Len(t) OBVIOUS
    <2>2. \A i \in 1..Len(t) : t[i] \in ToSet(t) BY <2>1 DEF ToSet
    <2>3. t \in [1..Len(t) -> ToSet(t)] BY <2>1, <2>2
    <2> QED BY <2>1, <2>3
  <1>2. ASSUME NEW e
        PROVE  /\ Append(s, e) \in Seq(S \cup {e})
               /\ Len(Append(s, e)) = Len(s) + 1
               /\ \A i \in 1..Len(s) : Append(s, e)[i] = s[i]
               /\ Append(s, e)[Len(s) + 1] = e
    <2>1. s \in Seq(S \cup {e}) /\ e \in S \cup {e} OBVIOUS
    <2> QED BY <2>1
  <1> QED BY <1>1, <1>2

LEMMA EmptyStack == StackOK(<<>>, {})
  <1>1. <<>> \in Seq(ToSet(<<>>)) OBVIOUS
  <1>2. Len(<<>>) = 0 OBVIOUS
  <1> QED BY <1>1, <1>2 DEF StackOK, Chained, Nested, Distinct

(* The activation of a call for f.                                         *)
Call(f) == [file |-> f, main |-> ParseFile(f), next |-> 1, merged |-> EmptyConfig]

(* The call that is made next.                                             *)
Calling(st, f) ==
  IF st = <<>> THEN f = Found
  ELSE LET top == st[Len(st)]
       IN  top.next \in 1..Len(top.main.extends) /\ f = top.main.extends[top.next]

(* It is for a file that every call that waits for it looks at.            *)
LEMMA CallBelow ==
  ASSUME DiskOK, Found \in File, NEW st, NEW sn, StackOK(st, sn), NEW f, Calling(st, f)
  PROVE  /\ f \in File
         /\ \A i \in 1..Len(st) : f \in Below(st[i].file)
         /\ f \in Below(Found)
         /\ f \in sn => \E g \in Below(Found) : OnACycle(g)
  <1> DEFINE n == Len(st)
  <1>1. n \in Nat /\ \A i \in 1..n : Frame(st[i])
    BY SeqFacts DEF StackOK
  <1>2. CASE st = <<>>
    <2>1. n = 0 /\ f = Found /\ sn = {} BY <1>2 DEF Calling, StackOK
    <2> QED BY <2>1, BelowFacts
  <1>3. CASE st # <<>>
    <2> DEFINE g == st[n].file
    <2>1. n \in 1..n /\ n >= 1 BY <1>1, <1>3 DEF StackOK
    <2>2. /\ g \in File /\ st[n].main = ParseFile(g) /\ Reads(g)
          /\ st[n].next \in 1..Len(ParseFile(g).extends)
          /\ f = ParseFile(g).extends[st[n].next]
      BY <1>1, <1>3, <2>1 DEF Frame, Calling
    <2>3. f \in ExtendsOf(g) /\ f \in File
      BY <2>2, ExtendsAreFiles
    <2>4. ASSUME NEW i \in 1..n
          PROVE  st[i].file \in File /\ g \in Below(st[i].file) /\ f \in Below(st[i].file)
      <3>1. st[i].file \in File BY <1>1 DEF Frame
      <3>2. g \in Below(st[i].file) BY <1>1, <2>1 DEF StackOK, Nested
      <3> QED BY <2>3, <3>1, <3>2, BelowFacts
    <2>5. 1 \in 1..n /\ st[1].file = Found BY <1>1, <1>3, <2>1 DEF StackOK, Chained
    <2>6. ASSUME f \in sn PROVE OnACycle(g)
      <3>1. PICK i \in 1..n : f = st[i].file BY <2>6 DEF StackOK
      <3> QED BY <2>3, <2>4, <3>1 DEF OnACycle
    <2> QED BY <2>3, <2>4, <2>5, <2>6
  <1> QED BY <1>2, <1>3

LEMMA Push ==
  ASSUME DiskOK, Found \in File, NEW st, NEW sn, StackOK(st, sn),
         NEW f, Calling(st, f), f \notin sn, Reads(f)
  PROVE  StackOK(Append(st, Call(f)), sn \cup {f})
  <1> DEFINE n == Len(st)
             s == Append(st, Call(f))
  <1>1. n \in Nat /\ \A i \in 1..n : Frame(st[i])
    BY SeqFacts DEF StackOK
  <1>2. /\ s \in Seq(ToSet(s)) /\ Len(s) = n + 1
        /\ \A i \in 1..n : s[i] = st[i]
        /\ s[n + 1] = Call(f)
    BY SeqFacts DEF StackOK
  <1>3. /\ f \in File
        /\ \A i \in 1..n : f \in Below(st[i].file)
    BY CallBelow
  <1> HIDE DEF s
  <1>4. Call(f).file = f /\ Call(f).main = ParseFile(f) /\ Call(f).next = 1
    BY DEF Call
  <1>5. Frame(Call(f))
    <2>1. Len(ParseFile(f).extends) \in Nat BY <1>3, ExtendsAreFiles
    <2>2. Call(f) = [file |-> Call(f).file, main |-> Call(f).main,
                     next |-> Call(f).next, merged |-> Call(f).merged]
      BY DEF Call
    <2> QED BY <1>3, <1>4, <2>1, <2>2 DEF Frame
  <1>6. ASSUME NEW i \in 1..n + 1 PROVE Frame(s[i])
    <2>1. CASE i = n + 1
      <3>1. s[i] = Call(f) BY <1>2, <2>1
      <3> QED BY <1>5, <3>1
    <2>2. CASE i # n + 1
      <3>1. i \in 1..n BY <1>1, <2>2
      <3> QED BY <1>1, <1>2, <3>1
    <2> QED BY <2>1, <2>2
  <1>7. Chained(s)
    <2>1. s[1].file = Found
      <3>1. CASE n = 0
        <4>1. st = <<>> BY <3>1 DEF StackOK
        <4> QED BY <1>2, <1>4, <3>1, <4>1 DEF Calling
      <3>2. CASE n # 0
        BY <1>1, <1>2, <3>2 DEF StackOK, Chained
      <3> QED BY <3>1, <3>2
    <2>2. ASSUME NEW i \in 1..n
          PROVE  /\ s[i].next \in 1..Len(s[i].main.extends)
                 /\ s[i + 1].file = s[i].main.extends[s[i].next]
      <3>1. CASE i = n
        <4>1. st # <<>> BY <2>2 DEF StackOK
        <4> QED BY <1>2, <1>4, <3>1, <4>1 DEF Calling
      <3>2. CASE i # n
        <4>1. i \in 1..n - 1 /\ i + 1 \in 1..n BY <1>1, <3>2
        <4> QED BY <1>2, <4>1 DEF StackOK, Chained
      <3> QED BY <3>1, <3>2
    <2>3. (n + 1) - 1 = n BY <1>1
    <2> QED BY <1>2, <2>1, <2>2, <2>3 DEF Chained
  <1>8. Nested(s)
    <2>1. ASSUME NEW i \in 1..n + 1, NEW k \in 1..n + 1, i <= k
          PROVE  s[k].file \in Below(s[i].file)
      <3>1. CASE k = n + 1 /\ i = n + 1
        BY <1>2, <1>3, <1>4, <3>1, BelowFacts
      <3>2. CASE k = n + 1 /\ i # n + 1
        BY <1>1, <1>2, <1>3, <1>4, <3>2
      <3>3. CASE k # n + 1
        <4>1. i \in 1..n /\ k \in 1..n BY <1>1, <2>1, <3>3
        <4> QED BY <1>2, <2>1, <4>1 DEF StackOK, Nested
      <3> QED BY <3>1, <3>2, <3>3
    <2> QED BY <1>2, <2>1 DEF Nested
  <1>9. sn \cup {f} = { s[i].file : i \in 1..n + 1 }
    <2>1. sn = { st[i].file : i \in 1..n } BY DEF StackOK
    <2>2. \A i \in 1..n + 1 : i \in 1..n \/ i = n + 1 BY <1>1
    <2>3. n + 1 \in 1..n + 1 /\ \A i \in 1..n : i \in 1..n + 1 BY <1>1
    <2> QED BY <1>2, <1>4, <2>1, <2>2, <2>3
  <1>10. Distinct(s)
    <2>1. ASSUME NEW i \in 1..n + 1, NEW k \in 1..n + 1, s[i].file = s[k].file
          PROVE  i = k
      <3>1. \A j \in 1..n : s[j].file # f BY <1>2 DEF StackOK
      <3>2. s[n + 1].file = f BY <1>2, <1>4
      <3>3. CASE i = n + 1 \/ k = n + 1
        BY <1>1, <2>1, <3>1, <3>2, <3>3
      <3>4. CASE i # n + 1 /\ k # n + 1
        <4>1. i \in 1..n /\ k \in 1..n BY <1>1, <3>4
        <4> QED BY <1>2, <2>1, <4>1 DEF StackOK, Distinct
      <3> QED BY <3>3, <3>4
    <2> QED BY <1>2, <2>1 DEF Distinct
  <1> QED BY <1>2, <1>6, <1>7, <1>8, <1>9, <1>10 DEF StackOK, s

(* The innermost call has made all its calls.                              *)
Returning(st) ==
  st # <<>> /\ st[Len(st)].next \notin 1..Len(st[Len(st)].main.extends)

(* A call that returns found nothing wrong: a cycle through its file would *)
(* lead through a file that it extends, whose call has returned.           *)
LEMMA ReturnSound ==
  ASSUME DiskOK, NEW st, NEW sn, StackOK(st, sn), Returning(st)
  PROVE  Sound(st[Len(st)].file)
  <1> DEFINE n == Len(st)
             f == st[n].file
  <1>1. n \in Nat /\ n \in 1..n BY SeqFacts DEF StackOK, Returning
  <1>2. Frame(st[n]) BY <1>1 DEF StackOK
  <1>3. f \in File /\ Reads(f) /\ st[n].main = ParseFile(f) BY <1>2 DEF Frame
  <1>4. ASSUME NEW g \in ExtendsOf(f) PROVE g \in File /\ Sound(g)
    <2>1. PICK k \in 1..Len(ParseFile(f).extends) : g = ParseFile(f).extends[k]
      BY <1>3, ExtendsAreFiles
    <2>2. Len(ParseFile(f).extends) \in Nat BY <1>3, ExtendsAreFiles
    <2>3. st[n].next = Len(ParseFile(f).extends) + 1
      BY <1>2, <1>3, <2>2 DEF Frame, Returning
    <2>4. k \in 1..st[n].next - 1 BY <2>2, <2>3
    <2>5. Sound(g) BY <1>2, <1>3, <2>1, <2>4 DEF Frame
    <2> QED BY <1>3, <2>5, ExtendsAreFiles
  <1>5. ~OnACycle(f)
    <2> SUFFICES ASSUME OnACycle(f) PROVE FALSE OBVIOUS
    <2>1. PICK g \in ExtendsOf(f) : f \in Below(g) BY DEF OnACycle
    <2> QED BY <1>4, <2>1 DEF Sound
  <1> HIDE DEF f
  <1>6. ASSUME NEW h \in Below(f) PROVE Reads(h) /\ ~OnACycle(h)
    <2>1. CASE h = f BY <1>3, <1>5, <2>1
    <2>2. CASE \E g \in ExtendsOf(f) : h \in Below(g) BY <1>4, <2>2 DEF Sound
    <2> QED BY <1>3, <1>6, <2>1, <2>2, BelowStep
  <1>7. Sound(f) BY <1>6 DEF Sound
  <1> QED BY <1>7 DEF f

(* What the return of the innermost call leaves.                           *)
Popped(st) == [Front(st) EXCEPT ![Len(st) - 1] = Resume(@, st[Len(st)])]

LEMMA PoppedFacts ==
  ASSUME NEW S, NEW st \in Seq(S), Len(st) > 1
  PROVE  /\ Popped(st) \in Seq(ToSet(Popped(st)))
         /\ Len(Popped(st)) = Len(st) - 1
         /\ \A i \in 1..Len(st) - 1 :
              Popped(st)[i] = IF i = Len(st) - 1 THEN Resume(st[i], st[Len(st)]) ELSE st[i]
  <1> DEFINE n == Len(st)
             T == S \cup {Resume(st[n - 1], st[n])}
  <1>1. n \in Nat /\ n - 1 \in 1..n - 1 /\ n - 1 \in 1..n /\ n - 1 \in Nat OBVIOUS
  <1>2. \A i \in 1..n - 1 : i \in 1..n /\ st[i] \in S BY <1>1
  <1>3. /\ Front(st) \in [1..n - 1 -> S] /\ Front(st) \in Seq(S)
        /\ \A i \in 1..n - 1 : Front(st)[i] = st[i]
    <2>1. Front(st) = SubSeq(st, 1, n - 1) BY DEF Front
    <2>2. /\ SubSeq(st, 1, n - 1) \in Seq(S)
          /\ Len(SubSeq(st, 1, n - 1)) = n - 1
          /\ \A i \in 1..(n - 1) - 1 + 1 : SubSeq(st, 1, n - 1)[i] = st[1 + i - 1]
      BY <1>1, <1>2, SubSeqProperties
    <2>3. (n - 1) - 1 + 1 = n - 1 /\ \A i \in 1..n - 1 : 1 + i - 1 = i BY <1>1
    <2>4. /\ Front(st) \in Seq(S) /\ Len(Front(st)) = n - 1
          /\ \A i \in 1..n - 1 : Front(st)[i] = st[i]
      BY <2>1, <2>2, <2>3
    <2>5. \A T_ : \A t \in Seq(T_) : t \in [1..Len(t) -> T_] OBVIOUS
    <2>6. Front(st) \in [1..n - 1 -> S] BY <2>4, <2>5
    <2> QED BY <2>4, <2>6
  <1>4. Popped(st) = [Front(st) EXCEPT ![n - 1] = Resume(Front(st)[n - 1], st[n])]
    BY DEF Popped
  <1>5. /\ Popped(st) \in [1..n - 1 -> T]
        /\ \A i \in 1..n - 1 :
             Popped(st)[i] = IF i = n - 1 THEN Resume(st[i], st[n]) ELSE st[i]
    BY <1>1, <1>3, <1>4
  <1>6. Popped(st) \in Seq(T) /\ Len(Popped(st)) = n - 1
    <2> HIDE DEF T
    <2> QED BY <1>1, <1>5
  <1> QED BY <1>5, <1>6, SeqFacts

LEMMA Pop ==
  ASSUME DiskOK, NEW st, NEW sn, StackOK(st, sn), Returning(st), Len(st) > 1
  PROVE  StackOK(Popped(st), sn \ {st[Len(st)].file})
  <1> DEFINE n == Len(st)
             f == st[n].file
             caller == st[n - 1]
             s == Popped(st)
  <1>1. /\ n \in Nat /\ n - 1 \in 1..n /\ n \in 1..n /\ n - 1 \in 1..n - 1
        /\ \A i \in 1..n - 1 : i \in 1..n /\ i # n
        /\ \A i \in 1..n : i \in 1..n - 1 \/ i = n
    BY SeqFacts DEF StackOK
  <1>2. /\ s \in Seq(ToSet(s)) /\ Len(s) = n - 1
        /\ \A i \in 1..n - 1 : s[i] = IF i = n - 1 THEN Resume(st[i], st[n]) ELSE st[i]
    BY PoppedFacts DEF StackOK
  <1> HIDE DEF s
  <1>3. \A i \in 1..n : Frame(st[i]) BY DEF StackOK
  <1>4. /\ caller.next \in 1..Len(caller.main.extends)
        /\ f = caller.main.extends[caller.next]
        /\ Len(caller.main.extends) \in Nat
    <2>1. (n - 1) + 1 = n BY <1>1
    <2>2. Frame(caller) BY <1>1, <1>3
    <2>3. Len(caller.main.extends) \in Nat BY <2>2, ExtendsAreFiles DEF Frame
    <2>4. st # <<>> BY DEF Returning
    <2> QED BY <1>1, <2>1, <2>3, <2>4 DEF StackOK, Chained
  <1>5. Sound(f) BY ReturnSound
  <1> HIDE DEF f
  <1>6. /\ Resume(caller, st[n]).file = caller.file
        /\ Resume(caller, st[n]).main = caller.main
        /\ Resume(caller, st[n]).next = caller.next + 1
        /\ Frame(Resume(caller, st[n]))
    <2>1. Frame(caller) BY <1>1, <1>3
    <2>2. caller = [file |-> caller.file, main |-> caller.main, next |-> caller.next,
                    merged |-> caller.merged]
      BY <2>1 DEF Frame
    <2> DEFINE m == OverlayConfig(caller.merged, Merged(st[n]))
    <2>3. Resume(caller, st[n]) = [caller EXCEPT !.next = caller.next + 1, !.merged = m]
      BY DEF Resume
    <2> HIDE DEF m, caller
    <2>4. Resume(caller, st[n]) = [file |-> caller.file, main |-> caller.main,
                                   next |-> caller.next + 1, merged |-> m]
      BY <2>2, <2>3
    <2>5. caller.next + 1 \in 1..Len(caller.main.extends) + 1
          /\ (caller.next + 1) - 1 = caller.next
          /\ \A k \in 1..caller.next : k \in 1..caller.next - 1 \/ k = caller.next
      BY <1>4
    <2>6. \A k \in 1..caller.next : Sound(caller.main.extends[k])
      BY <1>4, <1>5, <2>1, <2>5 DEF Frame
    <2> QED BY <2>1, <2>4, <2>5, <2>6 DEF Frame
  <1>7. \A i \in 1..n - 1 : /\ Frame(s[i])
                            /\ s[i].file = st[i].file /\ s[i].main = st[i].main
                            /\ i # n - 1 => s[i] = st[i]
    BY <1>1, <1>2, <1>3, <1>6
  <1>8. Chained(s)
    <2>1. s # <<>> => s[1].file = Found
      BY <1>1, <1>7 DEF StackOK, Chained, Returning
    <2>2. ASSUME NEW i \in 1..(n - 1) - 1
          PROVE  /\ s[i].next \in 1..Len(s[i].main.extends)
                 /\ s[i + 1].file = s[i].main.extends[s[i].next]
      <3>1. i \in 1..n - 1 /\ i + 1 \in 1..n - 1 /\ i # n - 1 BY <1>1
      <3> QED BY <1>7, <3>1 DEF StackOK, Chained
    <2> QED BY <1>2, <2>1, <2>2 DEF Chained
  <1>9. Nested(s)
    BY <1>1, <1>2, <1>7 DEF StackOK, Nested
  <1>10. Distinct(s)
    BY <1>1, <1>2, <1>7 DEF StackOK, Distinct
  <1>11. sn \ {f} = { s[i].file : i \in 1..n - 1 }
    <2>1. sn = { st[i].file : i \in 1..n } BY DEF StackOK
    <2>2. \A i \in 1..n - 1 : st[i].file # f
      BY <1>1 DEF StackOK, Distinct, f
    <2>3. st[n].file = f BY DEF f
    <2>4. ASSUME NEW x \in sn \ {f} PROVE x \in { s[i].file : i \in 1..n - 1 }
      <3>1. PICK i \in 1..n : x = st[i].file BY <2>1, <2>4
      <3>2. i \in 1..n - 1 BY <1>1, <2>3, <2>4, <3>1
      <3> QED BY <1>7, <3>1, <3>2
    <2>5. ASSUME NEW i \in 1..n - 1 PROVE s[i].file \in sn \ {f}
      BY <1>1, <1>7, <2>1, <2>2
    <2> QED BY <2>4, <2>5
  <1>12. StackOK(s, sn \ {f})
    BY <1>2, <1>7, <1>8, <1>9, <1>10, <1>11 DEF StackOK
  <1> QED BY <1>12 DEF s, f

-----------------------------------------------------------------------------
(* The process.                                                            *)

LEMMA LeastNatural ==
  ASSUME NEW T, T \subseteq Nat, T # {}
  PROVE  \E x \in T : \A y \in T : x <= y
  <1> DEFINE Less == {e \in Nat \X Nat : e[1] < e[2]}
  <1>1. IsWellFoundedOn(Less, Nat)
    BY NatLessThanWellFounded DEF OpToRel
  <1>2. \E x \in T : \A y \in T : <<y, x>> \notin Less
    <2> HIDE DEF Less
    <2> QED BY <1>1, WFMin
  <1>3. PICK x \in T : \A y \in T : <<y, x>> \notin Less
    BY <1>2
  <1>4. ASSUME NEW y \in T PROVE x <= y
    <2>1. x \in Nat /\ y \in Nat /\ ~(y < x)
      BY <1>3
    <2> QED BY <2>1
  <1> QED BY <1>4

LEMMA FirstFound ==
  ASSUME There # {}
  PROVE  Found \in File /\ Found \in DOMAIN disk
  <1>1. There \subseteq Nat /\ \A i \in There : Candidates[i] \in File
    BY FilesAssumption DEF There
  <1>2. \E i \in There : \A k \in There : i <= k
    BY <1>1, LeastNatural
  <1> DEFINE j == CHOOSE i \in There : \A k \in There : i <= k
  <1>3. j \in There BY <1>2
  <1>4. Found = Candidates[j] BY DEF Found
  <1> HIDE DEF j
  <1> QED BY <1>1, <1>3, <1>4 DEF There

(* A map laid over another.                                                *)
LEMMA LaidIs ==
  ASSUME NEW over, NEW base
  PROVE  /\ DOMAIN Laid(over, base) = DOMAIN over \cup DOMAIN base
         /\ \A x \in DOMAIN over : Laid(over, base)[x] = over[x]
         /\ \A x \in DOMAIN base : x \notin DOMAIN over => Laid(over, base)[x] = base[x]
  BY DEF Laid

(* What has no fields but these is a job if its command is one.            *)
LEMMA JobWithRun ==
  ASSUME NEW job, NEW rest, IsJob(rest),
         DOMAIN job \cap {"reads", "writes"} = {},
         "run" \in DOMAIN job => IsCommand(job.run),
         "fix" \notin DOMAIN job
  PROVE  IsJob(Laid(job, rest))
  <1> DEFINE new == Laid(job, rest)
  <1>0. /\ DOMAIN new = DOMAIN job \cup DOMAIN rest
        /\ \A x \in DOMAIN job : new[x] = job[x]
        /\ \A x \in DOMAIN rest : x \notin DOMAIN job => new[x] = rest[x]
    BY Zenon, LaidIs
  <1> HIDE DEF new
  <1>1. ASSUME NEW f \in DOMAIN new \cap {"run", "fix"} PROVE IsCommand(new[f])
    <2>1. CASE f \in DOMAIN job
      <3>1. f = "run" /\ new[f] = job[f] BY <1>0, <1>1, <2>1
      <3> QED BY <2>1, <3>1
    <2>2. CASE f \notin DOMAIN job
      <3>1. f \in DOMAIN rest \cap {"run", "fix"} /\ new[f] = rest[f] BY <1>0, <1>1, <2>2
      <3> QED BY <3>1 DEF IsJob
    <2> QED BY <2>1, <2>2
  <1>2. ASSUME NEW f \in DOMAIN new \cap {"reads", "writes"}
        PROVE  new[f] = Bad \/ new[f] \subseteq DOMAIN Bytes
    <2>1. f \in DOMAIN rest \cap {"reads", "writes"} /\ new[f] = rest[f] BY <1>0, <1>2
    <2> QED BY <2>1 DEF IsJob
  <1> QED BY <1>1, <1>2 DEF IsJob, new

LEMMA NoCommandIs == IsCommand(NoCommand)
  BY DEF NoCommand, IsCommand

LEMMA RunOfIs ==
  ASSUME NEW command, "run" \in DOMAIN command => IsCommand(command.run)
  PROVE  DOMAIN RunOf(command) = {"run"} /\ IsCommand(RunOf(command).run)
  BY NoCommandIs DEF RunOf, Get

LEMMA KeptFieldsAreAJob ==
  ASSUME NEW command, IsJob(command), NEW fields, fields \cap {"reads", "writes"} = {}
  PROVE  IsJob(Keep(command, fields))
  BY DEF IsJob, Keep, Restrict

(* Each importer makes jobs.                                               *)
LEMMA LefthookJob ==
  ASSUME NEW command, IsJob(command) PROVE IsJob(ConvertCommand(command))
  <1> DEFINE dropped == { f \in DOMAIN command \cap {"skip", "only"} : command[f] = Bad }
             kept == Keep(command, {"glob", "exclude", "tags", "root", "stage_fixed",
                                    "interactive", "fail_text", "env", "skip", "only"} \ dropped)
             isolate == [f \in DOMAIN command \cap {"isolate"} |-> ("name" :> command.isolate)]
  <1>1. IsJob(kept) BY KeptFieldsAreAJob
  <1>2. DOMAIN isolate \subseteq {"isolate"} OBVIOUS
  <1>3. ConvertCommand(command) = Laid(RunOf(command), Laid(isolate, kept))
    BY DEF ConvertCommand
  <1> HIDE DEF kept, isolate
  <1>4. IsJob(Laid(isolate, kept)) BY <1>1, <1>2, JobWithRun
  <1>5. DOMAIN RunOf(command) = {"run"} /\ IsCommand(RunOf(command).run)
    BY RunOfIs DEF IsJob
  <1> QED BY <1>3, <1>4, <1>5, JobWithRun

LEMMA HkJob ==
  ASSUME NEW step, IsJob(step)
  PROVE  IsJob(Laid(RunOf(step), Keep(step, {"fix", "glob", "exclude"})))
  <1>1. IsJob(Keep(step, {"fix", "glob", "exclude"})) BY KeptFieldsAreAJob
  <1>2. DOMAIN RunOf(step) = {"run"} /\ IsCommand(RunOf(step).run)
    BY RunOfIs DEF IsJob
  <1> QED BY <1>1, <1>2, JobWithRun

(* The names in a list are finitely many.                                  *)
LEMMA FinitelyMany ==
  ASSUME NEW n \in Nat, NEW f, DOMAIN f = 1..n
  PROVE  IsFiniteSet({ f[i] : i \in 1..n })
  <1> DEFINE T == { f[i] : i \in 1..n }
             g == [i \in 1..n |-> f[i]]
  <1>1. g \in Surjection(1..n, T) BY DEF Surjection
  <1>2. IsFiniteSet(1..n) BY FS_Interval
  <1> QED BY <1>1, <1>2, FS_Surjection

LEMMA GreatestNatural ==
  ASSUME NEW n \in Nat, NEW T, T \subseteq 1..n, T # {}
  PROVE  \E x \in T : \A y \in T : y <= x
  <1> DEFINE U == { n - x : x \in T }
  <1>1. U \subseteq Nat /\ U # {} OBVIOUS
  <1>2. PICK u \in U : \A y \in U : u <= y
    <2> HIDE DEF U
    <2> QED BY <1>1, LeastNatural
  <1>3. PICK x \in T : u = n - x BY <1>2
  <1>4. ASSUME NEW y \in T PROVE y <= x
    <2>1. n - x <= n - y BY <1>2, <1>3
    <2>2. x \in Int /\ y \in Int OBVIOUS
    <2> QED BY <2>1, <2>2
  <1> QED BY <1>4

LEMMA WithJobsIs ==
  ASSUME NEW jobs, IsJobs(jobs)
  PROVE  /\ WithJobs(jobs) = [flags |-> WithJobs(jobs).flags, jobs |-> WithJobs(jobs).jobs]
         /\ Get(WithJobs(jobs).flags, "priority", <<>>) \in Seq(Int)
         /\ IsJobs(WithJobs(jobs).jobs)
  <1>1. WithJobs(jobs) = [flags |-> None, jobs |-> jobs] BY DEF WithJobs, EmptyHook
  <1>2. Get(None, "priority", <<>>) = <<>> BY DEF Get, None
  <1>3. <<>> \in Seq(Int) OBVIOUS
  <1>4. WithJobs(jobs).flags = None /\ WithJobs(jobs).jobs = jobs BY <1>1
  <1> QED BY <1>1, <1>2, <1>3, <1>4

LEMMA LefthookHooks ==
  ASSUME NEW file, IsForeign("lefthook", file)
  PROVE  IsHooks([h \in KnownHooks(file.top) |-> ConvertHook(file.top[h])])
  <1> SUFFICES ASSUME NEW h \in KnownHooks(file.top)
               PROVE  LET hook == ConvertHook(file.top[h])
                      IN  /\ hook = [flags |-> hook.flags, jobs |-> hook.jobs]
                          /\ Get(hook.flags, "priority", <<>>) \in Seq(Int)
                          /\ IsJobs(hook.jobs)
    BY DEF IsHooks
  <1> DEFINE body == file.top[h]
             left == Keep(body.sets, {"parallel"})
             right == [f \in IF "follow" \in DOMAIN body.sets THEN {"fail_fast"} ELSE {} |->
                        ~body.sets.follow]
             flags == Laid(left, right)
             jobs == [c \in DOMAIN body.commands |-> ConvertCommand(body.commands[c])]
  <1>1. ConvertHook(body) = [flags |-> flags, jobs |-> jobs] BY Zenon DEF ConvertHook
  <1>2. Get(flags, "priority", <<>>) = <<>>
    <2>1. DOMAIN left \subseteq {"parallel"} BY DEF Keep, Restrict
    <2>2. DOMAIN right \subseteq {"fail_fast"} OBVIOUS
    <2> HIDE DEF left, right
    <2>4. DOMAIN flags = DOMAIN left \cup DOMAIN right BY Zenon, LaidIs
    <2> HIDE DEF flags
    <2>3. "priority" \notin DOMAIN flags BY <2>1, <2>2, <2>4
    <2> QED BY <2>3 DEF Get
  <1>3. IsJobs(body.commands) BY DEF IsForeign
  <1>4. IsJobs(jobs) BY <1>3, LefthookJob DEF IsJobs
  <1>5. <<>> \in Seq(Int) OBVIOUS
  <1> HIDE DEF flags, jobs
  <1>6. ConvertHook(body).flags = flags /\ ConvertHook(body).jobs = jobs BY <1>1
  <1> HIDE DEF body
  <1>7. LET hook == ConvertHook(body)
        IN  /\ hook = [flags |-> hook.flags, jobs |-> hook.jobs]
            /\ Get(hook.flags, "priority", <<>>) \in Seq(Int)
            /\ IsJobs(hook.jobs)
    BY <1>1, <1>2, <1>4, <1>5, <1>6
  <1> QED BY <1>7 DEF body

LEMMA HkHooks ==
  ASSUME NEW file, IsForeign("hk", file)
  PROVE  IsHooks([h \in DOMAIN file.hooks |->
           WithJobs([j \in DOMAIN file.hooks[h] |->
             Laid(RunOf(file.hooks[h][j]), Keep(file.hooks[h][j], {"fix", "glob", "exclude"}))])])
  <1> SUFFICES ASSUME NEW h \in DOMAIN file.hooks
               PROVE  IsJobs([j \in DOMAIN file.hooks[h] |->
                        Laid(RunOf(file.hooks[h][j]),
                             Keep(file.hooks[h][j], {"fix", "glob", "exclude"}))])
    BY WithJobsIs DEF IsHooks
  <1>1. IsJobs(file.hooks[h]) BY DEF IsForeign
  <1> QED BY <1>1, HkJob DEF IsJobs

LEMMA HuskyHooks ==
  ASSUME NEW file, IsForeign("husky", file)
  PROVE  \E jobs : IsJobs(jobs) /\ ImportFile("husky", file)
                                     = V1FromHooks([h \in {file.name} |-> WithJobs(jobs)])
  <1> DEFINE lines == file.lines
             n == Len(lines)
             number == [i \in 1..n |-> 10 * lines[i].command + i]
             line(j) == CHOOSE i \in DOMAIN lines : 10 * lines[i].command + i = j
             names == { 10 * lines[i].command + i : i \in DOMAIN lines }
             jobs == [j \in names |-> RunOf(lines[line(j)])]
  <1>1. /\ lines \in Seq(ToSet(lines))
        /\ \A i \in DOMAIN lines : /\ lines[i].command \in Nat
                                  /\ "run" \in DOMAIN lines[i] /\ IsCommand(lines[i].run)
    BY DEF IsForeign
  <1>2. n \in Nat /\ DOMAIN lines = 1..n
    <2> HIDE DEF lines
    <2> QED BY <1>1
  <1>3. names = { number[i] : i \in 1..n } BY <1>2
  <1>4. IsFiniteSet(names)
    <2>1. DOMAIN number = 1..n OBVIOUS
    <2> HIDE DEF number, names, n
    <2> QED BY <1>2, <1>3, <2>1, FinitelyMany
  <1>5. names \subseteq Int BY <1>1, <1>2
  <1>6. ASSUME NEW j \in names PROVE IsJob(RunOf(lines[line(j)]))
    <2>1. line(j) \in 1..n BY <1>2
    <2> HIDE DEF line
    <2>2. "run" \in DOMAIN lines[line(j)] /\ IsCommand(lines[line(j)].run)
      BY <1>1, <1>2, <2>1
    <2>3. DOMAIN RunOf(lines[line(j)]) = {"run"} /\ IsCommand(RunOf(lines[line(j)]).run)
      BY <2>2, RunOfIs
    <2> QED BY <2>3 DEF IsJob
  <1>7. IsJobs(jobs)
    <2>1. DOMAIN jobs = names /\ \A j \in names : jobs[j] = RunOf(lines[line(j)]) OBVIOUS
    <2> HIDE DEF jobs, names, line
    <2> QED BY <1>4, <1>5, <1>6, <2>1 DEF IsJobs
  <1>8. ImportFile("husky", file) = V1FromHooks([h \in {file.name} |-> WithJobs(jobs)])
    BY DEF ImportFile, Husky
  <1> QED BY <1>7, <1>8

LEMMA PreCommitHooks ==
  ASSUME NEW file, IsForeign("pre-commit", file)
  PROVE  \E jobs : IsJobs(jobs) /\ ImportFile("pre-commit", file)
                                     = V1FromHooks([h \in {"pre-commit"} |-> WithJobs(jobs)])
  <1> DEFINE list == file.list
             n == Len(list)
             name == [i \in 1..n |-> list[i].name]
             run(h) == [run |-> [by |-> h.id, vars |-> {"files"}, bytes |-> 30],
                        tags |-> {"pre-commit"}]
             job(h) == Laid(run(h), Keep(h, {"glob", "exclude"}))
             of(m) == { i \in DOMAIN list : list[i].name = m }
             last(m) == CHOOSE i \in of(m) : \A k \in of(m) : k <= i
             names == { list[i].name : i \in DOMAIN list }
             jobs == [m \in names |-> job(list[last(m)])]
  <1>1. /\ list \in Seq(ToSet(list))
        /\ \A i \in DOMAIN list : list[i].name \in Int
    BY DEF IsForeign
  <1>2. n \in Nat /\ DOMAIN list = 1..n BY <1>1
  <1>3. names = { name[i] : i \in 1..n } BY <1>2
  <1>4. IsFiniteSet(names)
    <2>1. DOMAIN name = 1..n OBVIOUS
    <2> HIDE DEF name, names, n
    <2> QED BY <1>2, <1>3, <2>1, FinitelyMany
  <1>5. names \subseteq Int BY <1>1
  <1>6. ASSUME NEW m \in names PROVE IsJob(job(list[last(m)]))
    <2>1. of(m) \subseteq 1..n /\ of(m) # {} BY <1>2
    <2>2. \E i \in of(m) : \A k \in of(m) : k <= i
      <3> HIDE DEF of, n
      <3> QED BY <1>2, <2>1, GreatestNatural
    <2>3. last(m) \in of(m)
      <3> HIDE DEF of
      <3> QED BY <2>2
    <2>4. last(m) \in DOMAIN list BY <2>3
    <2> HIDE DEF last
    <2> DEFINE h == list[last(m)]
    <2> HIDE DEF h
    <2>6. DOMAIN run(h) = {"run", "tags"} /\ IsCommand(run(h).run)
      BY DEF IsCommand, TemplateVars
    <2>7. IsJob(Keep(h, {"glob", "exclude"})) BY DEF IsJob, Keep, Restrict
    <2> HIDE DEF run
    <2>8. IsJob(job(h)) BY <2>6, <2>7, JobWithRun
    <2> QED BY <2>8 DEF h
  <1>7. IsJobs(jobs)
    <2>1. DOMAIN jobs = names /\ \A m \in names : jobs[m] = job(list[last(m)]) OBVIOUS
    <2> HIDE DEF jobs, names, job, last
    <2> QED BY <1>4, <1>5, <1>6, <2>1 DEF IsJobs
  <1>8. ImportFile("pre-commit", file) = V1FromHooks([h \in {"pre-commit"} |-> WithJobs(jobs)])
    BY DEF ImportFile, PreCommit
  <1> QED BY <1>7, <1>8

(* An importer writes a configuration that extends nothing.                *)
LEMMA ImportedFile ==
  ASSUME NEW source \in {"lefthook", "husky", "hk", "pre-commit"}, NEW file,
         IsForeign(source, file)
  PROVE  IsRawConfig(ImportFile(source, file))
  <1>1. ASSUME NEW hooks, IsHooks(hooks) PROVE IsRawConfig(V1FromHooks(hooks))
    <2> DEFINE m == "version" :> 1
    <2>0. V1FromHooks(hooks) = [EmptyConfig EXCEPT !.meta = m, !.hooks = hooks]
      BY Zenon DEF V1FromHooks
    <2> HIDE DEF m
    <2>1. V1FromHooks(hooks) = [meta |-> m, extends |-> <<>>, hooks |-> hooks, packages |-> None]
      BY <2>0 DEF EmptyConfig
    <2>2. <<>> \in Seq(File) OBVIOUS
    <2>3. DOMAIN None = {} BY DEF None
    <2>4. IsFiniteSet({}) BY FS_EmptySet
    <2> QED BY <1>1, <2>1, <2>2, <2>3, <2>4 DEF IsRawConfig
  <1>2. ASSUME NEW jobs, IsJobs(jobs), NEW name PROVE IsHooks([h \in {name} |-> WithJobs(jobs)])
    BY <1>2, WithJobsIs DEF IsHooks
  <1>3. CASE source = "lefthook"
    BY <1>1, <1>3, LefthookHooks DEF ImportFile, Lefthook
  <1>4. CASE source = "husky" BY <1>1, <1>2, <1>4, HuskyHooks
  <1>5. CASE source = "hk" BY <1>1, <1>5, HkHooks DEF ImportFile, Hk
  <1>6. CASE source = "pre-commit" BY <1>1, <1>2, <1>6, PreCommitHooks
  <1> QED BY <1>3, <1>4, <1>5, <1>6

LEMMA InitHolds == Init => IInv
  <1> SUFFICES ASSUME Init PROVE IInv OBVIOUS
  <1>1. PICK c \in Cases : disk = c.disk /\ call = c.call /\ foreign = c.foreign
    BY DEF Init
  <1>2. DiskOK BY <1>1, CasesAssumption DEF DiskOK, Reads, ParseFile
  <1>3. StackOK(stack, seen) BY EmptyStack DEF Init
  <1>4. EndOK BY DEF Init, EndOK, Resolved
  <1> QED BY <1>2, <1>3, <1>4 DEF IInv

LEMMA DiskStays == ASSUME DiskOK, disk' = disk, foreign' = foreign PROVE DiskOK'
  BY SameDisk DEF DiskOK

LEMMA ImportStep == IInv /\ Import => IInv'
  <1> SUFFICES ASSUME IInv, Import PROVE IInv' OBVIOUS
  <1>1. PICK source, file, first :
          /\ first = Candidates[1] /\ source \in {"lefthook", "husky", "hk", "pre-commit"}
          /\ IsForeign(source, file)
          /\ disk' = Laid([f \in {first} |->
                             [format |-> "toml", body |-> ImportFile(source, file)]], disk)
    <2> DEFINE input == PickInput(foreign.from, DOMAIN foreign.files)
               src == PickSource(foreign.format, input[1])
    <2>0. IsImport(foreign) BY DEF IInv, DiskOK, Import
    <2>1. src \in {"none", "lefthook", "husky", "hk", "pre-commit"}
      <3>1. foreign.format \in {"none", "lefthook", "husky", "hk", "pre-commit"}
        BY <2>0 DEF IsImport
      <3> QED BY <3>1 DEF PickSource, AutoDetect
    <2>2. src # "none" /\ input # <<>>
          /\ disk' = Laid([f \in {Candidates[1]} |->
                       [format |-> "toml", body |-> ImportFile(src, foreign.files[input[1]])]],
                          disk)
      BY DEF Import
    <2>3. IsForeign(src, foreign.files[input[1]]) BY <2>0, <2>2 DEF IsImport
    <2> HIDE DEF src, input
    <2> QED BY <2>1, <2>2, <2>3
  <1> DEFINE new == [format |-> "toml", body |-> ImportFile(source, file)]
  <1>2. first \in File
    <2>1. Candidates \in Seq(File) /\ Candidates # <<>> BY FilesAssumption
    <2> QED BY <1>1, <2>1
  <1>3. ParseBytes(new) = ImportFile(source, file) BY DEF ParseBytes, Format
  <1>4. IsRawConfig(ImportFile(source, file)) BY <1>1, ImportedFile
  <1> HIDE DEF new
  <1>5. disk' = [f \in {first} \cup DOMAIN disk |-> IF f \in {first} THEN new ELSE disk[f]]
    <2>1. disk' = Laid([f \in {first} |-> new], disk) BY <1>1 DEF new
    <2> DEFINE over == [f \in {first} |-> new]
    <2>2. DOMAIN over = {first} /\ over[first] = new OBVIOUS
    <2> HIDE DEF over
    <2>3. Laid(over, disk) = [f \in {first} \cup DOMAIN disk |-> IF f \in {first} THEN new ELSE disk[f]]
      BY <2>2 DEF Laid
    <2> QED BY <2>1, <2>3 DEF over
  <1>6. DOMAIN disk' = {first} \cup DOMAIN disk BY <1>5
  <1>7. DiskOK'
    <2>1. ASSUME NEW f \in File, Reads(f)' PROVE IsRawConfig(ParseFile(f)')
      <3>1. CASE f = first
        BY <1>3, <1>4, <1>5, <1>6, <3>1 DEF ParseFile
      <3>2. CASE f # first
        <4>1. ParseFile(f)' = ParseFile(f)
          BY <1>5, <1>6, <3>2 DEF ParseFile
        <4> QED BY <2>1, <4>1 DEF IInv, DiskOK, Reads
      <3> QED BY <3>1, <3>2
    <2>2. \A f \in File : Reads(f)' => IsRawConfig(ParseFile(f))'
      BY <2>1 DEF IsRawConfig
    <2>3. DOMAIN disk' \subseteq File BY <1>2, <1>6 DEF IInv, DiskOK
    <2>4. foreign' = None BY DEF Import
    <2> QED BY <2>2, <2>3, <2>4 DEF DiskOK
  <1>8. stack' = <<>> /\ seen' = {} /\ pc' = "start" /\ exit' = "none"
    BY DEF Import, IInv, EndOK
  <1>9. StackOK(stack, seen)'
    BY <1>8, EmptyStack DEF StackOK, Chained, Nested, Distinct, ToSet
  <1>10. EndOK' BY <1>8 DEF EndOK, Resolved
  <1> QED BY <1>7, <1>9, <1>10 DEF IInv

LEMMA SoftMissFacts == SoftMiss \in {"noop", "shown", "missing"}
  BY DEF SoftMiss

LEMMA FindConfigStep == IInv /\ FindConfig => IInv'
  <1> SUFFICES ASSUME IInv, FindConfig PROVE IInv' OBVIOUS
  <1>1. disk' = disk /\ foreign' = foreign /\ stack' = stack /\ seen' = seen
    BY DEF FindConfig
  <1>2. DiskOK' BY <1>1, DiskStays DEF IInv
  <1>3. StackOK(stack, seen)' BY <1>1, SameStack DEF IInv
  <1>4. stack' = <<>> /\ There' = There BY <1>1, SameDisk DEF IInv, EndOK, FindConfig
  <1>5. EndOK'
    BY <1>4, SoftMissFacts DEF IInv, EndOK, FindConfig, Ends, Resolved
  <1> QED BY <1>2, <1>3, <1>5 DEF IInv

LEMMA EnterStep == IInv /\ Enter => IInv'
  <1> SUFFICES ASSUME IInv, Enter PROVE IInv' OBVIOUS
  <1> DEFINE f == Wanted[1]
  <1>1. disk' = disk /\ foreign' = foreign BY DEF Enter
  <1>2. DiskOK' BY <1>1, DiskStays DEF IInv
  <1>3. Found \in File /\ DiskOK /\ StackOK(stack, seen) /\ There # {} /\ exit = "none"
        /\ pc = "resolving"
    BY FirstFound DEF IInv, EndOK, Enter
  <1>4. Calling(stack, f)
    <2>1. CASE stack = <<>> BY <2>1 DEF Wanted, Calling
    <2>2. CASE stack # <<>>
      <3> DEFINE top == stack[Len(stack)]
      <3>1. top.next \in DOMAIN top.main.extends /\ f = top.main.extends[top.next]
        BY <2>2 DEF Enter, Wanted, Last
      <3>2. DOMAIN top.main.extends = 1..Len(top.main.extends)
        <4>1. Len(stack) \in 1..Len(stack) BY <1>3, <2>2, SeqFacts DEF StackOK
        <4>2. Frame(top) BY <1>3, <4>1 DEF StackOK
        <4>3. top.main.extends \in Seq(File) BY <1>3, <4>2, ExtendsAreFiles DEF Frame
        <4> HIDE DEF top
        <4> QED BY <4>3
      <3> QED BY <2>2, <3>1, <3>2 DEF Calling
    <2> QED BY <2>1, <2>2
  <1> HIDE DEF f
  <1>5. CASE IsCircular(f) \/ ParseFile(f) = Bad
    <2>1. stack' = stack /\ seen' = seen /\ pc' = "done" /\ exit' = "unresolved"
      BY <1>5 DEF Enter, Ends, f
    <2>2. Wrong
      <3>1. CASE f \in seen BY <1>3, <1>4, <3>1, CallBelow DEF Wrong
      <3>2. CASE ParseFile(f) = Bad
        <4>1. f \in Below(Found) BY <1>3, <1>4, CallBelow
        <4> QED BY <3>2, <4>1 DEF Wrong, Reads
      <3> QED BY <1>5, <3>1, <3>2 DEF IsCircular
    <2>3. StackOK(stack, seen)' BY <1>1, <1>3, <2>1, SameStack
    <2>4. EndOK' BY <1>1, <2>1, <2>2, SameDisk DEF EndOK, Resolved
    <2> QED BY <1>2, <2>3, <2>4 DEF IInv
  <1>6. CASE ~(IsCircular(f) \/ ParseFile(f) = Bad)
    <2>1. /\ seen' = seen \cup {f} /\ stack' = Append(stack, Call(f))
          /\ pc' = "resolving" /\ exit' = "none"
      BY <1>3, <1>6 DEF Enter, Call, f
    <2>2. StackOK(stack', seen')
      BY <1>3, <1>4, <1>6, <2>1, Push DEF IsCircular, Reads
    <2>3. StackOK(stack, seen)' BY <1>1, <2>2, SameStack
    <2>4. EndOK' BY <1>1, <1>3, <2>1, SameDisk DEF EndOK, Resolved
    <2> QED BY <1>2, <2>3, <2>4 DEF IInv
  <1> QED BY <1>5, <1>6

LEMMA NothingWanted ==
  ASSUME DiskOK, StackOK(stack, seen), Wanted = <<>>
  PROVE  Returning(stack)
  <1>1. stack # <<>>
    <2> SUFFICES ASSUME stack = <<>> PROVE FALSE OBVIOUS
    <2>1. Wanted = <<Found>> BY DEF Wanted
    <2> QED BY <2>1
  <1> DEFINE top == stack[Len(stack)]
  <1>2. top.next \notin DOMAIN top.main.extends
    <2> SUFFICES ASSUME top.next \in DOMAIN top.main.extends PROVE FALSE OBVIOUS
    <2>1. Wanted = <<top.main.extends[top.next]>> BY <1>1 DEF Wanted, Last
    <2> HIDE DEF top
    <2> QED BY <2>1
  <1>3. Len(stack) \in 1..Len(stack) BY <1>1, SeqFacts DEF StackOK
  <1>4. Frame(top) BY <1>3 DEF StackOK
  <1>5. top.main.extends \in Seq(File) BY <1>4, ExtendsAreFiles DEF Frame
  <1> HIDE DEF top
  <1>6. DOMAIN top.main.extends = 1..Len(top.main.extends) BY <1>5
  <1> QED BY <1>1, <1>2, <1>6 DEF Returning, top

LEMMA ReturnStep == IInv /\ Return => IInv'
  <1> SUFFICES ASSUME IInv, Return PROVE IInv' OBVIOUS
  <1>1. disk' = disk /\ foreign' = foreign /\ pc' = pc /\ exit' = exit
        /\ stack' = Popped(stack) /\ seen' = seen \ {stack[Len(stack)].file}
        /\ Len(stack) > 1 /\ pc = "resolving"
    BY DEF Return, Popped, Forget, Last
  <1>2. DiskOK' BY <1>1, DiskStays DEF IInv
  <1>3. Returning(stack) BY NothingWanted DEF Return, IInv
  <1>4. StackOK(stack', seen') BY <1>1, <1>3, Pop DEF IInv
  <1>5. StackOK(stack, seen)' BY <1>1, <1>4, SameStack
  <1>6. EndOK' BY <1>1, SameDisk DEF IInv, EndOK, Resolved
  <1> QED BY <1>2, <1>5, <1>6 DEF IInv

LEMMA ApplyLocalStep == IInv /\ ApplyLocal => IInv'
  <1> SUFFICES ASSUME IInv, ApplyLocal PROVE IInv' OBVIOUS
  <1>1. disk' = disk /\ foreign' = foreign /\ stack' = <<>> /\ seen' = {}
        /\ Len(stack) = 1 /\ pc = "resolving"
    BY DEF ApplyLocal
  <1>2. DiskOK' BY <1>1, DiskStays DEF IInv
  <1>3. StackOK(stack', seen') BY <1>1, EmptyStack
  <1>4. StackOK(stack, seen)' BY <1>1, <1>3, SameStack
  <1>5. exit = "none" /\ There # {} BY <1>1 DEF IInv, EndOK
  <1>6. Sound(Found)
    <2>1. Returning(stack) BY NothingWanted DEF ApplyLocal, IInv
    <2>2. Sound(stack[1].file) BY <1>1, <2>1, ReturnSound DEF IInv
    <2>3. stack[1].file = Found BY <2>1 DEF IInv, StackOK, Chained, Returning
    <2> QED BY <2>2, <2>3
  <1>7. (Cardinality(LocalsThere) > 1 \/ Bad \in { ParseFile(f) : f \in LocalsThere })
          <=> ~LocalsAgree
    <2>1. IsFiniteSet(LocalsThere)
      <3>1. LocalsThere \subseteq File BY FilesAssumption DEF LocalsThere
      <3> QED BY <3>1, FilesAssumption, FS_Subset
    <2>2. Cardinality(LocalsThere) \in Nat BY <2>1, FS_CardinalityType
    <2>3. Cardinality(LocalsThere) > 1 <=> ~(Cardinality(LocalsThere) <= 1) BY <2>2
    <2> QED BY <2>3 DEF LocalsAgree, Reads
  <1>8. CASE LocalsAgree
    <2>1. pc' = "lowering" /\ exit' = "none"
      BY <1>5, <1>7, <1>8 DEF ApplyLocal
    <2> QED BY <1>1, <1>2, <1>4, <1>6, <1>8, <2>1, SameDisk DEF IInv, EndOK
  <1>9. CASE ~LocalsAgree
    <2>1. pc' = "done" /\ exit' = "unresolved"
      BY <1>7, <1>9 DEF ApplyLocal, Ends
    <2> QED BY <1>1, <1>2, <1>4, <1>9, <2>1, SameDisk DEF IInv, EndOK, Resolved, Wrong
  <1> QED BY <1>8, <1>9

(* From then on nothing is read, and no error is one of resolving.         *)
After == {"lowering", "selecting", "planning", "done"}

LEMMA Later ==
  ASSUME IInv, disk' = disk, foreign' = foreign, stack' = stack, seen' = seen,
         pc \in After \ {"done"}, pc' \in After,
         pc' # "done" => exit' = exit, exit' # "unresolved"
  PROVE  IInv'
  <1>1. DiskOK' BY DiskStays DEF IInv
  <1>2. StackOK(stack, seen)' BY SameStack DEF IInv
  <1>3. exit = "none" /\ stack' = <<>> BY DEF IInv, EndOK, After
  <1>4. There # {} => Sound(Found) /\ LocalsAgree
    BY <1>3 DEF IInv, EndOK, Resolved, After
  <1>5. EndOK'
    BY <1>3, <1>4, SameDisk DEF EndOK, Resolved, After
  <1> QED BY <1>1, <1>2, <1>5 DEF IInv

LEMMA NextHolds == IInv /\ [Next]_vars => IInv'
  <1> SUFFICES ASSUME IInv, [Next]_vars PROVE IInv' OBVIOUS
  <1>1. CASE LowerConfig
    BY <1>1, Later DEF LowerConfig, Ends, After, IInv, EndOK
  <1>2. CASE Select
    BY <1>2, Later, SoftMissFacts DEF Select, Ends, After, IInv, EndOK
  <1>3. CASE NoSuchHook
    BY <1>3, Later, SoftMissFacts DEF NoSuchHook, Ends, After, IInv, EndOK
  <1>4. CASE SelectRun
    BY <1>4, Later DEF SelectRun, After, IInv, EndOK
  <1>5. CASE SelectFix
    BY <1>5, Later DEF SelectFix, Ends, After, IInv, EndOK
  <1>6. CASE Show
    BY <1>6, Later DEF Show, Ends, After, IInv, EndOK
  <1>7. CASE PlanJob
    BY <1>7, Later DEF PlanJob, Ends, After, IInv, EndOK
  <1>8. CASE Planned
    BY <1>8, Later DEF Planned, Ends, After, IInv, EndOK
  <1>9. CASE UNCHANGED vars
    <2>1. disk' = disk /\ foreign' = foreign /\ stack' = stack /\ seen' = seen
          /\ pc' = pc /\ exit' = exit
      BY <1>9 DEF vars
    <2>2. DiskOK' /\ StackOK(stack, seen)' BY <2>1, DiskStays, SameStack DEF IInv
    <2>3. EndOK' BY <2>1, SameDisk DEF IInv, EndOK, Resolved
    <2> QED BY <2>2, <2>3 DEF IInv
  <1> QED BY <1>1, <1>2, <1>3, <1>4, <1>5, <1>6, <1>7, <1>8, <1>9, ImportStep,
             FindConfigStep, EnterStep, ReturnStep, ApplyLocalStep DEF Next, Done

(* The inductive invariant.                                                *)
THEOREM Invariance == Spec => []IInv
  BY InitHolds, NextHolds, PTL DEF Spec

(* Resolution fails only where a file on the way is missing, does not      *)
(* parse or extends itself through others, or two local files are there,   *)
(* and never succeeds then; no file is resolved inside itself meanwhile.   *)
THEOREM ResolutionIsExact == Spec => []OnlyCyclesAndBadFilesFail
  <1>1. IInv => OnlyCyclesAndBadFilesFail
    <2> SUFFICES ASSUME IInv PROVE OnlyCyclesAndBadFilesFail OBVIOUS
    <2> DEFINE wrong == \/ \E f \in Below(Found) : OnACycle(f) \/ ParseFile(f) = Bad
                        \/ Cardinality(LocalsThere) > 1
                        \/ \E f \in LocalsThere : ParseFile(f) = Bad
    <2>1. IsFiniteSet(LocalsThere)
      <3>1. LocalsThere \subseteq File BY FilesAssumption DEF LocalsThere
      <3> QED BY <3>1, FilesAssumption, FS_Subset
    <2>2. Cardinality(LocalsThere) \in Nat BY <2>1, FS_CardinalityType
    <2>3. wrong <=> Wrong
      <3>1. Cardinality(LocalsThere) > 1 <=> ~(Cardinality(LocalsThere) <= 1) BY <2>2
      <3> QED BY <3>1 DEF Wrong, LocalsAgree, Reads
    <2>4. Sound(Found) /\ LocalsAgree => ~Wrong BY DEF Sound, Wrong
    <2>5. (Resolved => ~Wrong) /\ (exit = "unresolved" => Wrong)
      BY <2>4 DEF IInv, EndOK
    <2>6. DOMAIN stack = 1..Len(stack) BY SeqFacts DEF IInv, StackOK
    <2>7. \A i, k \in DOMAIN stack : stack[i].file = stack[k].file => i = k
      BY <2>6 DEF IInv, StackOK, Distinct
    <2> HIDE DEF wrong
    <2>8. (Resolved => ~wrong) /\ (exit = "unresolved" => wrong) BY <2>3, <2>5
    <2> QED BY <2>7, <2>8 DEF OnlyCyclesAndBadFilesFail, wrong
  <1> QED BY <1>1, Invariance, PTL

-----------------------------------------------------------------------------
(* Recursion on the naturals, and what FlattenSeq computes.                *)

(* The beginning of a function that is defined by recursion.               *)
Beginning(n, S, base, step) ==
  { h \in [0..n -> S] : h[0] = base /\ \A i \in 0..n - 1 : h[i + 1] = step[i][h[i]] }

LEMMA BeginningExists ==
  ASSUME NEW S, NEW base \in S, NEW step \in [Nat -> [S -> S]], NEW n \in Nat
  PROVE  Beginning(n, S, base, step) # {}
  <1> DEFINE T == { m \in Nat : Beginning(m, S, base, step) = {} }
  <1> SUFFICES ASSUME T # {} PROVE FALSE OBVIOUS
  <1>1. PICK m \in T : \A y \in T : m <= y
    <2>1. T \subseteq Nat OBVIOUS
    <2> HIDE DEF T
    <2> QED BY <2>1, LeastNatural
  <1>2. CASE m = 0
    <2> DEFINE h == [i \in 0..0 |-> base]
    <2>1. h \in [0..0 -> S] /\ h[0] = base /\ \A i \in 0..0 - 1 : FALSE OBVIOUS
    <2> HIDE DEF h
    <2>2. h \in Beginning(0, S, base, step) BY <2>1 DEF Beginning
    <2> QED BY <1>1, <1>2, <2>2
  <1>3. CASE m # 0
    <2>1. m \in Nat /\ m - 1 \in Nat /\ ~(m <= m - 1) /\ m - 1 \in 0..m - 1
          /\ (m - 1) + 1 = m
      BY <1>3
    <2>2. m - 1 \notin T BY <1>1, <2>1
    <2>3. PICK h : h \in Beginning(m - 1, S, base, step) BY <2>1, <2>2
    <2>4. /\ h \in [0..m - 1 -> S] /\ h[0] = base
          /\ \A i \in 0..(m - 1) - 1 : h[i + 1] = step[i][h[i]]
      BY <2>3 DEF Beginning
    <2> DEFINE e == step[m - 1][h[m - 1]]
               k == [i \in 0..m |-> IF i = m THEN e ELSE h[i]]
    <2>5. e \in S BY <2>1, <2>4
    <2> HIDE DEF e
    <2>6. /\ k \in [0..m -> S] /\ k[m] = e
          /\ \A i \in 0..m - 1 : k[i] = h[i]
      BY <2>1, <2>4, <2>5
    <2> HIDE DEF k
    <2>7. ASSUME NEW i \in 0..m - 1 PROVE k[i + 1] = step[i][k[i]]
      <3>1. CASE i = m - 1 BY <2>1, <2>6, <3>1 DEF e
      <3>2. CASE i # m - 1
        <4>1. i \in 0..(m - 1) - 1 /\ i + 1 \in 0..m - 1 BY <2>1, <3>2
        <4> QED BY <2>4, <2>6, <4>1
      <3> QED BY <3>1, <3>2
    <2>8. k[0] = base BY <2>1, <2>4, <2>6
    <2>9. k \in Beginning(m, S, base, step) BY <2>6, <2>7, <2>8 DEF Beginning
    <2> QED BY <1>1, <2>9
  <1> QED BY <1>2, <1>3

LEMMA BeginningsAgree ==
  ASSUME NEW S, NEW base \in S, NEW step \in [Nat -> [S -> S]],
         NEW n \in Nat, NEW m \in Nat, n <= m,
         NEW h \in Beginning(n, S, base, step), NEW k \in Beginning(m, S, base, step)
  PROVE  \A i \in 0..n : h[i] = k[i]
  <1> DEFINE T == { i \in 0..n : h[i] # k[i] }
  <1> SUFFICES ASSUME T # {} PROVE FALSE OBVIOUS
  <1>1. PICK i \in T : \A y \in T : i <= y
    <2>1. T \subseteq Nat OBVIOUS
    <2> HIDE DEF T
    <2> QED BY <2>1, LeastNatural
  <1>2. h[0] = k[0] BY DEF Beginning
  <1>3. i \in 1..n /\ i - 1 \in 0..n /\ i - 1 \in 0..n - 1 /\ i - 1 \in 0..m - 1
        /\ (i - 1) + 1 = i /\ ~(i <= i - 1)
    BY <1>1, <1>2
  <1>4. h[i - 1] = k[i - 1] BY <1>1, <1>3
  <1>5. h[i] = step[i - 1][h[i - 1]] /\ k[i] = step[i - 1][k[i - 1]]
    <2>1. \A j \in 0..n - 1 : h[j + 1] = step[j][h[j]] BY DEF Beginning
    <2>2. \A j \in 0..m - 1 : k[j + 1] = step[j][k[j]] BY DEF Beginning
    <2>3. h[(i - 1) + 1] = step[i - 1][h[i - 1]] BY <1>3, <2>1
    <2>4. k[(i - 1) + 1] = step[i - 1][k[i - 1]] BY <1>3, <2>2
    <2> QED BY <1>3, <2>3, <2>4
  <1> QED BY <1>1, <1>4, <1>5

(* The whole of it.                                                        *)
Recursive(g, S, base, step) ==
  g \in [Nat -> S] /\ g[0] = base /\ \A n \in Nat : g[n + 1] = step[n][g[n]]

LEMMA NatRecursion ==
  ASSUME NEW S, NEW base \in S, NEW step \in [Nat -> [S -> S]]
  PROVE  \E g : Recursive(g, S, base, step)
  <1> DEFINE B(n) == Beginning(n, S, base, step)
             c(n) == CHOOSE h : h \in B(n)
             g == [n \in Nat |-> c(n)[n]]
  <1>1. \A n \in Nat : c(n) \in B(n)
    <2>1. \A n \in Nat : B(n) # {} BY BeginningExists
    <2> HIDE DEF B
    <2> QED BY <2>1
  <1>2. \A n \in Nat : \A h \in B(n) :
          /\ h \in [0..n -> S] /\ h[0] = base
          /\ \A i \in 0..n - 1 : h[i + 1] = step[i][h[i]]
    BY DEF Beginning
  <1>3. ASSUME NEW n \in Nat, NEW m \in Nat, n <= m
        PROVE  \A i \in 0..n : c(n)[i] = c(m)[i]
    <2>1. c(n) \in B(n) /\ c(m) \in B(m) BY <1>1
    <2> HIDE DEF c
    <2> QED BY <1>3, <2>1, BeginningsAgree
  <1> HIDE DEF c, B
  <1>4. \A n \in Nat : g[n] = c(n)[n] /\ n \in 0..n /\ n + 1 \in Nat /\ n <= n + 1
                       /\ n \in 0..(n + 1) - 1
    OBVIOUS
  <1>5. \A n \in Nat : g[n] \in S BY <1>1, <1>2, <1>4
  <1>6. g[0] = base BY <1>1, <1>2, <1>4
  <1>7. ASSUME NEW n \in Nat PROVE g[n + 1] = step[n][g[n]]
    <2>1. c(n + 1)[n + 1] = step[n][c(n + 1)[n]] BY <1>1, <1>2, <1>4
    <2>2. c(n + 1)[n] = c(n)[n] BY <1>3, <1>4
    <2> QED BY <1>4, <2>1, <2>2
  <1>8. g \in [Nat -> S] BY <1>5
  <1>9. Recursive(g, S, base, step) BY <1>6, <1>7, <1>8 DEF Recursive
  <1> QED BY <1>9

(* A chain of concatenations: entry i is that of the first i sequences.    *)
IsChain(h, ss, A) ==
  /\ h \in [1..Len(ss) -> Seq(A)]
  /\ h[1] = ss[1] /\ \A i \in 2..Len(ss) : h[i] = h[i - 1] \o ss[i]

LEMMA FlattenIsChain ==
  ASSUME NEW A, NEW ss \in Seq(Seq(A)), Len(ss) > 0
  PROVE  \E h : IsChain(h, ss, A) /\ FlattenSeq(ss) = h[Len(ss)]
  <1> DEFINE n == Len(ss)
             S == Seq(A)
             Def(h) == [i \in 1..n |-> IF i = 1 THEN ss[i] ELSE h[i - 1] \o ss[i]]
             flatten == CHOOSE h : h = Def(h)
  <1>0. n \in Nat /\ n > 0 /\ \A i \in 1..n : ss[i] \in S OBVIOUS
  <1>1. \E h : h = Def(h)
    <2> DEFINE step == [i \in Nat |-> [x \in S |->
                          IF i + 2 \in 1..n THEN x \o ss[i + 2] ELSE x]]
    <2>1. step \in [Nat -> [S -> S]] BY <1>0
    <2>2. \A i \in Nat, x \in S : i + 2 \in 1..n => step[i][x] = x \o ss[i + 2]
      OBVIOUS
    <2> DEFINE base == ss[1]
    <2>3. base \in S BY <1>0
    <2> HIDE DEF step, S, base
    <2>10. PICK g : Recursive(g, S, base, step)
      BY ONLY <2>1, <2>3, NatRecursion
    <2>4. g \in [Nat -> S] /\ g[0] = ss[1] /\ \A i \in Nat : g[i + 1] = step[i][g[i]]
      BY <2>10 DEF base, Recursive
    <2> DEFINE h == [i \in 1..n |-> g[i - 1]]
    <2>5. ASSUME NEW i \in 1..n PROVE h[i] = IF i = 1 THEN ss[i] ELSE h[i - 1] \o ss[i]
      <3>1. CASE i = 1 BY <2>4, <3>1
      <3>2. CASE i # 1
        <4>1. i - 2 \in Nat /\ (i - 2) + 1 = i - 1 /\ (i - 2) + 2 = i /\ i - 1 \in 1..n
              /\ (i - 1) - 1 = i - 2
          BY <1>0, <3>2
        <4>2. g[i - 1] = step[i - 2][g[i - 2]] BY <2>4, <4>1
        <4>4. g[i - 2] \in S BY <2>4, <4>1
        <4>5. step[i - 2][g[i - 2]] = g[i - 2] \o ss[(i - 2) + 2] BY <2>2, <4>1, <4>4
        <4>3. g[i - 1] = g[i - 2] \o ss[i] BY <4>1, <4>2, <4>5
        <4> QED BY <3>2, <4>1, <4>3
      <3> QED BY <3>1, <3>2
    <2>6. h = Def(h)
      <3>1. h = [i \in 1..n |-> h[i]] OBVIOUS
      <3> HIDE DEF h
      <3> QED BY <2>5, <3>1
    <2> QED BY <2>6
  <1>2. flatten = Def(flatten) BY <1>1
  <1>3. FlattenSeq(ss) = flatten[n] BY <1>0 DEF FlattenSeq
  <1> HIDE DEF flatten
  <1>4. /\ DOMAIN flatten = 1..n
        /\ \A i \in 1..n : flatten[i] = IF i = 1 THEN ss[i] ELSE flatten[i - 1] \o ss[i]
    BY <1>2
  <1>5. \A i \in 1..n : flatten[i] \in S
    <2> DEFINE T == { i \in 1..n : flatten[i] \notin S }
    <2> SUFFICES ASSUME T # {} PROVE FALSE OBVIOUS
    <2>1. PICK i \in T : \A y \in T : i <= y
      <3>1. T \subseteq Nat BY <1>0
      <3> HIDE DEF T
      <3> QED BY <3>1, LeastNatural
    <2>2. i # 1 BY <1>0, <1>4, <2>1
    <2>3. i - 1 \in 1..n /\ ~(i <= i - 1) BY <1>0, <2>1, <2>2
    <2>4. flatten[i - 1] \in S BY <2>1, <2>3
    <2>6. flatten[i] = flatten[i - 1] \o ss[i] BY <1>4, <2>1, <2>2
    <2>7. ss[i] \in S BY <1>0, <2>1
    <2>5. flatten[i] \in S BY <2>4, <2>6, <2>7
    <2> QED BY <2>1, <2>5
  <1>6. flatten \in [1..n -> S] BY <1>2, <1>5
  <1>7. flatten[1] = ss[1]
    <2>1. 1 \in 1..n BY <1>0
    <2> QED BY ONLY <1>4, <2>1
  <1>8. \A i \in 2..n : i \in 1..n /\ i # 1 BY <1>0
  <1>9. IsChain(flatten, ss, A) BY <1>4, <1>6, <1>7, <1>8 DEF IsChain
  <1> QED BY <1>3, <1>9

LEMMA FlattenNone == FlattenSeq(<<>>) = <<>>
  <1>1. Len(<<>>) = 0 OBVIOUS
  <1> QED BY <1>1 DEF FlattenSeq

LEMMA FlattenType ==
  ASSUME NEW A, NEW ss \in Seq(Seq(A))
  PROVE  FlattenSeq(ss) \in Seq(A)
  <1>1. CASE ss = <<>>
    <2>1. <<>> \in Seq(A) OBVIOUS
    <2> QED BY <1>1, <2>1, FlattenNone
  <1>2. CASE ss # <<>>
    <2>1. Len(ss) \in Nat /\ Len(ss) > 0 BY <1>2
    <2>2. PICK h : IsChain(h, ss, A) /\ FlattenSeq(ss) = h[Len(ss)] BY <2>1, FlattenIsChain
    <2>3. h \in [1..Len(ss) -> Seq(A)] /\ Len(ss) \in 1..Len(ss)
      BY <2>1, <2>2 DEF IsChain
    <2> QED BY ONLY <2>2, <2>3
  <1> QED BY <1>1, <1>2

LEMMA FlattenAppend ==
  ASSUME NEW A, NEW ss \in Seq(Seq(A)), NEW x \in Seq(A)
  PROVE  FlattenSeq(Append(ss, x)) = FlattenSeq(ss) \o x
  <1> DEFINE n == Len(ss)
             tt == Append(ss, x)
  <1>1. /\ tt \in Seq(Seq(A)) /\ Len(tt) = n + 1 /\ n \in Nat /\ n + 1 > 0
        /\ tt[n + 1] = x /\ \A i \in 1..n : tt[i] = ss[i]
    OBVIOUS
  <1> HIDE DEF tt
  <1>2. PICK k : IsChain(k, tt, A) /\ FlattenSeq(tt) = k[n + 1] BY <1>1, FlattenIsChain
  <1>3. CASE n = 0
    <2>1. ss = <<>> BY <1>3
    <2>2. FlattenSeq(ss) \o x = x BY <2>1, FlattenNone
    <2>3. k[1] = x BY <1>1, <1>2, <1>3 DEF IsChain
    <2> QED BY <1>2, <1>3, <2>2, <2>3 DEF tt
  <1>4. CASE n # 0
    <2>1. n > 0 /\ n \in 1..n /\ n \in 1..n + 1 /\ n + 1 \in 2..n + 1 /\ (n + 1) - 1 = n
      BY <1>1, <1>4
    <2>2. PICK h : IsChain(h, ss, A) /\ FlattenSeq(ss) = h[n] BY <2>1, FlattenIsChain
    <2>3. h[n] = k[n]
      <3> DEFINE T == { i \in 1..n : h[i] # k[i] }
      <3> SUFFICES ASSUME T # {} PROVE FALSE BY <2>1
      <3>1. PICK i \in T : \A y \in T : i <= y
        <4>1. T \subseteq Nat BY <1>1
        <4> HIDE DEF T
        <4> QED BY <4>1, LeastNatural
      <3>2. i # 1 BY <1>1, <1>2, <2>1, <2>2, <3>1 DEF IsChain
      <3>3. i - 1 \in 1..n /\ ~(i <= i - 1) /\ i \in 2..n /\ i \in 2..n + 1
        BY <1>1, <3>1, <3>2
      <3>4. h[i - 1] = k[i - 1] BY <3>1, <3>3
      <3>5. h[i] = h[i - 1] \o ss[i] BY <2>2, <3>3 DEF IsChain
      <3>6. k[i] = k[i - 1] \o tt[i] BY <1>1, <1>2, <3>3 DEF IsChain
      <3> QED BY <1>1, <3>1, <3>4, <3>5, <3>6
    <2>4. k[n + 1] = k[n] \o tt[n + 1] BY <1>1, <1>2, <2>1 DEF IsChain
    <2> QED BY <1>1, <1>2, <2>2, <2>3, <2>4 DEF tt
  <1> QED BY <1>3, <1>4

-----------------------------------------------------------------------------
(* The layers of a file.                                                   *)

(* What a file extends, each with its layers according to `before`.        *)
LayersBelow(before, f) ==
  [i \in DOMAIN ParseFile(f).extends |-> before[ParseFile(f).extends[i]]]

LEMMA LayersBelowType ==
  ASSUME DiskOK, NEW f \in File, Reads(f), NEW before \in [File -> Seq(File)]
  PROVE  /\ LayersBelow(before, f) \in Seq(Seq(File))
         /\ FlattenSeq(LayersBelow(before, f)) \o <<f>> \in Seq(File)
  <1> DEFINE ext == ParseFile(f).extends
  <1>1. ext \in Seq(File) BY ExtendsAreFiles
  <1>2. LayersBelow(before, f) = [i \in DOMAIN ext |-> before[ext[i]]] BY DEF LayersBelow
  <1> HIDE DEF ext
  <1>3. LayersBelow(before, f) \in [1..Len(ext) -> Seq(File)] /\ Len(ext) \in Nat BY <1>1, <1>2
  <1>4. LayersBelow(before, f) \in Seq(Seq(File)) BY <1>3
  <1>5. FlattenSeq(LayersBelow(before, f)) \in Seq(File) BY <1>4, FlattenType
  <1> HIDE DEF LayersBelow
  <1>6. FlattenSeq(LayersBelow(before, f)) \o <<f>> \in Seq(File) BY <1>5
  <1> QED BY <1>4, <1>6

(* The recursive definition of LayersWithin has a solution.                *)
LEMMA LayersDefined ==
  ASSUME DiskOK
  PROVE  /\ LayersWithin[0] = [f \in File |-> <<f>>]
         /\ \A n \in Nat :
              LayersWithin[n + 1] =
                [f \in File |-> IF ParseFile(f) = Bad THEN <<f>>
                                ELSE FlattenSeq(LayersBelow(LayersWithin[n], f)) \o <<f>>]
  <1> DEFINE S == [File -> Seq(File)]
             Above(l, f) == IF ParseFile(f) = Bad THEN <<f>>
                            ELSE FlattenSeq(LayersBelow(l, f)) \o <<f>>
             base == [f \in File |-> <<f>>]
             step == [n \in Nat |-> [l \in S |-> [f \in File |-> Above(l, f)]]]
             Body(l) == [n \in Nat |-> [f \in File |->
                           IF n = 0 \/ ParseFile(f) = Bad THEN <<f>>
                           ELSE FlattenSeq(LayersBelow(l[n - 1], f)) \o <<f>>]]
  <1>1. \A f \in File : <<f>> \in Seq(File) OBVIOUS
  <1>2. \A l \in S, f \in File : Above(l, f) \in Seq(File)
    BY <1>1, LayersBelowType DEF Reads
  <1>3. base \in S BY <1>1
  <1>4. step \in [Nat -> [S -> S]]
    <2> HIDE DEF Above
    <2>1. \A l \in S : [f \in File |-> Above(l, f)] \in S BY <1>2
    <2> QED BY <2>1
  <1>5. \E l : l = Body(l)
    <2>1. PICK g : Recursive(g, S, base, step)
      <3> HIDE DEF S, base, step
      <3> QED BY <1>3, <1>4, NatRecursion
    <2>2. g \in [Nat -> S] /\ g[0] = base /\ \A n \in Nat : g[n + 1] = step[n][g[n]]
      BY <2>1 DEF Recursive
    <2>3. \A n \in Nat : g[n + 1] = [f \in File |-> Above(g[n], f)]
      <3> HIDE DEF Above
      <3> QED BY <2>2
    <2>4. ASSUME NEW n \in Nat
          PROVE  g[n] = [f \in File |-> IF n = 0 \/ ParseFile(f) = Bad THEN <<f>>
                                        ELSE FlattenSeq(LayersBelow(g[n - 1], f)) \o <<f>>]
      <3>1. CASE n = 0 BY <2>2, <3>1
      <3>2. CASE n # 0
        <4>1. n - 1 \in Nat /\ (n - 1) + 1 = n BY <3>2
        <4>2. g[n] = [f \in File |-> Above(g[n - 1], f)] BY <2>3, <4>1
        <4> QED BY <3>2, <4>2
      <3> QED BY <3>1, <3>2
    <2>5. g = [n \in Nat |-> g[n]] BY <2>2
    <2>6. g = Body(g) BY <2>4, <2>5
    <2> QED BY <2>6
  <1>6. LayersWithin = CHOOSE l : l = Body(l) BY DEF LayersWithin, LayersBelow
  <1>7. LayersWithin = Body(LayersWithin)
    <2> HIDE DEF Body
    <2> QED BY <1>5, <1>6
  <1>8. \A n \in Nat : LayersWithin[n] =
          [f \in File |-> IF n = 0 \/ ParseFile(f) = Bad THEN <<f>>
                          ELSE FlattenSeq(LayersBelow(LayersWithin[n - 1], f)) \o <<f>>]
    BY <1>7
  <1>9. LayersWithin[0] = base BY <1>8
  <1>10. ASSUME NEW n \in Nat
         PROVE  LayersWithin[n + 1] = [f \in File |-> Above(LayersWithin[n], f)]
    <2>1. n + 1 \in Nat /\ n + 1 # 0 /\ (n + 1) - 1 = n OBVIOUS
    <2> QED BY <1>8, <2>1
  <1> QED BY <1>9, <1>10

LEMMA LayersType ==
  ASSUME DiskOK, NEW n \in Nat
  PROVE  LayersWithin[n] \in [File -> Seq(File)]
  <1> DEFINE T == { m \in Nat : LayersWithin[m] \notin [File -> Seq(File)] }
  <1> SUFFICES ASSUME T # {} PROVE FALSE OBVIOUS
  <1>1. PICK m \in T : \A y \in T : m <= y
    <2>1. T \subseteq Nat OBVIOUS
    <2> HIDE DEF T
    <2> QED BY <2>1, LeastNatural
  <1>2. \A f \in File : <<f>> \in Seq(File) OBVIOUS
  <1>3. CASE m = 0 BY <1>1, <1>2, <1>3, LayersDefined
  <1>4. CASE m # 0
    <2>1. m - 1 \in Nat /\ (m - 1) + 1 = m /\ ~(m <= m - 1) BY <1>1, <1>4
    <2>2. LayersWithin[m - 1] \in [File -> Seq(File)] BY <1>1, <2>1
    <2>3. LayersWithin[m] =
            [f \in File |-> IF ParseFile(f) = Bad THEN <<f>>
                            ELSE FlattenSeq(LayersBelow(LayersWithin[m - 1], f)) \o <<f>>]
      BY <2>1, LayersDefined
    <2>4. \A f \in File : ParseFile(f) # Bad =>
            FlattenSeq(LayersBelow(LayersWithin[m - 1], f)) \o <<f>> \in Seq(File)
      BY <2>2, LayersBelowType DEF Reads
    <2> QED BY <1>1, <1>2, <2>3, <2>4
  <1> QED BY <1>3, <1>4

-----------------------------------------------------------------------------
(* Settings and overlays.                                                  *)

(* A set of hooks sets a field.                                            *)
HooksSet(hooks, h, place, f) ==
  /\ h \in DOMAIN hooks /\ place \in Places(hooks[h])
  /\ f \in DOMAIN FieldsAt(hooks[h], place)

Sets(c, level, h, place, f) ==
  level \in Levels(c) /\ HooksSet(HooksAt(c, level), h, place, f)

LEMMA SettingsAre ==
  ASSUME NEW c
  PROVE  /\ \A level, h, place, f :
              <<level, h, place, f>> \in SettingsOf(c) <=> Sets(c, level, h, place, f)
         /\ \A s \in SettingsOf(c) : s = <<s[1], s[2], s[3], s[4]>>
         /\ \A level, h, place, f : Setting(c, <<level, h, place, f>>) =
              FieldsAt(HooksAt(c, level)[h], place)[f]
  <1> DEFINE of(level, h, place) ==
               { <<level, h, place, f>> : f \in DOMAIN FieldsAt(HooksAt(c, level)[h], place) }
             ofHook(level, h) ==
               UNION { of(level, h, place) : place \in Places(HooksAt(c, level)[h]) }
  <1>1. SettingsOf(c) = UNION { UNION { ofHook(level, h) : h \in DOMAIN HooksAt(c, level) } :
                                  level \in Levels(c) }
    BY DEF SettingsOf
  <1>2. \A s : s \in SettingsOf(c) <=>
          \E level \in Levels(c) : \E h \in DOMAIN HooksAt(c, level) : s \in ofHook(level, h)
    <2> HIDE DEF ofHook
    <2> QED BY <1>1
  <1>3. \A s, level, h : s \in ofHook(level, h) <=>
          \E place \in Places(HooksAt(c, level)[h]) : s \in of(level, h, place)
    <2> HIDE DEF of
    <2> QED OBVIOUS
  <1>4. \A s, level, h, place : s \in of(level, h, place) <=>
          \E f \in DOMAIN FieldsAt(HooksAt(c, level)[h], place) : s = <<level, h, place, f>>
    OBVIOUS
  <1> HIDE DEF of, ofHook
  <1>5. \A s : s \in SettingsOf(c) <=>
          \E level, h, place, f : s = <<level, h, place, f>> /\ Sets(c, level, h, place, f)
    BY <1>2, <1>3, <1>4 DEF Sets, HooksSet
  <1>6. ASSUME NEW level, NEW h, NEW place, NEW f
        PROVE  <<level, h, place, f>> \in SettingsOf(c) <=> Sets(c, level, h, place, f)
    BY <1>5
  <1>7. ASSUME NEW s \in SettingsOf(c) PROVE s = <<s[1], s[2], s[3], s[4]>>
    <2>1. PICK level, h, place, f : s = <<level, h, place, f>> BY <1>5
    <2> QED BY <2>1
  <1>8. \A level, h, place, f : Setting(c, <<level, h, place, f>>) =
          FieldsAt(HooksAt(c, level)[h], place)[f]
    BY DEF Setting
  <1> QED BY <1>6, <1>7, <1>8

(* What both maps have is merged, the rest is taken as it is.              *)
LEMMA OverlayMapFacts ==
  ASSUME NEW merged, NEW base, NEW over, DOMAIN merged = DOMAIN base \cap DOMAIN over
  PROVE  /\ DOMAIN OverlayMap(merged, base, over) = DOMAIN base \cup DOMAIN over
         /\ \A x \in DOMAIN base \cup DOMAIN over :
              OverlayMap(merged, base, over)[x] =
                IF x \in DOMAIN base /\ x \in DOMAIN over THEN merged[x]
                ELSE IF x \in DOMAIN over THEN over[x] ELSE base[x]
  <1>1. /\ DOMAIN Laid(over, base) = DOMAIN over \cup DOMAIN base
        /\ \A x \in DOMAIN over : Laid(over, base)[x] = over[x]
        /\ \A x \in DOMAIN base : x \notin DOMAIN over => Laid(over, base)[x] = base[x]
    BY LaidIs
  <1> DEFINE rest == Laid(over, base)
  <1> HIDE DEF rest
  <1>2. /\ DOMAIN Laid(merged, rest) = DOMAIN merged \cup DOMAIN rest
        /\ \A x \in DOMAIN merged : Laid(merged, rest)[x] = merged[x]
        /\ \A x \in DOMAIN rest : x \notin DOMAIN merged => Laid(merged, rest)[x] = rest[x]
    BY LaidIs
  <1>3. OverlayMap(merged, base, over) = Laid(merged, rest) BY DEF OverlayMap, rest
  <1>4. /\ DOMAIN rest = DOMAIN over \cup DOMAIN base
        /\ \A x \in DOMAIN over : rest[x] = over[x]
        /\ \A x \in DOMAIN base : x \notin DOMAIN over => rest[x] = base[x]
    BY <1>1 DEF rest
  <1> QED BY <1>2, <1>3, <1>4

(* One hook over another: at every place, the fields of both.              *)
LEMMA OverlayHookFacts ==
  ASSUME NEW base, NEW over
  PROVE  /\ Places(OverlayHook(base, over)) = Places(base) \cup Places(over)
         /\ \A place \in Places(base) \cup Places(over) :
              FieldsAt(OverlayHook(base, over), place) =
                IF place \in Places(base) /\ place \in Places(over)
                THEN Laid(FieldsAt(over, place), FieldsAt(base, place))
                ELSE IF place \in Places(over) THEN FieldsAt(over, place)
                     ELSE FieldsAt(base, place)
  <1> DEFINE merged == [j \in Common(base.jobs, over.jobs) |->
                          OverlayJob(base.jobs[j], over.jobs[j])]
             o == OverlayHook(base, over)
  <1>1. o.flags = Laid(over.flags, base.flags)
        /\ o.jobs = OverlayMap(merged, base.jobs, over.jobs)
    BY DEF OverlayHook
  <1>2. /\ DOMAIN merged = DOMAIN base.jobs \cap DOMAIN over.jobs
        /\ \A j \in DOMAIN merged : merged[j] = Laid(over.jobs[j], base.jobs[j])
    BY DEF Common, OverlayJob
  <1> HIDE DEF merged, o
  <1>3. /\ DOMAIN o.jobs = DOMAIN base.jobs \cup DOMAIN over.jobs
        /\ \A j \in DOMAIN base.jobs \cup DOMAIN over.jobs :
             o.jobs[j] = IF j \in DOMAIN base.jobs /\ j \in DOMAIN over.jobs
                         THEN Laid(over.jobs[j], base.jobs[j])
                         ELSE IF j \in DOMAIN over.jobs THEN over.jobs[j] ELSE base.jobs[j]
    <2> DEFINE b == base.jobs
               v == over.jobs
               m == OverlayMap(merged, b, v)
    <2>1. DOMAIN merged = DOMAIN b \cap DOMAIN v BY <1>2
    <2> HIDE DEF b, v, m
    <2>2. /\ DOMAIN m = DOMAIN b \cup DOMAIN v
          /\ \A j \in DOMAIN b \cup DOMAIN v :
               m[j] = IF j \in DOMAIN b /\ j \in DOMAIN v THEN merged[j]
                      ELSE IF j \in DOMAIN v THEN v[j] ELSE b[j]
      BY <2>1, OverlayMapFacts DEF m
    <2>3. o.jobs = m /\ \A j \in DOMAIN merged : merged[j] = Laid(v[j], b[j])
      BY <1>1, <1>2 DEF m, b, v
    <2>4. /\ DOMAIN o.jobs = DOMAIN b \cup DOMAIN v
          /\ \A j \in DOMAIN b \cup DOMAIN v :
               o.jobs[j] = IF j \in DOMAIN b /\ j \in DOMAIN v THEN Laid(v[j], b[j])
                           ELSE IF j \in DOMAIN v THEN v[j] ELSE b[j]
      BY <2>1, <2>2, <2>3
    <2> QED BY <2>4 DEF b, v
  <1>4. \A hook, place : place \in Places(hook) <=>
          place = <<>> \/ \E j \in DOMAIN hook.jobs : place = <<j>>
    BY DEF Places
  <1>5. \A j : <<j>> # <<>> /\ <<j>>[1] = j OBVIOUS
  <1>6. \A hook : FieldsAt(hook, <<>>) = hook.flags
        /\ \A j : FieldsAt(hook, <<j>>) = hook.jobs[j]
    BY <1>5 DEF FieldsAt
  <1>10. \A i, j : <<i>> = <<j>> => i = j OBVIOUS
  <1>7. \A hook, j : <<j>> \in Places(hook) <=> j \in DOMAIN hook.jobs
    BY <1>4, <1>5, <1>10
  <1>8. \A place : place \in Places(o) <=> place \in Places(base) \/ place \in Places(over)
    BY <1>3, <1>4
  <1>9. ASSUME NEW place \in Places(base) \cup Places(over)
        PROVE  FieldsAt(o, place) =
                 IF place \in Places(base) /\ place \in Places(over)
                 THEN Laid(FieldsAt(over, place), FieldsAt(base, place))
                 ELSE IF place \in Places(over) THEN FieldsAt(over, place)
                      ELSE FieldsAt(base, place)
    <2>1. CASE place = <<>>
      BY <1>1, <1>4, <1>6, <2>1
    <2>2. CASE place # <<>>
      <3>1. PICK j \in DOMAIN base.jobs \cup DOMAIN over.jobs : place = <<j>>
        BY <1>4, <1>9, <2>2
      <3> QED BY <1>3, <1>6, <1>7, <3>1
    <2> QED BY <2>1, <2>2
  <1> QED BY <1>8, <1>9 DEF o

(* `o` sets what one of the two sets, to what the second says if it does.  *)
OverlaidHooks(o, base, over) ==
  \A h, place, f :
    /\ HooksSet(o, h, place, f) <=> HooksSet(base, h, place, f) \/ HooksSet(over, h, place, f)
    /\ HooksSet(over, h, place, f) =>
         FieldsAt(o[h], place)[f] = FieldsAt(over[h], place)[f]
    /\ HooksSet(base, h, place, f) /\ ~HooksSet(over, h, place, f) =>
         FieldsAt(o[h], place)[f] = FieldsAt(base[h], place)[f]

LEMMA OverlayHooksFacts ==
  ASSUME NEW base, NEW over
  PROVE  OverlaidHooks(OverlayHooks(base, over), base, over)
  <1> DEFINE merged == [h \in Common(base, over) |-> OverlayHook(base[h], over[h])]
             o == OverlayHooks(base, over)
  <1>1. o = OverlayMap(merged, base, over) BY DEF OverlayHooks
  <1>2. /\ DOMAIN merged = DOMAIN base \cap DOMAIN over
        /\ \A h \in DOMAIN merged : merged[h] = OverlayHook(base[h], over[h])
    BY DEF Common
  <1> HIDE DEF merged, o
  <1>3. /\ DOMAIN o = DOMAIN base \cup DOMAIN over
        /\ \A h \in DOMAIN base \cup DOMAIN over :
             o[h] = IF h \in DOMAIN base /\ h \in DOMAIN over THEN merged[h]
                    ELSE IF h \in DOMAIN over THEN over[h] ELSE base[h]
    BY <1>1, <1>2, OverlayMapFacts
  <1>4. ASSUME NEW h, NEW place, NEW f
        PROVE  /\ HooksSet(o, h, place, f) <=>
                    HooksSet(base, h, place, f) \/ HooksSet(over, h, place, f)
               /\ HooksSet(over, h, place, f) =>
                    FieldsAt(o[h], place)[f] = FieldsAt(over[h], place)[f]
               /\ HooksSet(base, h, place, f) /\ ~HooksSet(over, h, place, f) =>
                    FieldsAt(o[h], place)[f] = FieldsAt(base[h], place)[f]
    <2>1. CASE h \in DOMAIN base /\ h \in DOMAIN over
      <3> DEFINE b == base[h]
                 v == over[h]
                 fb == FieldsAt(b, place)
                 fv == FieldsAt(v, place)
      <3>1. o[h] = OverlayHook(b, v) /\ h \in DOMAIN o BY <1>2, <1>3, <2>1
      <3>2. /\ Places(o[h]) = Places(b) \cup Places(v)
            /\ place \in Places(b) \cup Places(v) =>
                 FieldsAt(o[h], place) =
                   IF place \in Places(b) /\ place \in Places(v) THEN Laid(fv, fb)
                   ELSE IF place \in Places(v) THEN fv ELSE fb
        <4> HIDE DEF b, v
        <4> QED BY <3>1, OverlayHookFacts
      <3>3. \A x, y : /\ f \in DOMAIN Laid(x, y) <=> f \in DOMAIN x \/ f \in DOMAIN y
                      /\ f \in DOMAIN x => Laid(x, y)[f] = x[f]
                      /\ f \in DOMAIN y /\ f \notin DOMAIN x => Laid(x, y)[f] = y[f]
        BY DEF Laid
      <3>4. /\ HooksSet(base, h, place, f) <=> place \in Places(b) /\ f \in DOMAIN fb
            /\ HooksSet(over, h, place, f) <=> place \in Places(v) /\ f \in DOMAIN fv
            /\ HooksSet(o, h, place, f) <=>
                 place \in Places(o[h]) /\ f \in DOMAIN FieldsAt(o[h], place)
        BY <2>1, <3>1 DEF HooksSet
      <3> HIDE DEF fb, fv
      <3> QED BY <3>2, <3>3, <3>4 DEF fb, fv
    <2>2. CASE h \in DOMAIN over /\ h \notin DOMAIN base
      BY <1>3, <2>2 DEF HooksSet
    <2>3. CASE h \in DOMAIN base /\ h \notin DOMAIN over
      BY <1>3, <2>3 DEF HooksSet
    <2>4. CASE h \notin DOMAIN base /\ h \notin DOMAIN over
      BY <1>3, <2>4 DEF HooksSet
    <2> QED BY <2>1, <2>2, <2>3, <2>4
  <1> QED BY <1>4 DEF o, OverlaidHooks

LEMMA OverlayConfigSets ==
  ASSUME NEW a, NEW b, NEW level
  PROVE  LET o == OverlayConfig(a, b)
         IN  /\ level \in Levels(o) <=> level \in Levels(a) \/ level \in Levels(b)
             /\ level \in Levels(a) /\ level \in Levels(b) =>
                  OverlaidHooks(HooksAt(o, level), HooksAt(a, level), HooksAt(b, level))
             /\ level \in Levels(a) /\ level \notin Levels(b) =>
                  HooksAt(o, level) = HooksAt(a, level)
             /\ level \notin Levels(a) /\ level \in Levels(b) =>
                  HooksAt(o, level) = HooksAt(b, level)
  <1> DEFINE o == OverlayConfig(a, b)
             ap == a.packages
             bp == b.packages
             merged == [p \in Common(ap, bp) |-> OverlayPackage(ap[p], bp[p])]
             op == OverlayMap(merged, ap, bp)
  <1>1. o.hooks = OverlayHooks(a.hooks, b.hooks) /\ o.packages = op
    BY DEF OverlayConfig
  <1>2. /\ DOMAIN merged = DOMAIN ap \cap DOMAIN bp
        /\ \A p \in DOMAIN merged : merged[p].hooks = OverlayHooks(ap[p].hooks, bp[p].hooks)
    BY DEF Common, OverlayPackage
  <1> HIDE DEF merged
  <1>3. /\ DOMAIN op = DOMAIN ap \cup DOMAIN bp
        /\ \A p \in DOMAIN ap \cup DOMAIN bp :
             op[p] = IF p \in DOMAIN ap /\ p \in DOMAIN bp THEN merged[p]
                     ELSE IF p \in DOMAIN bp THEN bp[p] ELSE ap[p]
    <2> HIDE DEF ap, bp
    <2> QED BY <1>2, OverlayMapFacts
  <1>4. \A p : <<p>> # <<>> /\ <<p>>[1] = p OBVIOUS
  <1>5. \A c : level \in Levels(c) <=>
          level = <<>> \/ \E p \in DOMAIN c.packages : level = <<p>>
    BY DEF Levels
  <1>6. \A c : HooksAt(c, <<>>) = c.hooks /\ \A p : HooksAt(c, <<p>>) = c.packages[p].hooks
    BY <1>4 DEF HooksAt
  <1>7. \A i, j : <<i>> = <<j>> => i = j OBVIOUS
  <1>8. \A x, y : OverlaidHooks(OverlayHooks(x, y), x, y) BY OverlayHooksFacts
  <1> HIDE DEF o, op
  <1>9. CASE level = <<>>
    BY <1>1, <1>5, <1>6, <1>8, <1>9 DEF o
  <1>10. CASE \E p : level = <<p>>
    <2>1. PICK p : level = <<p>> BY <1>10
    <2>2. /\ level \in Levels(o) <=> p \in DOMAIN op
          /\ level \in Levels(a) <=> p \in DOMAIN ap
          /\ level \in Levels(b) <=> p \in DOMAIN bp
      BY <1>1, <1>4, <1>5, <1>7, <2>1
    <2>3. HooksAt(o, level) = op[p].hooks /\ HooksAt(a, level) = ap[p].hooks
          /\ HooksAt(b, level) = bp[p].hooks
      BY <1>1, <1>6, <2>1
    <2> HIDE DEF ap, bp
    <2>4. CASE p \in DOMAIN ap /\ p \in DOMAIN bp
      <3>1. op[p].hooks = OverlayHooks(ap[p].hooks, bp[p].hooks) BY <1>2, <1>3, <2>4
      <3> QED BY <1>3, <1>8, <2>2, <2>3, <2>4, <3>1 DEF o
    <2>5. CASE ~(p \in DOMAIN ap /\ p \in DOMAIN bp)
      BY <1>3, <2>2, <2>3, <2>5 DEF o
    <2> QED BY <2>4, <2>5
  <1>11. CASE level # <<>> /\ ~\E p : level = <<p>>
    BY <1>5, <1>11 DEF o
  <1> QED BY <1>9, <1>10, <1>11

(* merge_overlay, as a whole: what either sets, and the overlay wins.      *)
LEMMA OverlaySettings ==
  ASSUME NEW a, NEW b
  PROVE  LET o == OverlayConfig(a, b)
         IN  /\ SettingsOf(o) = SettingsOf(a) \cup SettingsOf(b)
             /\ \A s \in SettingsOf(o) :
                  Setting(o, s) = IF s \in SettingsOf(b) THEN Setting(b, s) ELSE Setting(a, s)
  <1> DEFINE o == OverlayConfig(a, b)
  <1>1. ASSUME NEW level, NEW h, NEW place, NEW f
        PROVE  /\ Sets(o, level, h, place, f) <=>
                    Sets(a, level, h, place, f) \/ Sets(b, level, h, place, f)
               /\ Sets(b, level, h, place, f) =>
                    FieldsAt(HooksAt(o, level)[h], place)[f] =
                      FieldsAt(HooksAt(b, level)[h], place)[f]
               /\ Sets(a, level, h, place, f) /\ ~Sets(b, level, h, place, f) =>
                    FieldsAt(HooksAt(o, level)[h], place)[f] =
                      FieldsAt(HooksAt(a, level)[h], place)[f]
    <2>1. /\ level \in Levels(o) <=> level \in Levels(a) \/ level \in Levels(b)
          /\ level \in Levels(a) /\ level \in Levels(b) =>
               OverlaidHooks(HooksAt(o, level), HooksAt(a, level), HooksAt(b, level))
          /\ level \in Levels(a) /\ level \notin Levels(b) =>
               HooksAt(o, level) = HooksAt(a, level)
          /\ level \notin Levels(a) /\ level \in Levels(b) =>
               HooksAt(o, level) = HooksAt(b, level)
      BY OverlayConfigSets
    <2> HIDE DEF o
    <2>2. CASE level \in Levels(a) /\ level \in Levels(b)
      BY <2>1, <2>2 DEF Sets, OverlaidHooks
    <2>3. CASE ~(level \in Levels(a) /\ level \in Levels(b))
      BY <2>1, <2>3 DEF Sets
    <2> QED BY <2>2, <2>3
  <1> HIDE DEF o
  <1>2. \A level, h, place, f :
          <<level, h, place, f>> \in SettingsOf(o) <=>
            <<level, h, place, f>> \in SettingsOf(a) \/ <<level, h, place, f>> \in SettingsOf(b)
    BY <1>1, SettingsAre
  <1>3. \A c : \A s \in SettingsOf(c) : s = <<s[1], s[2], s[3], s[4]>> BY SettingsAre
  <1>4. \A s : s \in SettingsOf(o) <=> s \in SettingsOf(a) \/ s \in SettingsOf(b)
    BY <1>2, <1>3
  <1>5. ASSUME NEW s \in SettingsOf(o)
        PROVE  Setting(o, s) = IF s \in SettingsOf(b) THEN Setting(b, s) ELSE Setting(a, s)
    <2>1. PICK level, h, place, f : s = <<level, h, place, f>> BY <1>3
    <2>2. /\ s \in SettingsOf(a) <=> Sets(a, level, h, place, f)
          /\ s \in SettingsOf(b) <=> Sets(b, level, h, place, f)
      BY <2>1, SettingsAre
    <2>3. \A c : Setting(c, s) = FieldsAt(HooksAt(c, level)[h], place)[f]
      BY <2>1, SettingsAre
    <2> QED BY <1>1, <1>4, <1>5, <2>2, <2>3
  <1> QED BY <1>4, <1>5 DEF o

-----------------------------------------------------------------------------
(* What has been merged.                                                   *)

(* The configuration is that of the files, the first overruled by all that *)
(* follow.                                                                 *)
Agrees(c, files) ==
  /\ files \in Seq(File)
  /\ SettingsOf(c) = UNION { SettingsOf(ParseFile(files[i])) : i \in 1..Len(files) }
  /\ \A i \in 1..Len(files) : \A s \in SettingsOf(ParseFile(files[i])) :
       (\A k \in i + 1..Len(files) : s \notin SettingsOf(ParseFile(files[k]))) =>
         Setting(c, s) = Setting(ParseFile(files[i]), s)

(* The layers of the calls that activation i has made.                     *)
SoFar(i, frame) ==
  FlattenSeq([k \in 1..frame.next - 1 |->
                LayersWithin[Cardinality(File) - i][frame.main.extends[k]]])

MergedOK(st) == \A i \in 1..Len(st) : Agrees(st[i].merged, SoFar(i, st[i]))

RawOK == Resolved => Agrees(raw, Layers(Found))

LInv == IInv /\ MergedOK(stack) /\ RawOK


LEMMA AgreesNone == Agrees(EmptyConfig, <<>>)
  <1>1. EmptyConfig.hooks = <<>> /\ EmptyConfig.packages = <<>> BY DEF EmptyConfig, None
  <1>2. DOMAIN <<>> = {} /\ <<>> \in Seq(File) /\ Len(<<>>) = 0 OBVIOUS
  <1>3. \A level, h, place, f : ~Sets(EmptyConfig, level, h, place, f)
    BY <1>1, <1>2 DEF Sets, HooksSet, Levels, HooksAt
  <1>4. SettingsOf(EmptyConfig) = {} BY <1>3, SettingsAre
  <1> QED BY <1>2, <1>4 DEF Agrees

(* Where the hooks and packages of a configuration are that of a file.     *)
LEMMA AgreesFile ==
  ASSUME NEW f \in File, NEW c,
         c.hooks = ParseFile(f).hooks, c.packages = ParseFile(f).packages
  PROVE  Agrees(c, <<f>>)
  <1> DEFINE m == ParseFile(f)
  <1>1. \A level : HooksAt(c, level) = HooksAt(m, level) BY DEF HooksAt
  <1>2. Levels(c) = Levels(m) BY DEF Levels
  <1> HIDE DEF m
  <1>3. SettingsOf(c) = SettingsOf(m) BY <1>1, <1>2 DEF SettingsOf
  <1>4. \A s : Setting(c, s) = Setting(m, s) BY <1>1 DEF Setting
  <1>5. <<f>> \in Seq(File) /\ Len(<<f>>) = 1 /\ <<f>>[1] = f OBVIOUS
  <1>6. 1..1 = {1} /\ ParseFile(<<f>>[1]) = m BY <1>5 DEF m
  <1>7. UNION { SettingsOf(ParseFile(<<f>>[i])) : i \in 1..Len(<<f>>) } = SettingsOf(m)
    BY <1>5, <1>6
  <1>8. \A i \in 1..Len(<<f>>) : ParseFile(<<f>>[i]) = m BY <1>5, <1>6
  <1> QED BY <1>3, <1>4, <1>5, <1>7, <1>8 DEF Agrees

LEMMA AgreesOverlay ==
  ASSUME NEW a, NEW b, NEW ls, NEW ms, Agrees(a, ls), Agrees(b, ms)
  PROVE  Agrees(OverlayConfig(a, b), ls \o ms)
  <1> DEFINE o == OverlayConfig(a, b)
             all == ls \o ms
             n == Len(ls)
             m == Len(ms)
  <1>1. ls \in Seq(File) /\ ms \in Seq(File) BY DEF Agrees
  <1>2. /\ all \in Seq(File) /\ n \in Nat /\ m \in Nat /\ Len(all) = n + m
        /\ \A i \in 1..n : all[i] = ls[i]
        /\ \A i \in 1..m : all[n + i] = ms[i]
    BY <1>1
  <1>3. /\ SettingsOf(o) = SettingsOf(a) \cup SettingsOf(b)
        /\ \A s \in SettingsOf(o) :
             Setting(o, s) = IF s \in SettingsOf(b) THEN Setting(b, s) ELSE Setting(a, s)
    BY OverlaySettings
  <1>4. /\ SettingsOf(a) = UNION { SettingsOf(ParseFile(ls[i])) : i \in 1..n }
        /\ SettingsOf(b) = UNION { SettingsOf(ParseFile(ms[i])) : i \in 1..m }
    BY DEF Agrees
  <1> HIDE DEF o, all, n, m
  <1>5. \A i \in 1..n + m : i \in 1..n \/ \E j \in 1..m : i = n + j
    <2>1. ASSUME NEW i \in 1..n + m, i \notin 1..n PROVE i - n \in 1..m /\ i = n + (i - n)
      BY <1>2, <2>1
    <2> QED BY <2>1
  <1>6. \A i \in 1..n : i \in 1..n + m BY <1>2
  <1>7. \A i \in 1..m : n + i \in 1..n + m BY <1>2
  <1>8. SettingsOf(o) = UNION { SettingsOf(ParseFile(all[i])) : i \in 1..Len(all) }
    <2>1. ASSUME NEW s \in SettingsOf(o) PROVE \E i \in 1..n + m : s \in SettingsOf(ParseFile(all[i]))
      <3>1. CASE s \in SettingsOf(a)
        <4>1. PICK i \in 1..n : s \in SettingsOf(ParseFile(ls[i])) BY <1>4, <3>1
        <4> QED BY <1>2, <1>6, <4>1
      <3>2. CASE s \in SettingsOf(b)
        <4>1. PICK i \in 1..m : s \in SettingsOf(ParseFile(ms[i])) BY <1>4, <3>2
        <4> QED BY <1>2, <1>7, <4>1
      <3> QED BY <1>3, <2>1, <3>1, <3>2
    <2>2. ASSUME NEW i \in 1..n + m, NEW s \in SettingsOf(ParseFile(all[i]))
          PROVE  s \in SettingsOf(o)
      <3>1. CASE i \in 1..n BY <1>2, <1>3, <1>4, <2>2, <3>1
      <3>2. CASE i \notin 1..n
        <4>1. PICK j \in 1..m : i = n + j BY <1>5, <3>2
        <4> QED BY <1>2, <1>3, <1>4, <2>2, <4>1
      <3> QED BY <3>1, <3>2
    <2> QED BY <1>2, <2>1, <2>2
  <1>9. ASSUME NEW i \in 1..n + m, NEW s \in SettingsOf(ParseFile(all[i])),
               \A k \in i + 1..n + m : s \notin SettingsOf(ParseFile(all[k]))
        PROVE  Setting(o, s) = Setting(ParseFile(all[i]), s)
    <2>0. s \in SettingsOf(o) BY <1>2, <1>8, <1>9
    <2>1. CASE i \in 1..n
      <3>1. all[i] = ls[i] BY <1>2, <2>1
      <3>2. \A k \in 1..m : s \notin SettingsOf(ParseFile(ms[k]))
        <4>1. \A k \in 1..m : n + k \in i + 1..n + m BY <1>2, <2>1
        <4> QED BY <1>2, <1>9, <4>1
      <3>3. s \notin SettingsOf(b) BY <1>4, <3>2
      <3>4. \A k \in i + 1..n : s \notin SettingsOf(ParseFile(ls[k]))
        <4>1. \A k \in i + 1..n : k \in i + 1..n + m /\ k \in 1..n BY <1>2, <2>1
        <4> QED BY <1>2, <1>9, <4>1
      <3>5. Setting(a, s) = Setting(ParseFile(ls[i]), s)
        BY <1>9, <2>1, <3>1, <3>4 DEF Agrees, n
      <3> QED BY <1>3, <2>0, <3>1, <3>3, <3>5
    <2>2. CASE i \notin 1..n
      <3>1. PICK j \in 1..m : i = n + j BY <1>5, <2>2
      <3>2. all[i] = ms[j] BY <1>2, <3>1
      <3>3. s \in SettingsOf(b) BY <1>4, <1>9, <3>1, <3>2
      <3>4. \A k \in j + 1..m : s \notin SettingsOf(ParseFile(ms[k]))
        <4>1. \A k \in j + 1..m : n + k \in i + 1..n + m /\ k \in 1..m BY <1>2, <3>1
        <4> QED BY <1>2, <1>9, <4>1
      <3>5. Setting(b, s) = Setting(ParseFile(ms[j]), s)
        BY <1>9, <3>1, <3>2, <3>4 DEF Agrees, m
      <3> QED BY <1>3, <2>0, <3>2, <3>3, <3>5
    <2> QED BY <2>1, <2>2
  <1> QED BY <1>2, <1>8, <1>9 DEF Agrees, o, all

LEMMA SameMerged ==
  ASSUME disk' = disk
  PROVE  /\ LayersWithin' = LayersWithin /\ Layers(Found)' = Layers(Found)
         /\ \A c, files : Agrees(c, files)' <=> Agrees(c, files)
         /\ \A i, frame : SoFar(i, frame)' = SoFar(i, frame)
  <1>1. \A f : ParseFile(f)' = ParseFile(f) BY SameDisk
  <1>2. LayersWithin' = LayersWithin BY <1>1 DEF LayersWithin
  <1>3. Local' = Local /\ LocalsThere' = LocalsThere /\ Found' = Found
    BY SameDisk DEF Local
  <1>4. Layers(Found)' = Layers(Found) BY <1>2, <1>3 DEF Layers
  <1>5. \A c, files : Agrees(c, files)' <=> Agrees(c, files)
    BY <1>1 DEF Agrees
  <1>6. \A i, frame : SoFar(i, frame)' = SoFar(i, frame)
    BY <1>2 DEF SoFar
  <1> QED BY <1>2, <1>4, <1>5, <1>6

(* No file is resolved inside itself, so the depth is bounded.             *)
LEMMA DepthBound ==
  ASSUME NEW st, NEW sn, StackOK(st, sn)
  PROVE  /\ Len(st) \in Nat /\ Cardinality(File) \in Nat
         /\ Len(st) <= Cardinality(File)
  <1> DEFINE n == Len(st)
             at == [i \in 1..n |-> st[i].file]
  <1>1. n \in Nat BY SeqFacts DEF StackOK
  <1>2. \A i \in 1..n : st[i].file \in File BY DEF StackOK, Frame
  <1>3. at \in [1..n -> File] BY <1>2
  <1>4. \A i, k \in 1..n : at[i] = at[k] => i = k BY DEF StackOK, Distinct
  <1> HIDE DEF at
  <1>5. at \in Injection(1..n, File) BY <1>3, <1>4 DEF Injection, IsInjective
  <1>6. IsFiniteSet(File) BY FilesAssumption
  <1>7. Cardinality(1..n) <= Cardinality(File) BY <1>5, <1>6, FS_Injection
  <1>8. Cardinality(1..n) = n BY <1>1, FS_Interval
  <1>9. Cardinality(File) \in Nat BY <1>6, FS_CardinalityType
  <1> QED BY <1>1, <1>7, <1>8, <1>9

LEMMA MergedEmpty == MergedOK(<<>>)
  <1>1. Len(<<>>) = 0 OBVIOUS
  <1> QED BY <1>1 DEF MergedOK

LEMMA MergedPush ==
  ASSUME NEW st, NEW sn, StackOK(st, sn), MergedOK(st), NEW f
  PROVE  MergedOK(Append(st, Call(f)))
  <1> DEFINE n == Len(st)
             s == Append(st, Call(f))
  <1>1. n \in Nat /\ Len(s) = n + 1 /\ s[n + 1] = Call(f) /\ \A i \in 1..n : s[i] = st[i]
    BY SeqFacts DEF StackOK
  <1> HIDE DEF s
  <1>2. SoFar(n + 1, Call(f)) = <<>>
    <2> DEFINE at(k) == LayersWithin[Cardinality(File) - (n + 1)][Call(f).main.extends[k]]
    <2>1. Call(f).next = 1 BY DEF Call
    <2>2. SoFar(n + 1, Call(f)) = FlattenSeq([k \in 1..1 - 1 |-> at(k)])
      BY <2>1 DEF SoFar
    <2> HIDE DEF at
    <2>3. 1 - 1 = 0 /\ [k \in 1..0 |-> at(k)] = <<>> OBVIOUS
    <2> QED BY <2>2, <2>3, FlattenNone
  <1>3. Call(f).merged = EmptyConfig BY DEF Call
  <1>4. Agrees(s[n + 1].merged, SoFar(n + 1, s[n + 1]))
    BY <1>1, <1>2, <1>3, AgreesNone
  <1>5. \A i \in 1..n : Agrees(s[i].merged, SoFar(i, s[i]))
    BY <1>1 DEF MergedOK
  <1>6. \A i \in 1..n + 1 : i \in 1..n \/ i = n + 1 BY <1>1
  <1>7. MergedOK(s) BY <1>1, <1>4, <1>5, <1>6 DEF MergedOK
  <1> QED BY <1>7 DEF s

(* What a call returns is that of the layers of its file.                  *)
LEMMA AgreesReturn ==
  ASSUME DiskOK, NEW st, NEW sn, StackOK(st, sn), MergedOK(st), Returning(st)
  PROVE  Agrees(Merged(st[Len(st)]),
                LayersWithin[Cardinality(File) - Len(st) + 1][st[Len(st)].file])
  <1> DEFINE n == Len(st)
             top == st[n]
             f == top.file
             ext == ParseFile(f).extends
             N == Cardinality(File)
  <1>1. n \in Nat /\ N \in Nat /\ n <= N BY DepthBound
  <1>2. n \in 1..n BY <1>1 DEF StackOK, Returning
  <1>3. Frame(top) /\ Agrees(top.merged, SoFar(n, top)) BY <1>2 DEF StackOK, MergedOK
  <1>4. f \in File /\ Reads(f) /\ top.main = ParseFile(f) /\ ext \in Seq(File)
    BY <1>3, ExtendsAreFiles DEF Frame
  <1> HIDE DEF f, N
  <1>5. top.next - 1 = Len(ext)
    <2>1. top.next \in 1..Len(ext) + 1 /\ top.next \notin 1..Len(ext)
      BY <1>3, <1>4 DEF Frame, Returning
    <2>2. Len(ext) \in Nat BY <1>4
    <2> QED BY <2>1, <2>2
  <1>6. SoFar(n, top) = FlattenSeq(LayersBelow(LayersWithin[N - n], f))
    <2>1. DOMAIN ext = 1..Len(ext) BY <1>4
    <2>2. LayersBelow(LayersWithin[N - n], f) =
            [k \in 1..Len(ext) |-> LayersWithin[N - n][ext[k]]]
      BY <2>1 DEF LayersBelow
    <2>3. SoFar(n, top) = FlattenSeq([k \in 1..Len(ext) |-> LayersWithin[N - n][ext[k]]])
      BY <1>4, <1>5 DEF SoFar, N
    <2> QED BY <2>2, <2>3
  <1>7. Agrees([top.main EXCEPT !.extends = <<>>], <<f>>)
    <2> DEFINE m == ParseFile(f)
               c == [m EXCEPT !.extends = <<>>]
    <2>1. m = [meta |-> m.meta, extends |-> m.extends, hooks |-> m.hooks,
               packages |-> m.packages]
      BY <1>4 DEF DiskOK, IsRawConfig
    <2> HIDE DEF m
    <2>2. c.hooks = m.hooks /\ c.packages = m.packages BY <2>1
    <2> HIDE DEF c
    <2>3. Agrees(c, <<f>>) BY <1>4, <2>2, AgreesFile DEF m
    <2> QED BY <1>4, <2>3 DEF c, m
  <1>8. Agrees(Merged(top), SoFar(n, top) \o <<f>>)
    BY <1>3, <1>7, AgreesOverlay DEF Merged
  <1>9. LayersWithin[N - n + 1][f] = SoFar(n, top) \o <<f>>
    <2>1. N - n \in Nat BY <1>1
    <2>2. LayersWithin[N - n + 1] =
            [g \in File |-> IF ParseFile(g) = Bad THEN <<g>>
                            ELSE FlattenSeq(LayersBelow(LayersWithin[N - n], g)) \o <<g>>]
      BY <2>1, LayersDefined
    <2> QED BY <1>4, <1>6, <2>2 DEF Reads
  <1> QED BY <1>8, <1>9 DEF f, N

LEMMA MergedPop ==
  ASSUME DiskOK, NEW st, NEW sn, StackOK(st, sn), MergedOK(st), Returning(st), Len(st) > 1
  PROVE  MergedOK(Popped(st))
  <1> DEFINE n == Len(st)
             f == st[n].file
             caller == st[n - 1]
             ext == caller.main.extends
             s == Popped(st)
             N == Cardinality(File)
             j == N - (n - 1)
  <1>1. /\ n \in Nat /\ N \in Nat /\ n <= N /\ n - 1 \in 1..n - 1 /\ n - 1 \in 1..n
        /\ j = N - n + 1 /\ j \in Nat
        /\ \A i \in 1..n - 1 : i \in 1..n
    BY DepthBound
  <1>2. /\ Len(s) = n - 1
        /\ \A i \in 1..n - 1 : s[i] = IF i = n - 1 THEN Resume(st[i], st[n]) ELSE st[i]
    BY PoppedFacts DEF StackOK
  <1>3. Frame(caller) /\ Agrees(caller.merged, SoFar(n - 1, caller))
    BY <1>1 DEF StackOK, MergedOK
  <1>4. caller.next \in 1..Len(ext) /\ f = ext[caller.next] /\ ext \in Seq(File)
    <2>1. (n - 1) + 1 = n BY <1>1
    <2>2. st # <<>> BY DEF Returning
    <2>3. ext \in Seq(File) BY <1>3, ExtendsAreFiles DEF Frame
    <2> QED BY <1>1, <2>1, <2>2, <2>3 DEF StackOK, Chained
  <1>5. Agrees(Merged(st[n]), LayersWithin[j][f])
    <2>1. Agrees(Merged(st[n]), LayersWithin[N - n + 1][f]) BY AgreesReturn
    <2> QED BY <1>1, <2>1
  <1>6. LayersWithin[j] \in [File -> Seq(File)] BY <1>1, LayersType
  <1> HIDE DEF j, s, N
  <1> DEFINE r == Resume(caller, st[n])
  <1>7. /\ r.merged = OverlayConfig(caller.merged, Merged(st[n]))
        /\ r.next = caller.next + 1 /\ r.main = caller.main
    <2>1. caller = [file |-> caller.file, main |-> caller.main, next |-> caller.next,
                    merged |-> caller.merged]
      BY <1>3 DEF Frame
    <2> DEFINE o == OverlayConfig(caller.merged, Merged(st[n]))
    <2>2. r = [caller EXCEPT !.next = caller.next + 1, !.merged = o] BY DEF Resume
    <2> HIDE DEF o, caller, r
    <2>3. r.merged = o /\ r.next = caller.next + 1 /\ r.main = caller.main
      BY <2>1, <2>2
    <2> QED BY <2>3 DEF o
  <1>8. SoFar(n - 1, r) = SoFar(n - 1, caller) \o LayersWithin[j][f]
    <2> DEFINE k == caller.next
               ss == [i \in 1..k - 1 |-> LayersWithin[j][ext[i]]]
               tt == [i \in 1..k |-> LayersWithin[j][ext[i]]]
    <2> HIDE DEF ext, f
    <2>1. k \in Nat /\ k >= 1 /\ (k + 1) - 1 = k /\ k - 1 \in Nat
          /\ \A i \in 1..k : ext[i] \in File
      BY <1>4
    <2>2. ss \in Seq(Seq(File)) /\ Len(ss) = k - 1
      <3>1. \A i \in 1..k - 1 : LayersWithin[j][ext[i]] \in Seq(File) BY <1>6, <2>1
      <3>2. ss \in [1..k - 1 -> Seq(File)]
        <4> DEFINE at(i) == LayersWithin[j][ext[i]]
        <4> HIDE DEF k
        <4>1. \A i \in 1..k - 1 : at(i) \in Seq(File) BY <3>1
        <4> HIDE DEF at
        <4>2. [i \in 1..k - 1 |-> at(i)] \in [1..k - 1 -> Seq(File)] BY <4>1
        <4> QED BY <4>2 DEF at
      <3> HIDE DEF ss, k
      <3> QED BY <2>1, <3>2
    <2>3. LayersWithin[j][f] \in Seq(File) BY <1>4, <1>6, <2>1
    <2>4. tt = Append(ss, LayersWithin[j][f])
      <3> DEFINE x == LayersWithin[j][f]
      <3>1. /\ Append(ss, x) \in Seq(Seq(File)) /\ Len(Append(ss, x)) = k
            /\ \A i \in 1..k - 1 : Append(ss, x)[i] = ss[i]
            /\ Append(ss, x)[k] = x
        <4> HIDE DEF ss, x
        <4> QED BY <2>1, <2>2, <2>3 DEF x
      <3>2. \A i \in 1..k : Append(ss, x)[i] = LayersWithin[j][ext[i]]
        <4>1. \A i \in 1..k : i \in 1..k - 1 \/ i = k BY <2>1
        <4>2. \A i \in 1..k - 1 : ss[i] = LayersWithin[j][ext[i]] OBVIOUS
        <4> HIDE DEF ss
        <4> QED BY <1>4, <3>1, <4>1, <4>2
      <3>3. Append(ss, x) = [i \in 1..k |-> Append(ss, x)[i]]
        <4>1. \A t \in Seq(Seq(File)) : t = [i \in 1..Len(t) |-> t[i]] OBVIOUS
        <4> HIDE DEF ss, x
        <4> QED BY <3>1, <4>1
      <3> HIDE DEF ss
      <3> QED BY <3>2, <3>3
    <2>5. SoFar(n - 1, caller) = FlattenSeq(ss) BY DEF SoFar, j, ext, N
    <2>6. SoFar(n - 1, r) = FlattenSeq(tt)
      <3> HIDE DEF r
      <3> QED BY <1>7, <2>1 DEF SoFar, j, ext, N
    <2> HIDE DEF ss, tt
    <2> QED BY <2>2, <2>3, <2>4, <2>5, <2>6, FlattenAppend
  <1>9. Agrees(r.merged, SoFar(n - 1, r))
    BY <1>3, <1>5, <1>7, <1>8, AgreesOverlay
  <1>10. ASSUME NEW i \in 1..n - 1 PROVE Agrees(s[i].merged, SoFar(i, s[i]))
    <2>1. CASE i = n - 1 BY <1>2, <1>9, <2>1
    <2>2. CASE i # n - 1 BY <1>1, <1>2, <2>2 DEF MergedOK
    <2> QED BY <2>1, <2>2
  <1>11. MergedOK(s) BY <1>2, <1>10 DEF MergedOK
  <1> QED BY <1>11 DEF s

LEMMA LInitHolds == Init => LInv
  BY InitHolds, MergedEmpty DEF LInv, Init, RawOK, Resolved

(* What an activation has merged is told from the stack and the disk.      *)
LEMMA SameMergedStack ==
  ASSUME disk' = disk, MergedOK(stack')
  PROVE  MergedOK(stack)'
  BY SameMerged DEF MergedOK

LEMMA LEnter ==
  ASSUME LInv, Enter
  PROVE  MergedOK(stack')
  <1> DEFINE f == Wanted[1]
  <1>1. CASE IsCircular(f) \/ ParseFile(f) = Bad
    BY <1>1 DEF Enter, LInv
  <1>2. CASE ~(IsCircular(f) \/ ParseFile(f) = Bad)
    <2>1. stack' = Append(stack, Call(f)) BY <1>2 DEF Enter, Call
    <2> HIDE DEF f
    <2>2. MergedOK(Append(stack, Call(f))) BY MergedPush DEF LInv, IInv
    <2> QED BY <2>1, <2>2
  <1> QED BY <1>1, <1>2

LEMMA LApply ==
  ASSUME LInv, ApplyLocal, pc' = "lowering"
  PROVE  Agrees(raw', Layers(Found))
  <1> DEFINE N == Cardinality(File)
             L == LayersWithin[N][Found]
  <1>1. Len(stack) = 1 /\ Wanted = <<>> /\ DiskOK /\ StackOK(stack, seen) /\ MergedOK(stack)
    BY DEF ApplyLocal, LInv, IInv
  <1>2. Returning(stack) BY <1>1, NothingWanted
  <1>3. stack[1].file = Found BY <1>1, <1>2 DEF StackOK, Chained, Returning
  <1>4. Agrees(Merged(stack[1]), L)
    <2>1. Agrees(Merged(stack[1]), LayersWithin[N - 1 + 1][stack[1].file])
      BY <1>1, <1>2, AgreesReturn
    <2>2. N \in Nat BY <1>1, DepthBound
    <2> HIDE DEF N
    <2>3. N - 1 + 1 = N BY <2>2
    <2> QED BY <1>3, <2>1, <2>3
  <1>5. /\ ~(Cardinality(LocalsThere) > 1 \/ Bad \in { ParseFile(f) : f \in LocalsThere })
        /\ raw' = IF LocalsThere = {} THEN Merged(stack[1])
                  ELSE OverlayConfig(Merged(stack[1]), ParseFile(Local))
    BY DEF ApplyLocal, Ends
  <1> HIDE DEF L, N
  <1>6. CASE LocalsThere = {}
    <2>1. L \in Seq(File) BY <1>4 DEF Agrees
    <2>2. Layers(Found) = L \o <<>> BY <1>6 DEF Layers, L, N
    <2>3. Layers(Found) = L BY <2>1, <2>2
    <2> QED BY <1>4, <1>5, <1>6, <2>3
  <1>7. CASE LocalsThere # {}
    <2>1. Local \in File
      <3>1. Local \in LocalsThere BY <1>7 DEF Local
      <3> QED BY <3>1, FilesAssumption DEF LocalsThere
    <2>2. Agrees(ParseFile(Local), <<Local>>) BY <2>1, AgreesFile
    <2>3. Layers(Found) = L \o <<Local>> BY <1>7 DEF Layers, L, N
    <2>4. Agrees(OverlayConfig(Merged(stack[1]), ParseFile(Local)), L \o <<Local>>)
      BY <1>4, <2>2, AgreesOverlay
    <2> QED BY <1>5, <1>7, <2>3, <2>4
  <1> QED BY <1>6, <1>7

LEMMA LNextHolds == LInv /\ [Next]_vars => LInv'
  <1> SUFFICES ASSUME LInv, [Next]_vars PROVE LInv' OBVIOUS
  <1>1. IInv' BY NextHolds DEF LInv
  <1>2. CASE Import
    <2>1. stack' = <<>> /\ pc' = "start"
      BY <1>2 DEF Import, LInv, IInv, EndOK
    <2>2. MergedOK(stack)' BY <2>1, MergedEmpty DEF MergedOK
    <2> QED BY <1>1, <2>1, <2>2 DEF LInv, RawOK, Resolved
  <1>3. CASE FindConfig
    <2>1. disk' = disk /\ stack' = stack /\ There' = There
      BY <1>3, SameDisk DEF FindConfig
    <2>2. MergedOK(stack)' BY <2>1, SameMergedStack DEF LInv
    <2>3. ~Resolved' BY <1>3, <2>1 DEF FindConfig, Ends, Resolved
    <2> QED BY <1>1, <2>2, <2>3 DEF LInv, RawOK
  <1>4. CASE Enter
    <2>1. disk' = disk BY <1>4 DEF Enter
    <2>2. MergedOK(stack)' BY <1>4, <2>1, LEnter, SameMergedStack
    <2>3. ~Resolved' BY <1>4 DEF Enter, Ends, Resolved
    <2> QED BY <1>1, <2>2, <2>3 DEF LInv, RawOK
  <1>5. CASE Return
    <2>1. disk' = disk /\ stack' = Popped(stack) /\ Len(stack) > 1 /\ pc' = "resolving"
      BY <1>5 DEF Return, Popped
    <2>2. Returning(stack) BY <1>5, NothingWanted DEF Return, LInv, IInv
    <2>3. MergedOK(stack') BY <2>1, <2>2, MergedPop DEF LInv, IInv
    <2>4. MergedOK(stack)' BY <2>1, <2>3, SameMergedStack
    <2> QED BY <1>1, <2>1, <2>4 DEF LInv, RawOK, Resolved
  <1>6. CASE ApplyLocal
    <2>1. disk' = disk /\ stack' = <<>> BY <1>6 DEF ApplyLocal
    <2>2. MergedOK(stack)' BY <2>1, MergedEmpty, SameMergedStack
    <2>3. ASSUME Resolved' PROVE Agrees(raw, Layers(Found))'
      <3>1. pc' = "lowering" BY <1>6, <2>3 DEF ApplyLocal, Ends, Resolved
      <3>2. Agrees(raw', Layers(Found)) BY <1>6, <3>1, LApply
      <3> QED BY <2>1, <3>2, SameMerged
    <2> QED BY <1>1, <2>2, <2>3 DEF LInv, RawOK
  <1>7. ASSUME disk' = disk, stack' = stack, raw' = raw, Resolved' => Resolved
        PROVE  LInv'
    <2>1. MergedOK(stack)' BY <1>7, SameMergedStack DEF LInv
    <2>2. RawOK' BY <1>7, SameMerged DEF LInv, RawOK
    <2> QED BY <1>1, <2>1, <2>2 DEF LInv
  <1>8. exit = "unresolved" => pc = "done" BY DEF LInv, IInv, EndOK
  <1>9. disk' = disk => There' = There BY SameDisk
  <1>10. CASE LowerConfig BY <1>7, <1>8, <1>9, <1>10 DEF LowerConfig, Resolved
  <1>11. CASE Select BY <1>7, <1>8, <1>9, <1>11 DEF Select, Resolved
  <1>12. CASE NoSuchHook BY <1>7, <1>8, <1>9, <1>12 DEF NoSuchHook, Resolved
  <1>13. CASE SelectRun BY <1>7, <1>8, <1>9, <1>13 DEF SelectRun, Resolved
  <1>14. CASE SelectFix BY <1>7, <1>8, <1>9, <1>14 DEF SelectFix, Resolved
  <1>15. CASE Show BY <1>7, <1>8, <1>9, <1>15 DEF Show, Resolved
  <1>16. CASE PlanJob BY <1>7, <1>8, <1>9, <1>16 DEF PlanJob, Resolved
  <1>17. CASE Planned BY <1>7, <1>8, <1>9, <1>17 DEF Planned, Resolved
  <1>18. CASE UNCHANGED vars BY <1>7, <1>9, <1>18 DEF vars, Resolved
  <1> QED BY <1>2, <1>3, <1>4, <1>5, <1>6, <1>10, <1>11, <1>12, <1>13, <1>14,
             <1>15, <1>16, <1>17, <1>18 DEF Next, Done

(* A set of positions that is not empty has a last one.                    *)
LEMMA LastPosition ==
  ASSUME NEW n \in Nat, NEW T, T \subseteq 1..n, T # {}
  PROVE  \E i \in T : \A k \in i + 1..n : k \notin T
  <1> DEFINE U == { n - i : i \in T }
  <1>1. U \subseteq Nat /\ U # {} OBVIOUS
  <1>2. \E x \in U : \A y \in U : x <= y
    <2> HIDE DEF U
    <2> QED BY <1>1, LeastNatural
  <1>3. PICK i \in T : \A k \in T : n - i <= n - k BY <1>2
  <1>4. \A k \in i + 1..n : k \notin T BY <1>3
  <1> QED BY <1>3, <1>4

(* What resolve returns has every setting that a file on the way sets,     *)
(* with the value of the last layer that sets it, however often and in     *)
(* whatever shape the files extend each other.                             *)
THEOREM MergeIsByLayers == Spec => []LastWriterWins
  <1>1. Spec => []LInv
    BY LInitHolds, LNextHolds, PTL DEF Spec
  <1>2. LInv => LastWriterWins
    <2> SUFFICES ASSUME LInv, Resolved PROVE LastWriterWins BY DEF LastWriterWins
    <2> DEFINE L == Layers(Found)
               n == Len(L)
               said == [i \in DOMAIN L |-> ParseFile(L[i])]
               all == UNION { SettingsOf(said[i]) : i \in DOMAIN said }
               Last_(s, i) == /\ s \in SettingsOf(said[i])
                              /\ \A k \in i + 1..Len(said) : s \notin SettingsOf(said[k])
               last(s) == CHOOSE i \in DOMAIN said : Last_(s, i)
    <2>1. Agrees(raw, L) BY DEF LInv, RawOK
    <2> HIDE DEF L
    <2>2. L \in Seq(File) BY <2>1 DEF Agrees
    <2>3. n \in Nat /\ DOMAIN L = 1..n BY <2>2
    <2>4. DOMAIN said = 1..n /\ \A i \in 1..n : said[i] = ParseFile(L[i]) BY <2>3
    <2>5. Len(said) = n
      <3> DEFINE T == { said[i] : i \in 1..n }
      <3>1. said \in [1..n -> T] BY <2>4
      <3> HIDE DEF said, T
      <3> QED BY <2>3, <3>1
    <2> HIDE DEF said, n
    <2>6. /\ SettingsOf(raw) = UNION { SettingsOf(ParseFile(L[i])) : i \in 1..n }
          /\ \A i \in 1..n : \A s \in SettingsOf(ParseFile(L[i])) :
               (\A k \in i + 1..n : s \notin SettingsOf(ParseFile(L[k]))) =>
                 Setting(raw, s) = Setting(ParseFile(L[i]), s)
      BY <2>1 DEF Agrees, n
    <2>7. SettingsOf(raw) = all BY <2>4, <2>6
    <2>8. ASSUME NEW s \in all PROVE Setting(raw, s) = Setting(said[last(s)], s)
      <3> DEFINE T == { i \in 1..n : s \in SettingsOf(said[i]) }
      <3>1. T \subseteq 1..n /\ T # {} BY <2>4, <2>8
      <3>2. \E i \in T : \A k \in i + 1..n : k \notin T
        <4> HIDE DEF T
        <4> QED BY <2>3, <3>1, LastPosition
      <3>3. PICK i \in T : \A k \in i + 1..n : k \notin T BY <3>2
      <3>4. \A k \in i + 1..n : k \in 1..n BY <2>3, <3>1, <3>3
      <3>5. i \in DOMAIN said /\ Last_(s, i) BY <2>4, <2>5, <3>3, <3>4
      <3>6. last(s) \in DOMAIN said /\ Last_(s, last(s))
        <4> HIDE DEF Last_
        <4> QED BY <3>5
      <3> HIDE DEF last
      <3> DEFINE j == last(s)
      <3>7. /\ j \in 1..n /\ s \in SettingsOf(said[j])
            /\ \A k \in j + 1..n : s \notin SettingsOf(said[k])
        BY <2>4, <2>5, <3>6
      <3>8. \A k \in j + 1..n : k \in 1..n BY <2>3, <3>7
      <3> HIDE DEF j
      <3>9. Setting(raw, s) = Setting(ParseFile(L[j]), s) BY <2>4, <2>6, <3>7, <3>8
      <3> QED BY <2>4, <3>7, <3>9 DEF j
    <2> QED BY <2>7, <2>8 DEF LastWriterWins, L, said
  <1> QED BY <1>1, <1>2, PTL

-----------------------------------------------------------------------------
(* From files to commands.                                                 *)

(* A function on 0..n that is defined by recursion has a solution.         *)
Solves(h, n, S, base, step) ==
  h \in [0..n -> S] /\ h[0] = base /\ \A i \in 1..n : h[i] = step[i][h[i - 1]]

(* As NatRecursion has it of functions on the naturals.                    *)
LEMMA BoundedRecursion ==
  ASSUME NEW S, NEW base \in S, NEW n \in Nat, NEW step \in [1..n -> [S -> S]]
  PROVE  \E h : Solves(h, n, S, base, step)
  <1> DEFINE next == [i \in Nat |-> [x \in S |-> IF i + 1 \in 1..n THEN step[i + 1][x] ELSE x]]
  <1>1. next \in [Nat -> [S -> S]] OBVIOUS
  <1>2. \A i \in Nat : i + 1 \in 1..n => next[i] = [x \in S |-> step[i + 1][x]] OBVIOUS
  <1> HIDE DEF next
  <1>3. PICK h : h \in Beginning(n, S, base, next) BY <1>1, BeginningExists
  <1>4. /\ h \in [0..n -> S] /\ h[0] = base
        /\ \A i \in 0..n - 1 : h[i + 1] = next[i][h[i]]
    BY <1>3 DEF Beginning
  <1>5. ASSUME NEW i \in 1..n PROVE h[i] = step[i][h[i - 1]]
    <2>1. i - 1 \in 0..n - 1 /\ i - 1 \in 0..n /\ i - 1 \in Nat /\ (i - 1) + 1 = i OBVIOUS
    <2>2. h[i] = next[i - 1][h[i - 1]] BY <1>4, <2>1
    <2>3. h[i - 1] \in S BY <1>4, <2>1
    <2> QED BY <1>2, <2>1, <2>2, <2>3
  <1> QED BY <1>4, <1>5 DEF Solves

(* Joined is the sum that its definition by recursion says.                *)
LEMMA JoinedIs ==
  ASSUME NEW s \in Seq(DOMAIN Bytes)
  PROVE  \E h \in [0..Len(s) -> Nat] :
           /\ h[0] = 0 /\ \A i \in 1..Len(s) : h[i] = h[i - 1] + Bytes[s[i]] + 1
           /\ Joined(s) = h[Len(s)]
  <1> DEFINE n == Len(s)
             Body(h) == [i \in 0..n |-> IF i = 0 THEN 0 ELSE h[i - 1] + Bytes[s[i]] + 1]
             bytes == CHOOSE h : h = Body(h)
             step == [i \in 1..n |-> [x \in Nat |-> x + Bytes[s[i]] + 1]]
  <1>1. n \in Nat /\ n \in 0..n /\ \A i \in 1..n : s[i] \in DOMAIN Bytes /\ Bytes[s[i]] \in Nat
    BY BytesAssumption
  <1>2. step \in [1..n -> [Nat -> Nat]] BY <1>1
  <1>3. \E h : h = Body(h)
    <2>1. PICK h \in [0..n -> Nat] : h[0] = 0 /\ \A i \in 1..n : h[i] = step[i][h[i - 1]]
      <3> DEFINE S == Nat
                 base == 0
      <3>1. base \in S /\ step \in [1..n -> [S -> S]] BY <1>2
      <3> HIDE DEF step, n, S, base
      <3>2. PICK h : Solves(h, n, S, base, step) BY ONLY <1>1, <3>1, BoundedRecursion
      <3> QED BY <3>2 DEF S, base, Solves
    <2>2. ASSUME NEW i \in 0..n PROVE h[i] = IF i = 0 THEN 0 ELSE h[i - 1] + Bytes[s[i]] + 1
      <3>1. CASE i = 0 BY <2>1, <3>1
      <3>2. CASE i # 0
        <4>1. i \in 1..n /\ i - 1 \in 0..n BY <1>1, <3>2
        <4>2. h[i - 1] \in Nat BY <4>1
        <4> QED BY <2>1, <3>2, <4>1, <4>2
      <3> QED BY <3>1, <3>2
    <2>3. h = [i \in 0..n |-> h[i]] OBVIOUS
    <2> HIDE DEF n
    <2>4. h = Body(h) BY <2>2, <2>3
    <2> QED BY <2>4
  <1>4. bytes = Body(bytes) BY <1>3
  <1>5. Joined(s) = bytes[n] BY DEF Joined
  <1> HIDE DEF bytes, n
  <1>6. /\ bytes[0] = 0 /\ DOMAIN bytes = 0..n
        /\ \A i \in 1..n : bytes[i] = bytes[i - 1] + Bytes[s[i]] + 1
    <2>1. \A i \in 1..n : i \in 0..n /\ i # 0 BY <1>1
    <2>2. 0 \in 0..n BY <1>1
    <2> QED BY <1>4, <2>1, <2>2
  <1>7. \A i \in 0..n : bytes[i] \in Nat
    <2> DEFINE T == { i \in 0..n : bytes[i] \notin Nat }
    <2> SUFFICES ASSUME T # {} PROVE FALSE OBVIOUS
    <2>1. PICK i \in T : \A y \in T : i <= y
      <3>1. T \subseteq Nat BY <1>1
      <3> HIDE DEF T
      <3> QED BY <3>1, LeastNatural
    <2>2. i \in 1..n /\ i - 1 \in 0..n /\ ~(i <= i - 1) BY <1>1, <1>6, <2>1
    <2>3. bytes[i - 1] \in Nat BY <2>1, <2>2
    <2>4. bytes[i] = bytes[i - 1] + Bytes[s[i]] + 1 BY <1>6, <2>2
    <2>5. Bytes[s[i]] \in Nat BY <1>1, <2>2
    <2>6. bytes[i] \in Nat BY <2>3, <2>4, <2>5
    <2> QED BY <2>1, <2>6
  <1>8. bytes \in [0..n -> Nat] BY <1>4, <1>7
  <1> QED BY <1>5, <1>6, <1>8 DEF n

(* A file more is so many bytes more.                                      *)
LEMMA JoinedAppend ==
  ASSUME NEW s \in Seq(DOMAIN Bytes), NEW f \in DOMAIN Bytes
  PROVE  /\ Joined(s) \in Nat
         /\ Joined(Append(s, f)) = Joined(s) + Bytes[f] + 1
  <1> DEFINE n == Len(s)
             t == Append(s, f)
  <1>1. /\ t \in Seq(DOMAIN Bytes) /\ Len(t) = n + 1 /\ n \in Nat
        /\ t[n + 1] = f /\ \A i \in 1..n : t[i] = s[i]
    OBVIOUS
  <1>2. PICK h \in [0..n -> Nat] :
          /\ h[0] = 0 /\ \A i \in 1..n : h[i] = h[i - 1] + Bytes[s[i]] + 1
          /\ Joined(s) = h[n]
    BY JoinedIs
  <1> HIDE DEF t
  <1>3. PICK k \in [0..n + 1 -> Nat] :
          /\ k[0] = 0 /\ \A i \in 1..n + 1 : k[i] = k[i - 1] + Bytes[t[i]] + 1
          /\ Joined(t) = k[n + 1]
    BY <1>1, JoinedIs
  <1>4. h[n] = k[n]
    <2> DEFINE T == { i \in 0..n : h[i] # k[i] }
    <2> SUFFICES ASSUME T # {} PROVE FALSE BY <1>1
    <2>1. PICK i \in T : \A y \in T : i <= y
      <3>1. T \subseteq Nat BY <1>1
      <3> HIDE DEF T
      <3> QED BY <3>1, LeastNatural
    <2>2. i \in 1..n /\ i \in 1..n + 1 /\ i - 1 \in 0..n /\ ~(i <= i - 1)
      BY <1>1, <1>2, <1>3, <2>1
    <2>3. h[i - 1] = k[i - 1] BY <2>1, <2>2
    <2> QED BY <1>1, <1>2, <1>3, <2>1, <2>2, <2>3
  <1>5. n + 1 \in 1..n + 1 /\ (n + 1) - 1 = n /\ n \in 0..n BY <1>1
  <1>6. k[n + 1] = k[n] + Bytes[f] + 1 BY <1>1, <1>3, <1>5
  <1>7. Joined(s) \in Nat BY <1>2, <1>5
  <1> QED BY <1>2, <1>3, <1>4, <1>6, <1>7 DEF t

(* The last of a list of lists gets an element more.                       *)
Extended(ss, x) == [ss EXCEPT ![Len(ss)] = Append(ss[Len(ss)], x)]

(* All their elements together get it at the end.                          *)
LEMMA FlattenExtend ==
  ASSUME NEW A, NEW ss \in Seq(Seq(A)), Len(ss) > 0, NEW x \in A
  PROVE  /\ Extended(ss, x) \in Seq(Seq(A)) /\ Len(Extended(ss, x)) = Len(ss)
         /\ \A i \in 1..Len(ss) :
              Extended(ss, x)[i] = IF i = Len(ss) THEN Append(ss[i], x) ELSE ss[i]
         /\ FlattenSeq(Extended(ss, x)) = Append(FlattenSeq(ss), x)
  <1> DEFINE n == Len(ss)
             tt == Extended(ss, x)
  <1>1. /\ n \in Nat /\ n \in 1..n /\ n > 0 /\ DOMAIN ss = 1..n
        /\ \A i \in 1..n : ss[i] \in Seq(A)
    OBVIOUS
  <1>2. /\ tt \in Seq(Seq(A)) /\ Len(tt) = n
        /\ \A i \in 1..n : tt[i] = IF i = n THEN Append(ss[i], x) ELSE ss[i]
    <2> DEFINE last == Append(ss[n], x)
    <2>1. last \in Seq(A) BY <1>1
    <2> HIDE DEF last
    <2>2. tt = [ss EXCEPT ![n] = last] BY DEF last, Extended
    <2> HIDE DEF tt
    <2>3. tt \in Seq(Seq(A)) /\ Len(tt) = n BY <1>1, <2>1, <2>2
    <2>5. ss \in [1..n -> Seq(A)] BY <1>1
    <2> HIDE DEF n
    <2>4. \A i \in 1..n : tt[i] = IF i = n THEN last ELSE ss[i] BY <1>1, <2>2, <2>5
    <2> QED BY <2>3, <2>4 DEF last
  <1>3. PICK h : IsChain(h, ss, A) /\ FlattenSeq(ss) = h[n] BY <1>1, FlattenIsChain
  <1>4. PICK k : IsChain(k, tt, A) /\ FlattenSeq(tt) = k[n]
    <2>1. tt \in Seq(Seq(A)) /\ Len(tt) > 0 /\ Len(tt) = n BY <1>1, <1>2
    <2> HIDE DEF n, tt
    <2> QED BY ONLY <2>1, FlattenIsChain
  <1>5. /\ h \in [1..n -> Seq(A)] /\ h[1] = ss[1]
        /\ \A i \in 2..n : h[i] = h[i - 1] \o ss[i]
    BY <1>3 DEF IsChain
  <1>6. /\ k \in [1..n -> Seq(A)] /\ k[1] = tt[1]
        /\ \A i \in 2..n : k[i] = k[i - 1] \o tt[i]
    BY <1>2, <1>4 DEF IsChain
  <1> HIDE DEF n, tt
  <1>7. \A i \in 1..n - 1 : h[i] = k[i]
    <2> DEFINE T == { i \in 1..n - 1 : h[i] # k[i] }
    <2> SUFFICES ASSUME T # {} PROVE FALSE OBVIOUS
    <2>1. PICK i \in T : \A y \in T : i <= y
      <3>1. T \subseteq Nat BY <1>1
      <3> HIDE DEF T
      <3> QED BY <3>1, LeastNatural
    <2>2. i \in 1..n /\ i # n /\ i \in 1..n - 1 BY <1>1, <2>1
    <2>3. tt[i] = ss[i] BY <1>2, <2>2
    <2>4. CASE i = 1 BY <1>5, <1>6, <2>1, <2>3, <2>4
    <2>5. CASE i # 1
      <3>1. i \in 2..n /\ i - 1 \in 1..n - 1 /\ ~(i <= i - 1) BY <1>1, <2>2, <2>5
      <3>2. h[i - 1] = k[i - 1] BY <2>1, <3>1
      <3> QED BY <1>5, <1>6, <2>1, <2>3, <3>1, <3>2
    <2> QED BY <2>4, <2>5
  <1>8. k[n] = Append(h[n], x)
    <2>1. tt[n] = Append(ss[n], x) BY <1>1, <1>2
    <2>2. CASE n = 1 BY <1>5, <1>6, <2>1, <2>2
    <2>3. CASE n # 1
      <3>1. n \in 2..n /\ n - 1 \in 1..n - 1 /\ n - 1 \in 1..n BY <1>1, <2>3
      <3>2. k[n] = h[n - 1] \o Append(ss[n], x) BY <1>6, <1>7, <2>1, <3>1
      <3>3. h[n] = h[n - 1] \o ss[n] BY <1>5, <3>1
      <3>4. h[n - 1] \in Seq(A) /\ ss[n] \in Seq(A) BY <1>1, <1>5, <3>1
      <3>5. \A p, q \in Seq(A) : p \o Append(q, x) = Append(p \o q, x) OBVIOUS
      <3> QED BY <3>2, <3>3, <3>4, <3>5
    <2> QED BY <2>2, <2>3
  <1> QED BY <1>2, <1>3, <1>4, <1>8 DEF n, tt

(* Chunks that are small enough, if they have more than one file.          *)
Chunked(command, c) ==
  /\ c \in Seq(Seq(DOMAIN Bytes)) /\ Len(c) > 0
  /\ \A k \in 1..Len(c) : Len(c[k]) > 1 => command.bytes + Joined(c[k]) <= MaxArg

(* A file more: no chunk grows too large, and the order is kept.           *)
LEMMA AddFileIs ==
  ASSUME NEW command, command.bytes \in Nat, NEW c, Chunked(command, c),
         NEW f \in DOMAIN Bytes
  PROVE  /\ Chunked(command, AddFile(command, c, f))
         /\ FlattenSeq(AddFile(command, c, f)) = Append(FlattenSeq(c), f)
  <1> DEFINE n == Len(c)
             last == c[n]
             D == DOMAIN Bytes
  <1>1. c \in Seq(Seq(D)) /\ n \in Nat /\ n > 0 /\ n \in 1..n
        /\ \A k \in 1..n : c[k] \in Seq(D)
    BY DEF Chunked
  <1>2. last \in Seq(D) BY <1>1
  <1> HIDE DEF D
  <1>3. CASE last # <<>> /\ command.bytes + Joined(last) + Bytes[f] + 1 > MaxArg
    <2>1. AddFile(command, c, f) = Append(c, <<f>>) BY <1>3 DEF AddFile
    <2>2. f \in D BY DEF D
    <2>3. <<f>> \in Seq(D) /\ Len(<<f>>) = 1 BY <2>2
    <2> DEFINE new == <<f>>
    <2> HIDE DEF new
    <2>4. new \in Seq(D) /\ Len(new) = 1 BY <2>3 DEF new
    <2>5. /\ Append(c, new) \in Seq(Seq(D)) /\ Len(Append(c, new)) = n + 1
          /\ Append(c, new)[n + 1] = new
          /\ \A k \in 1..n : Append(c, new)[k] = c[k]
      BY <1>1, <2>4
    <2>6. FlattenSeq(Append(c, new)) = FlattenSeq(c) \o new BY <1>1, <2>4, FlattenAppend
    <2>7. FlattenSeq(c) \in Seq(D) BY <1>1, FlattenType
    <2>8. FlattenSeq(c) \o new = Append(FlattenSeq(c), f) BY <2>2, <2>7 DEF new
    <2> DEFINE t == Append(c, new)
    <2>9. ASSUME NEW k \in 1..n + 1, Len(t[k]) > 1
          PROVE  command.bytes + Joined(t[k]) <= MaxArg
      <3> HIDE DEF t
      <3>1. k # n + 1
        <4> SUFFICES ASSUME k = n + 1 PROVE FALSE OBVIOUS
        <4>1. t[k] = new BY <2>5 DEF t
        <4>2. ~(Len(new) > 1) BY <2>4
        <4>3. Len(t[k]) > 1 BY <2>9
        <4> QED BY <4>1, <4>2, <4>3
      <3>2. k \in 1..n BY <1>1, <3>1
      <3>3. t[k] = c[k] BY <2>5, <3>2 DEF t
      <3>4. Len(c[k]) > 1 => command.bytes + Joined(c[k]) <= MaxArg BY <3>2 DEF Chunked
      <3> QED BY <2>9, <3>3, <3>4
    <2>10. Chunked(command, t)
      <3> HIDE DEF t
      <3>1. t \in Seq(Seq(D)) /\ Len(t) = n + 1 /\ n + 1 > 0 BY <1>1, <2>5 DEF t
      <3> QED BY <2>9, <3>1 DEF Chunked, D
    <2> QED BY <2>1, <2>6, <2>8, <2>10 DEF new
  <1>4. CASE ~(last # <<>> /\ command.bytes + Joined(last) + Bytes[f] + 1 > MaxArg)
    <2> DEFINE t == [c EXCEPT ![n] = Append(last, f)]
    <2>1. AddFile(command, c, f) = t BY <1>4 DEF AddFile
    <2>2. f \in D BY DEF D
    <2>3. /\ t \in Seq(Seq(D)) /\ Len(t) = n
          /\ \A i \in 1..n : t[i] = IF i = n THEN Append(c[i], f) ELSE c[i]
          /\ FlattenSeq(t) = Append(FlattenSeq(c), f)
      <3>1. t = Extended(c, f) BY DEF Extended
      <3> HIDE DEF t
      <3> QED BY <1>1, <2>2, <3>1, FlattenExtend
    <2> HIDE DEF t
    <2>4. ASSUME Len(Append(last, f)) > 1
          PROVE  command.bytes + Joined(Append(last, f)) <= MaxArg
      <3>1. last # <<>>
        <4> SUFFICES ASSUME last = <<>> PROVE FALSE OBVIOUS
        <4>1. Len(Append(<<>>, f)) = 1 OBVIOUS
        <4> QED BY <2>4, <4>1
      <3>2. Joined(last) \in Nat /\ Joined(Append(last, f)) = Joined(last) + Bytes[f] + 1
        BY <1>2, JoinedAppend DEF D
      <3>3. Bytes[f] \in Nat /\ MaxArg \in Nat BY BytesAssumption
      <3>4. command.bytes + Joined(last) + Bytes[f] + 1 <= MaxArg BY <1>4, <3>1, <3>2, <3>3
      <3> QED BY <3>2, <3>3, <3>4
    <2>5. ASSUME NEW k \in 1..n, Len(t[k]) > 1
          PROVE  command.bytes + Joined(t[k]) <= MaxArg
      <3>1. CASE k = n
        <4>1. t[k] = Append(last, f) BY <1>1, <2>3, <3>1
        <4> QED BY <2>4, <2>5, <4>1
      <3>2. CASE k # n
        <4>1. t[k] = c[k] BY <2>3, <3>2
        <4> QED BY <2>5, <4>1 DEF Chunked
      <3> QED BY <3>1, <3>2
    <2>6. Chunked(command, t) BY <1>1, <2>3, <2>5 DEF Chunked, D
    <2> QED BY <2>1, <2>3, <2>6
  <1> QED BY <1>3, <1>4

(* A job without templates gets one command without files.                 *)
LEMMA OneEmptyChunk ==
  ASSUME NEW command
  PROVE  Chunked(command, <<<<>>>>) /\ FlattenSeq(<<<<>>>>) = <<>>
  <1> DEFINE D == DOMAIN Bytes
             e == <<>>
  <1>1. e \in Seq(D) /\ Len(e) = 0 OBVIOUS
  <1> HIDE DEF e, D
  <1>2. <<e>> \in Seq(Seq(D)) /\ Len(<<e>>) = 1 /\ <<e>>[1] = e BY <1>1
  <1>3. \A k \in 1..1 : k = 1 OBVIOUS
  <1>4. Chunked(command, <<e>>) BY <1>1, <1>2, <1>3 DEF Chunked, D
  <1>5. FlattenSeq(<<e>>) = e
    <2>1. 1 > 0 OBVIOUS
    <2>2. PICK h : IsChain(h, <<e>>, D) /\ FlattenSeq(<<e>>) = h[1]
      BY <1>2, <2>1, FlattenIsChain
    <2> QED BY <1>2, <2>2 DEF IsChain
  <1> QED BY <1>4, <1>5 DEF e

(* All files, in order, in chunks that are small enough.                   *)
LEMMA ExpandIs ==
  ASSUME NEW command, command.bytes \in Nat, NEW files \in Seq(DOMAIN Bytes)
  PROVE  /\ Chunked(command, ExpandTemplate(command, files))
         /\ HasTemplate(command) => FlattenSeq(ExpandTemplate(command, files)) = files
  <1> DEFINE n == Len(files)
             D == DOMAIN Bytes
             S == { c \in Seq(Seq(D)) : Chunked(command, c) }
             one == <<<<>>>>
             Body(h) == [i \in 0..n |-> IF i = 0 THEN one
                                        ELSE AddFile(command, h[i - 1], files[i])]
             chunks == CHOOSE h : h = Body(h)
             step == [i \in 1..n |-> [c \in S |-> AddFile(command, c, files[i])]]
  <1>1. /\ n \in Nat /\ n \in 0..n /\ files \in [1..n -> D]
        /\ \A i \in 1..n : files[i] \in D
    OBVIOUS
  <1>2. one \in S /\ FlattenSeq(one) = <<>> BY OneEmptyChunk DEF Chunked
  <1>3. \A c \in S, f \in D : /\ AddFile(command, c, f) \in S
                              /\ FlattenSeq(AddFile(command, c, f)) = Append(FlattenSeq(c), f)
    <2>1. ASSUME NEW c \in S, NEW f \in D
          PROVE  /\ AddFile(command, c, f) \in S
                 /\ FlattenSeq(AddFile(command, c, f)) = Append(FlattenSeq(c), f)
      <3>1. /\ Chunked(command, AddFile(command, c, f))
            /\ FlattenSeq(AddFile(command, c, f)) = Append(FlattenSeq(c), f)
        BY AddFileIs
      <3> QED BY <3>1 DEF Chunked
    <2> QED BY <2>1
  <1>4. \A c \in S : FlattenSeq(c) \in Seq(D) BY FlattenType
  <1> HIDE DEF S, one, D, n
  <1>5. step \in [1..n -> [S -> S]]
    <2> DEFINE A(c, f) == AddFile(command, c, f)
    <2>1. \A c \in S, f \in D : A(c, f) \in S BY <1>3
    <2> HIDE DEF A
    <2>2. [i \in 1..n |-> [c \in S |-> A(c, files[i])]] \in [1..n -> [S -> S]] BY <1>1, <2>1
    <2> QED BY <2>2 DEF A
  <1>6. \E h : h = Body(h)
    <2>1. PICK h : Solves(h, n, S, one, step)
      <3> HIDE DEF step
      <3> QED BY ONLY <1>1, <1>2, <1>5, BoundedRecursion
    <2>2. h \in [0..n -> S] /\ h[0] = one /\ \A i \in 1..n : h[i] = step[i][h[i - 1]]
      BY <2>1 DEF Solves
    <2>3. ASSUME NEW i \in 0..n
          PROVE  h[i] = IF i = 0 THEN one ELSE AddFile(command, h[i - 1], files[i])
      <3>1. CASE i = 0 BY <2>2, <3>1
      <3>2. CASE i # 0
        <4>1. i \in 1..n /\ i - 1 \in 0..n BY <1>1, <3>2
        <4>2. h[i - 1] \in S BY <2>2, <4>1
        <4>3. h[i] = step[i][h[i - 1]] BY <2>2, <4>1
        <4>4. step[i][h[i - 1]] = AddFile(command, h[i - 1], files[i]) BY <4>1, <4>2
        <4> QED BY <3>2, <4>3, <4>4
      <3> QED BY <3>1, <3>2
    <2>4. h = [i \in 0..n |-> h[i]] BY <2>2
    <2>5. h = Body(h) BY <2>3, <2>4
    <2> QED BY <2>5
  <1>7. chunks = Body(chunks) BY <1>6
  <1> HIDE DEF chunks
  <1>8. /\ chunks[0] = one
        /\ \A i \in 1..n : chunks[i] = AddFile(command, chunks[i - 1], files[i])
    <2>1. 0 \in 0..n /\ \A i \in 1..n : i \in 0..n /\ i # 0 BY <1>1
    <2> QED BY <1>7, <2>1
  <1>9. \A i \in 0..n : /\ chunks[i] \in S
                        /\ Len(FlattenSeq(chunks[i])) = i
                        /\ \A k \in 1..i : FlattenSeq(chunks[i])[k] = files[k]
    <2> DEFINE Good(i) == /\ chunks[i] \in S
                          /\ Len(FlattenSeq(chunks[i])) = i
                          /\ \A k \in 1..i : FlattenSeq(chunks[i])[k] = files[k]
               T == { i \in 0..n : ~Good(i) }
    <2> SUFFICES ASSUME T # {} PROVE FALSE OBVIOUS
    <2>1. PICK i \in T : \A y \in T : i <= y
      <3>1. T \subseteq Nat BY <1>1
      <3> HIDE DEF T
      <3> QED BY <3>1, LeastNatural
    <2>2. Good(0)
      <3>1. Len(<<>>) = 0 OBVIOUS
      <3> QED BY <1>2, <1>8, <3>1
    <2>3. i \in 1..n /\ i - 1 \in 0..n /\ ~(i <= i - 1)
      <3> HIDE DEF Good
      <3> QED BY <1>1, <2>1, <2>2
    <2>4. Good(i - 1)
      <3> HIDE DEF Good
      <3> QED BY <2>1, <2>3
    <2> DEFINE c == chunks[i - 1]
               s == FlattenSeq(c)
    <2>5. /\ c \in S /\ s \in Seq(D) /\ Len(s) = i - 1
          /\ \A k \in 1..i - 1 : s[k] = files[k]
      BY <1>4, <2>4
    <2>6. files[i] \in D BY <1>1, <2>3
    <2>7. chunks[i] = AddFile(command, c, files[i]) BY <1>8, <2>3
    <2>8. chunks[i] \in S /\ FlattenSeq(chunks[i]) = Append(s, files[i])
      BY <1>3, <2>5, <2>6, <2>7
    <2> HIDE DEF s
    <2>9. Len(Append(s, files[i])) = i /\ Append(s, files[i])[i] = files[i]
          /\ \A k \in 1..i - 1 : Append(s, files[i])[k] = files[k]
      BY <2>3, <2>5, <2>6
    <2>10. \A k \in 1..i : k \in 1..i - 1 \/ k = i BY <2>3
    <2>11. Good(i) BY <2>8, <2>9, <2>10
    <2> QED BY <2>1, <2>11
  <1>10. CASE HasTemplate(command)
    <2>1. ExpandTemplate(command, files) = chunks[n] BY <1>10 DEF ExpandTemplate, chunks, one, n
    <2>2. /\ chunks[n] \in S /\ Len(FlattenSeq(chunks[n])) = n
          /\ \A k \in 1..n : FlattenSeq(chunks[n])[k] = files[k]
      BY <1>1, <1>9
    <2> DEFINE s == FlattenSeq(chunks[n])
    <2>3. s \in Seq(D) BY <1>4, <2>2
    <2>4. files \in Seq(D) BY DEF D
    <2>5. Len(s) = n /\ \A k \in 1..n : s[k] = files[k] BY <2>2
    <2> HIDE DEF s
    <2>6. s = files BY <2>3, <2>4, <2>5 DEF n
    <2>7. Chunked(command, chunks[n]) BY <2>2 DEF S
    <2> QED BY <2>1, <2>6, <2>7 DEF s
  <1>11. CASE ~HasTemplate(command)
    <2>1. ExpandTemplate(command, files) = <<<<>>>> BY <1>11 DEF ExpandTemplate
    <2> QED BY <1>11, <2>1, OneEmptyChunk
  <1> QED BY <1>10, <1>11

-----------------------------------------------------------------------------
(* Sorting.                                                                *)

(* A total order on a set: what is below each element, itself included.    *)
IsOrder(down, S) ==
  /\ down \in [S -> SUBSET S]
  /\ \A x \in S : x \in down[x]
  /\ \A x, y \in S : x \in down[y] \/ y \in down[x]
  /\ \A x, y \in S : x \in down[y] /\ y \in down[x] => x = y
  /\ \A x, y, z \in S : x \in down[y] /\ y \in down[z] => x \in down[z]

(* The elements in that order.                                             *)
IsSorting(s, down, S) ==
  /\ s \in [1..Cardinality(S) -> S]
  /\ \A x \in S : \E k \in 1..Cardinality(S) : s[k] = x
  /\ \A i, k \in 1..Cardinality(S) : i < k => s[i] # s[k] /\ s[i] \in down[s[k]]

(* An element is where there are as many elements up to it.                *)
LEMMA RankIs ==
  ASSUME NEW S, IsFiniteSet(S), NEW down, IsOrder(down, S)
  PROVE  /\ Cardinality(S) \in Nat
         /\ \A x \in S : Cardinality(down[x]) \in 1..Cardinality(S)
         /\ \A x, y \in S : Cardinality(down[x]) = Cardinality(down[y]) => x = y
         /\ \A x, y \in S : Cardinality(down[x]) < Cardinality(down[y]) =>
                              x # y /\ x \in down[y]
         /\ \A k \in 1..Cardinality(S) : \E x \in S : Cardinality(down[x]) = k
  <1> DEFINE n == Cardinality(S)
             rank == [x \in S |-> Cardinality(down[x])]
  <1>1. n \in Nat BY FS_CardinalityType
  <1>2. ASSUME NEW x \in S
        PROVE  /\ down[x] \in SUBSET S /\ IsFiniteSet(down[x])
               /\ Cardinality(down[x]) \in 1..n
    <2>1. down[x] \in SUBSET S /\ x \in down[x] BY DEF IsOrder
    <2>2. IsFiniteSet(down[x]) /\ Cardinality(down[x]) <= n BY <2>1, FS_Subset
    <2>3. Cardinality(down[x]) \in Nat BY <2>2, FS_CardinalityType
    <2>4. Cardinality(down[x]) # 0 BY <2>1, <2>2, FS_EmptySet
    <2> QED BY <1>1, <2>1, <2>2, <2>3, <2>4
  <1>3. ASSUME NEW x \in S, NEW y \in S, x \in down[y], x # y
        PROVE  Cardinality(down[x]) < Cardinality(down[y])
    <2>1. down[x] \subseteq down[y]
      <3>1. \A z \in down[x] : z \in S BY <1>2
      <3> QED BY <1>3, <3>1 DEF IsOrder
    <2>2. y \in down[y] /\ y \notin down[x] BY <1>3 DEF IsOrder
    <2>3. down[x] # down[y] BY <2>2
    <2>4. Cardinality(down[x]) <= Cardinality(down[y])
          /\ Cardinality(down[y]) # Cardinality(down[x])
      BY <1>2, <2>1, <2>3, FS_Subset
    <2>5. Cardinality(down[x]) \in Int /\ Cardinality(down[y]) \in Int BY <1>2
    <2> QED BY <2>4, <2>5
  <1>4. ASSUME NEW x \in S, NEW y \in S, x # y
        PROVE  \/ x \in down[y] /\ Cardinality(down[x]) < Cardinality(down[y])
               \/ y \in down[x] /\ Cardinality(down[y]) < Cardinality(down[x])
    <2>1. x \in down[y] \/ y \in down[x] BY DEF IsOrder
    <2>2. CASE x \in down[y] BY <1>3, <1>4, <2>2
    <2>3. CASE y \in down[x] BY <1>3, <1>4, <2>3
    <2> QED BY <2>1, <2>2, <2>3
  <1>5. ASSUME NEW x \in S, NEW y \in S, Cardinality(down[x]) = Cardinality(down[y])
        PROVE  x = y
    <2>1. Cardinality(down[x]) \in Int BY <1>2
    <2> QED BY <1>4, <1>5, <2>1
  <1>6. ASSUME NEW x \in S, NEW y \in S, Cardinality(down[x]) < Cardinality(down[y])
        PROVE  x # y /\ x \in down[y]
    <2>1. Cardinality(down[x]) \in Int /\ Cardinality(down[y]) \in Int BY <1>2
    <2>2. x # y BY <1>6, <2>1
    <2> QED BY <1>4, <1>6, <2>1, <2>2
  <1>7. rank \in Injection(S, 1..n)
    <2>1. rank \in [S -> 1..n] BY <1>2
    <2>2. \A x, y \in S : rank[x] = rank[y] => x = y BY <1>5
    <2> QED BY <2>1, <2>2 DEF Injection, IsInjective
  <1>8. IsFiniteSet(1..n) /\ Cardinality(1..n) = n
    <2>1. IsFiniteSet(1..n) /\ Cardinality(1..n) = IF 1 > n THEN 0 ELSE n - 1 + 1
      <3> HIDE DEF n
      <3> QED BY <1>1, FS_Interval
    <2> QED BY <1>1, <2>1
  <1>9. rank \in Surjection(S, 1..n)
    <2> HIDE DEF rank
    <2> QED BY <1>7, <1>8, FS_Injection
  <1>10. \A k \in 1..n : \E x \in S : Cardinality(down[x]) = k
    <2>1. \A k \in 1..n : \E x \in S : rank[x] = k
      <3> HIDE DEF rank, n
      <3> QED BY <1>9 DEF Surjection
    <2> QED BY <2>1
  <1> QED BY <1>1, <1>2, <1>5, <1>6, <1>10

(* So what puts each element at its rank sorts.                            *)
LEMMA SortingIs ==
  ASSUME NEW S, IsFiniteSet(S), NEW down, IsOrder(down, S),
         NEW s, s \in [1..Cardinality(S) -> S],
         \A k \in 1..Cardinality(S) : Cardinality(down[s[k]]) = k
  PROVE  IsSorting(s, down, S)
  <1> DEFINE n == Cardinality(S)
             r(x) == Cardinality(down[x])
  <1>1. /\ n \in Nat
        /\ \A x \in S : r(x) \in 1..n
        /\ \A x, y \in S : r(x) = r(y) => x = y
        /\ \A x, y \in S : r(x) < r(y) => x # y /\ x \in down[y]
    BY RankIs
  <1>2. s \in [1..n -> S] /\ \A k \in 1..n : r(s[k]) = k OBVIOUS
  <1> HIDE DEF n, r
  <1>3. ASSUME NEW x \in S PROVE \E k \in 1..n : s[k] = x
    <2>1. r(x) \in 1..n BY <1>1
    <2>2. s[r(x)] \in S /\ r(s[r(x)]) = r(x) BY <1>2, <2>1
    <2>3. s[r(x)] = x BY <1>1, <2>2
    <2> QED BY <2>1, <2>3
  <1>4. ASSUME NEW i \in 1..n, NEW k \in 1..n, i < k PROVE s[i] # s[k] /\ s[i] \in down[s[k]]
    <2>1. s[i] \in S /\ s[k] \in S /\ r(s[i]) = i /\ r(s[k]) = k BY <1>2
    <2>2. r(s[i]) < r(s[k]) BY <1>4, <2>1
    <2> QED BY <1>1, <2>1, <2>2
  <1> QED BY <1>2, <1>3, <1>4 DEF IsSorting, n

(* Sorting numbers.                                                        *)
UpTo(S) == [x \in S |-> { y \in S : y <= x }]

(* Sorted, with the order of the numbers.                                  *)
LEMMA SortedNumbers ==
  ASSUME NEW S, IsFiniteSet(S), S \subseteq Int
  PROVE  /\ Cardinality(S) \in Nat
         /\ Sorted(S, <=) \in Seq(S) /\ Len(Sorted(S, <=)) = Cardinality(S)
         /\ \A x \in S : \E k \in 1..Cardinality(S) : Sorted(S, <=)[k] = x
         /\ \A i, k \in 1..Cardinality(S) : i < k => Sorted(S, <=)[i] < Sorted(S, <=)[k]
  <1> DEFINE n == Cardinality(S)
             down == UpTo(S)
             s == [k \in 1..n |-> CHOOSE x \in S : Cardinality({ y \in S : y <= x }) = k]
  <1>1. down \in [S -> SUBSET S] /\ \A x \in S : down[x] = { y \in S : y <= x } BY DEF UpTo
  <1>2. IsOrder(down, S)
    <2>1. \A x, y \in S : y \in down[x] <=> y <= x BY <1>1
    <2> HIDE DEF down
    <2>6. ASSUME NEW x \in S, NEW y \in S, NEW z \in S
          PROVE  /\ x \in down[x] /\ (x \in down[y] \/ y \in down[x])
                 /\ x \in down[y] /\ y \in down[x] => x = y
                 /\ x \in down[y] /\ y \in down[z] => x \in down[z]
      <3>1. x \in Int /\ y \in Int /\ z \in Int OBVIOUS
      <3>2. /\ x <= x /\ (x <= y \/ y <= x)
            /\ x <= y /\ y <= x => x = y
            /\ x <= y /\ y <= z => x <= z
        BY <3>1
      <3> QED BY <2>1, <3>2
    <2>2. \A x \in S : x \in down[x] BY <2>6
    <2>3. \A x, y \in S : x \in down[y] \/ y \in down[x] BY <2>6
    <2>4. \A x, y \in S : x \in down[y] /\ y \in down[x] => x = y BY <2>6
    <2>5. \A x, y, z \in S : x \in down[y] /\ y \in down[z] => x \in down[z] BY <2>6
    <2> QED BY <1>1, <2>2, <2>3, <2>4, <2>5 DEF IsOrder
  <1>3. Sorted(S, <=) = s BY DEF Sorted
  <1>4. \A k \in 1..n : \E x \in S : Cardinality({ y \in S : y <= x }) = k
    <2>1. \A k \in 1..n : \E x \in S : Cardinality(down[x]) = k
      <3> HIDE DEF down
      <3> QED BY <1>2, RankIs
    <2> QED BY <1>1, <2>1
  <1>5. \A k \in 1..n : s[k] \in S /\ Cardinality({ y \in S : y <= s[k] }) = k BY <1>4
  <1>6. s \in [1..n -> S]
    <2>1. s = [k \in 1..n |-> s[k]] OBVIOUS
    <2> HIDE DEF s
    <2> QED BY <1>5, <2>1
  <1> HIDE DEF s, down
  <1>7. \A k \in 1..n : Cardinality(down[s[k]]) = k BY <1>1, <1>5
  <1>8. IsSorting(s, down, S) BY <1>2, <1>6, <1>7, SortingIs
  <1>9. n \in Nat BY FS_CardinalityType
  <1>10. s \in Seq(S) /\ Len(s) = n
    <2> HIDE DEF n
    <2> QED BY <1>6, <1>9
  <1>11. ASSUME NEW i \in 1..n, NEW k \in 1..n, i < k PROVE s[i] < s[k]
    <2>1. s[i] # s[k] /\ s[i] \in down[s[k]] /\ s[i] \in S /\ s[k] \in S
      BY <1>6, <1>8, <1>11 DEF IsSorting
    <2>2. s[i] <= s[k] BY <1>1, <2>1
    <2>3. s[i] \in Int /\ s[k] \in Int BY <2>1
    <2> QED BY <2>1, <2>2, <2>3
  <1>12. \A x \in S : \E k \in 1..n : s[k] = x BY <1>8 DEF IsSorting
  <1> QED BY <1>3, <1>9, <1>10, <1>11, <1>12

-----------------------------------------------------------------------------
(* One configuration over another is a configuration.                      *)

(* A job laid over a job.                                                  *)
LEMMA LaidJob ==
  ASSUME NEW x, NEW y, IsJob(x), IsJob(y)
  PROVE  IsJob(Laid(x, y))
  <1>1. /\ DOMAIN Laid(x, y) = DOMAIN x \cup DOMAIN y
        /\ \A f \in DOMAIN x : Laid(x, y)[f] = x[f]
        /\ \A f \in DOMAIN y : f \notin DOMAIN x => Laid(x, y)[f] = y[f]
    BY Zenon, LaidIs
  <1>2. ASSUME NEW f \in DOMAIN Laid(x, y)
        PROVE  \/ f \in DOMAIN x /\ Laid(x, y)[f] = x[f]
               \/ f \in DOMAIN y /\ Laid(x, y)[f] = y[f]
    BY <1>1, <1>2
  <1>3. ASSUME NEW f \in DOMAIN Laid(x, y) \cap {"run", "fix"}
        PROVE  IsCommand(Laid(x, y)[f])
    <2>1. CASE f \in DOMAIN x /\ Laid(x, y)[f] = x[f] BY <1>3, <2>1 DEF IsJob
    <2>2. CASE f \in DOMAIN y /\ Laid(x, y)[f] = y[f] BY <1>3, <2>2 DEF IsJob
    <2> QED BY <1>2, <1>3, <2>1, <2>2
  <1>4. ASSUME NEW f \in DOMAIN Laid(x, y) \cap {"reads", "writes"}
        PROVE  Laid(x, y)[f] = Bad \/ Laid(x, y)[f] \subseteq DOMAIN Bytes
    <2>1. CASE f \in DOMAIN x /\ Laid(x, y)[f] = x[f] BY <1>4, <2>1 DEF IsJob
    <2>2. CASE f \in DOMAIN y /\ Laid(x, y)[f] = y[f] BY <1>4, <2>2 DEF IsJob
    <2> QED BY <1>2, <1>4, <2>1, <2>2
  <1> QED BY <1>3, <1>4 DEF IsJob

(* The jobs of a hook.                                                     *)
LEMMA OverlayJobsAre ==
  ASSUME NEW base, NEW over, IsJobs(base), IsJobs(over)
  PROVE  IsJobs(OverlayMap([j \in Common(base, over) |-> OverlayJob(base[j], over[j])],
                           base, over))
  <1> DEFINE merged == [j \in Common(base, over) |-> OverlayJob(base[j], over[j])]
             o == OverlayMap(merged, base, over)
  <1>1. /\ DOMAIN merged = DOMAIN base \cap DOMAIN over
        /\ \A j \in DOMAIN merged : merged[j] = Laid(over[j], base[j])
    BY DEF Common, OverlayJob
  <1> HIDE DEF merged
  <1>2. /\ DOMAIN o = DOMAIN base \cup DOMAIN over
        /\ \A j \in DOMAIN base \cup DOMAIN over :
             o[j] = IF j \in DOMAIN base /\ j \in DOMAIN over THEN merged[j]
                    ELSE IF j \in DOMAIN over THEN over[j] ELSE base[j]
    BY <1>1, OverlayMapFacts
  <1> HIDE DEF o
  <1>3. /\ IsFiniteSet(DOMAIN base) /\ DOMAIN base \subseteq Int
        /\ IsFiniteSet(DOMAIN over) /\ DOMAIN over \subseteq Int
        /\ \A j \in DOMAIN base : IsJob(base[j])
        /\ \A j \in DOMAIN over : IsJob(over[j])
    BY DEF IsJobs
  <1>4. \A x, y : IsJob(x) /\ IsJob(y) => IsJob(Laid(x, y)) BY LaidJob
  <1>5. IsFiniteSet(DOMAIN o) /\ DOMAIN o \subseteq Int
    <2>1. IsFiniteSet(DOMAIN base \cup DOMAIN over) BY <1>3, FS_Union
    <2> QED BY <1>2, <1>3, <2>1
  <1>6. ASSUME NEW j \in DOMAIN o PROVE IsJob(o[j])
    <2>1. CASE j \in DOMAIN base /\ j \in DOMAIN over
      <3>1. o[j] = Laid(over[j], base[j]) BY <1>1, <1>2, <2>1
      <3>2. IsJob(over[j]) /\ IsJob(base[j]) BY <1>3, <2>1
      <3> QED BY <1>4, <3>1, <3>2
    <2>2. CASE ~(j \in DOMAIN base /\ j \in DOMAIN over)
      <3>1. CASE j \in DOMAIN over
        <4>1. o[j] = over[j] BY <1>2, <2>2, <3>1
        <4> QED BY <1>3, <3>1, <4>1
      <3>2. CASE j \notin DOMAIN over
        <4>1. o[j] = base[j] /\ j \in DOMAIN base BY <1>2, <2>2, <3>2
        <4> QED BY <1>3, <4>1
      <3> QED BY <3>1, <3>2
    <2> QED BY <2>1, <2>2
  <1>7. IsJobs(o) BY <1>5, <1>6 DEF IsJobs
  <1> QED BY <1>7 DEF o, merged

(* A hook, as IsHooks has it.                                              *)
IsHook(hook) ==
  /\ hook = [flags |-> hook.flags, jobs |-> hook.jobs]
  /\ Get(hook.flags, "priority", <<>>) \in Seq(Int)
  /\ IsJobs(hook.jobs)

(* A hook, with its flags.                                                 *)
LEMMA OverlayHookIs ==
  ASSUME NEW base, NEW over, IsHook(base), IsHook(over)
  PROVE  IsHook(OverlayHook(base, over))
  <1> DEFINE flags == Laid(over.flags, base.flags)
             jobs == OverlayMap([j \in Common(base.jobs, over.jobs) |->
                                   OverlayJob(base.jobs[j], over.jobs[j])],
                                base.jobs, over.jobs)
  <1>1. OverlayHook(base, over) = [flags |-> flags, jobs |-> jobs] BY DEF OverlayHook
  <1>2. IsJobs(jobs)
    <2> DEFINE b == base.jobs
               v == over.jobs
    <2>1. IsJobs(b) /\ IsJobs(v) BY DEF IsHook
    <2> HIDE DEF b, v
    <2>2. IsJobs(OverlayMap([j \in Common(b, v) |-> OverlayJob(b[j], v[j])], b, v))
      BY <2>1, OverlayJobsAre
    <2> QED BY <2>2 DEF b, v
  <1>3. Get(flags, "priority", <<>>) \in Seq(Int)
    <2> DEFINE x == over.flags
               y == base.flags
               p == "priority"
    <2>1. Get(x, p, <<>>) \in Seq(Int) /\ Get(y, p, <<>>) \in Seq(Int) BY DEF IsHook
    <2> HIDE DEF x, y, p
    <2>2. /\ DOMAIN Laid(x, y) = DOMAIN x \cup DOMAIN y
          /\ \A f \in DOMAIN x : Laid(x, y)[f] = x[f]
          /\ \A f \in DOMAIN y : f \notin DOMAIN x => Laid(x, y)[f] = y[f]
      BY Zenon, LaidIs
    <2>3. Get(Laid(x, y), p, <<>>) \in Seq(Int)
      <3>1. CASE p \in DOMAIN x BY <2>1, <2>2, <3>1 DEF Get
      <3>2. CASE p \notin DOMAIN x BY <2>1, <2>2, <3>2 DEF Get
      <3> QED BY <3>1, <3>2
    <2> QED BY <2>3 DEF x, y, p
  <1> HIDE DEF flags, jobs
  <1>4. OverlayHook(base, over).flags = flags /\ OverlayHook(base, over).jobs = jobs BY <1>1
  <1> QED BY <1>1, <1>2, <1>3, <1>4 DEF IsHook

(* The hooks of a level.                                                   *)
LEMMA OverlayHooksAre ==
  ASSUME NEW base, NEW over, IsHooks(base), IsHooks(over)
  PROVE  IsHooks(OverlayHooks(base, over))
  <1> DEFINE merged == [h \in Common(base, over) |-> OverlayHook(base[h], over[h])]
             o == OverlayHooks(base, over)
  <1>1. o = OverlayMap(merged, base, over) BY DEF OverlayHooks
  <1>2. /\ DOMAIN merged = DOMAIN base \cap DOMAIN over
        /\ \A h \in DOMAIN merged : merged[h] = OverlayHook(base[h], over[h])
    BY DEF Common
  <1> HIDE DEF merged, o
  <1>3. /\ DOMAIN o = DOMAIN base \cup DOMAIN over
        /\ \A h \in DOMAIN base \cup DOMAIN over :
             o[h] = IF h \in DOMAIN base /\ h \in DOMAIN over THEN merged[h]
                    ELSE IF h \in DOMAIN over THEN over[h] ELSE base[h]
    BY <1>1, <1>2, OverlayMapFacts
  <1>4. \A hooks : IsHooks(hooks) <=> \A h \in DOMAIN hooks : IsHook(hooks[h])
    BY DEF IsHooks, IsHook
  <1>5. ASSUME NEW h \in DOMAIN o PROVE IsHook(o[h])
    <2>1. CASE h \in DOMAIN base /\ h \in DOMAIN over
      <3>1. o[h] = OverlayHook(base[h], over[h]) BY <1>2, <1>3, <2>1
      <3>2. IsHook(base[h]) /\ IsHook(over[h]) BY <1>4, <2>1
      <3> QED BY <3>1, <3>2, OverlayHookIs
    <2>2. CASE ~(h \in DOMAIN base /\ h \in DOMAIN over)
      <3>1. CASE h \in DOMAIN over
        <4>1. o[h] = over[h] BY <1>3, <2>2, <3>1
        <4> QED BY <1>4, <3>1, <4>1
      <3>2. CASE h \notin DOMAIN over
        <4>1. o[h] = base[h] /\ h \in DOMAIN base BY <1>3, <2>2, <3>2
        <4> QED BY <1>4, <4>1
      <3> QED BY <3>1, <3>2
    <2> QED BY <2>1, <2>2
  <1> QED BY <1>4, <1>5 DEF o

(* The whole, with its packages.                                           *)
LEMMA OverlayIsRaw ==
  ASSUME NEW base, NEW over, IsRawConfig(base), IsRawConfig(over)
  PROVE  IsRawConfig(OverlayConfig(base, over))
  <1> DEFINE bp == base.packages
             vp == over.packages
             merged == [p \in Common(bp, vp) |-> OverlayPackage(bp[p], vp[p])]
             packages == OverlayMap(merged, bp, vp)
             hooks == OverlayHooks(base.hooks, over.hooks)
             meta == Laid(over.meta, base.meta)
             ext == base.extends
  <1>1. OverlayConfig(base, over) = [meta |-> meta, extends |-> ext, hooks |-> hooks,
                                     packages |-> packages]
    BY DEF OverlayConfig
  <1>2. IsHooks(hooks)
    <2> DEFINE b == base.hooks
               v == over.hooks
    <2>1. IsHooks(b) /\ IsHooks(v) BY DEF IsRawConfig
    <2> HIDE DEF b, v
    <2>2. IsHooks(OverlayHooks(b, v)) BY <2>1, OverlayHooksAre
    <2> QED BY <2>2 DEF b, v
  <1>3. /\ IsFiniteSet(DOMAIN bp) /\ DOMAIN bp \subseteq Int \ {0}
        /\ IsFiniteSet(DOMAIN vp) /\ DOMAIN vp \subseteq Int \ {0}
        /\ \A p \in DOMAIN bp : IsPackage(bp[p])
        /\ \A p \in DOMAIN vp : IsPackage(vp[p])
    BY DEF IsRawConfig
  <1>4. ext \in Seq(File) BY DEF IsRawConfig
  <1> HIDE DEF meta, ext, hooks, bp, vp
  <1>5. /\ DOMAIN merged = DOMAIN bp \cap DOMAIN vp
        /\ \A p \in DOMAIN merged : merged[p] = OverlayPackage(bp[p], vp[p])
    BY DEF Common
  <1> HIDE DEF merged
  <1>6. /\ DOMAIN packages = DOMAIN bp \cup DOMAIN vp
        /\ \A p \in DOMAIN bp \cup DOMAIN vp :
             packages[p] = IF p \in DOMAIN bp /\ p \in DOMAIN vp THEN merged[p]
                           ELSE IF p \in DOMAIN vp THEN vp[p] ELSE bp[p]
    BY <1>5, OverlayMapFacts
  <1> HIDE DEF packages
  <1>7. ASSUME NEW x, NEW y, IsPackage(x), IsPackage(y) PROVE IsPackage(OverlayPackage(x, y))
    <2> DEFINE hs == OverlayHooks(x.hooks, y.hooks)
               path == y.path
    <2>1. OverlayPackage(x, y) = [path |-> path, hooks |-> hs] BY DEF OverlayPackage
    <2>2. IsHooks(hs)
      <3> DEFINE b == x.hooks
                 v == y.hooks
      <3>1. IsHooks(b) /\ IsHooks(v) BY <1>7 DEF IsPackage
      <3> HIDE DEF b, v
      <3>2. IsHooks(OverlayHooks(b, v)) BY <3>1, OverlayHooksAre
      <3> QED BY <3>2 DEF b, v
    <2>3. path \in Seq(STRING) BY <1>7 DEF IsPackage
    <2> HIDE DEF hs, path
    <2> QED BY <2>1, <2>2, <2>3 DEF IsPackage
  <1>8. ASSUME NEW p \in DOMAIN packages PROVE IsPackage(packages[p])
    <2>1. CASE p \in DOMAIN bp /\ p \in DOMAIN vp
      <3>1. packages[p] = OverlayPackage(bp[p], vp[p]) BY <1>5, <1>6, <2>1
      <3>2. IsPackage(bp[p]) /\ IsPackage(vp[p]) BY <1>3, <2>1
      <3> QED BY <1>7, <3>1, <3>2
    <2>2. CASE ~(p \in DOMAIN bp /\ p \in DOMAIN vp)
      <3>1. CASE p \in DOMAIN vp
        <4>1. packages[p] = vp[p] BY <1>6, <2>2, <3>1
        <4> QED BY <1>3, <3>1, <4>1
      <3>2. CASE p \notin DOMAIN vp
        <4>1. packages[p] = bp[p] /\ p \in DOMAIN bp BY <1>6, <2>2, <3>2
        <4> QED BY <1>3, <4>1
      <3> QED BY <3>1, <3>2
    <2> QED BY <2>1, <2>2
  <1>9. IsFiniteSet(DOMAIN packages) /\ DOMAIN packages \subseteq Int \ {0}
    <2>1. IsFiniteSet(DOMAIN bp \cup DOMAIN vp) BY <1>3, FS_Union
    <2> QED BY <1>3, <1>6, <2>1
  <1> DEFINE o == OverlayConfig(base, over)
  <1> HIDE DEF o
  <1>10. o.meta = meta /\ o.extends = ext /\ o.hooks = hooks /\ o.packages = packages
    BY <1>1 DEF o
  <1>11. o = [meta |-> meta, extends |-> ext, hooks |-> hooks, packages |-> packages]
    BY <1>1 DEF o
  <1>12. IsRawConfig(o)
    BY <1>2, <1>4, <1>8, <1>9, <1>10, <1>11 DEF IsRawConfig
  <1> QED BY <1>12 DEF o

(* r is what is left of s when only what is in T is kept: entry k is the   *)
(* one that stood at at[k].                                                *)
Keeps(at, r, s, T) ==
  /\ at \in [1..Len(r) -> 1..Len(s)]
  /\ \A k \in 1..Len(r) : r[k] = s[at[k]] /\ s[at[k]] \in T
  /\ \A i \in 1..Len(s) : s[i] \in T => \E k \in 1..Len(r) : at[k] = i
  /\ \A i, k \in 1..Len(r) : i < k => at[i] < at[k]

(* Kept keeps what it should, in its order.                                *)
LEMMA KeptIs ==
  ASSUME NEW A, NEW s \in Seq(A), NEW T
  PROVE  /\ Kept(s, T) \in Seq(A \cap T)
         /\ \E at : Keeps(at, Kept(s, T), s, T)
  <1> DEFINE P == { i \in DOMAIN s : s[i] \in T }
             at == Sorted(P, <=)
             m == Cardinality(P)
             r == Kept(s, T)
  <1>1. Len(s) \in Nat /\ DOMAIN s = 1..Len(s) /\ \A i \in 1..Len(s) : s[i] \in A OBVIOUS
  <1>2. P \subseteq 1..Len(s) /\ P \subseteq Int BY <1>1
  <1>3. IsFiniteSet(P)
    <2>1. IsFiniteSet(1..Len(s)) BY <1>1, FS_Interval
    <2> HIDE DEF P
    <2> QED BY <1>2, <2>1, FS_Subset
  <1>4. \A i \in 1..Len(s) : i \in P <=> s[i] \in T BY <1>1
  <1>5. r = [k \in DOMAIN at |-> s[at[k]]] BY Zenon DEF Kept
  <1> HIDE DEF P, r
  <1>6. /\ m \in Nat /\ at \in Seq(P) /\ Len(at) = m
        /\ \A x \in P : \E k \in 1..m : at[k] = x
        /\ \A i, k \in 1..m : i < k => at[i] < at[k]
    BY <1>2, <1>3, SortedNumbers
  <1> HIDE DEF at, m
  <1>7. DOMAIN at = 1..m /\ at \in [1..m -> P] BY <1>6
  <1>8. r \in [1..m -> A \cap T] /\ \A k \in 1..m : r[k] = s[at[k]] BY <1>1, <1>2, <1>4, <1>5, <1>7
  <1>9. r \in Seq(A \cap T) /\ Len(r) = m BY <1>6, <1>8
  <1>10. Keeps(at, r, s, T)
    <2>1. at \in [1..m -> 1..Len(s)] BY <1>2, <1>7
    <2>2. \A k \in 1..m : at[k] \in P /\ at[k] \in 1..Len(s) BY <1>2, <1>7
    <2> QED BY <1>4, <1>6, <1>8, <1>9, <2>1, <2>2 DEF Keeps
  <1> QED BY <1>9, <1>10 DEF r

-----------------------------------------------------------------------------
(* Lowering.                                                               *)

(* What a job of a hook becomes.                                           *)
IsLowered(job, j, r, priority) ==
  /\ job = [name |-> job.name, priority |-> job.priority, run |-> job.run,
            isolate |-> job.isolate, set |-> job.set]
  /\ job.name = j /\ job.priority = priority
  /\ "run" \in DOMAIN WithBuiltin(r) /\ job.run = WithBuiltin(r).run
  /\ job.set = WithBuiltin(r) /\ IsJob(job.set)
  /\ \A field \in {"reads", "writes"} : Get(job.set, field, None) # Bad

(* What LowerJob does not refuse it makes into such a job.                 *)
LEMMA LowerJobIs ==
  ASSUME NEW j, NEW r, IsJob(r), NEW priority, LowerJob(j, r, priority) # Bad
  PROVE  IsLowered(LowerJob(j, r, priority), j, r, priority)
  <1> DEFINE job == WithBuiltin(r)
             isolate == IF "isolate" \in DOMAIN job THEN LowerIsolate(job.isolate) ELSE None
             wrong == \/ "run" \notin DOMAIN job
                      \/ isolate = Bad
                      \/ \E field \in {"timeout", "reads", "writes"} :
                           Get(job, field, None) = Bad
             unknown == "builtin" \in DOMAIN r /\ r.builtin \notin DOMAIN Builtin
             low == [name |-> j, priority |-> priority, run |-> job.run,
                     isolate |-> isolate, set |-> job]
  <1>1. LowerJob(j, r, priority) = IF unknown THEN Bad ELSE IF wrong THEN Bad ELSE low
    BY Zenon DEF LowerJob
  <1> HIDE DEF low
  <1>2. ~unknown /\ ~wrong /\ LowerJob(j, r, priority) = low
    <2> HIDE DEF unknown, wrong
    <2> QED BY <1>1
  <1>3. IsJob(job)
    <2>1. CASE "builtin" \in DOMAIN r
      <3>1. r.builtin \in DOMAIN Builtin BY <1>2, <2>1
      <3>2. IsJob(Builtin[r.builtin]) BY <3>1, BuiltinAssumption
      <3>3. job = Laid(r, Builtin[r.builtin]) BY <2>1 DEF WithBuiltin
      <3> HIDE DEF job
      <3> QED BY <3>2, <3>3, LaidJob
    <2>2. CASE "builtin" \notin DOMAIN r BY <2>2 DEF WithBuiltin
    <2> QED BY <2>1, <2>2
  <1>4. "run" \in DOMAIN job /\ \A field \in {"reads", "writes"} : Get(job, field, None) # Bad
    BY <1>2
  <1> HIDE DEF job, isolate
  <1>5. /\ low.name = j /\ low.priority = priority /\ low.run = job.run /\ low.set = job
        /\ low = [name |-> low.name, priority |-> low.priority, run |-> low.run,
                  isolate |-> low.isolate, set |-> low.set]
    BY DEF low
  <1> HIDE DEF wrong, unknown
  <1> QED BY <1>2, <1>3, <1>4, <1>5 DEF IsLowered, job

(* Where the names of `order` stand last.                                  *)
StandsAt(order, name) == { i \in DOMAIN order : order[i] = name }

IsLast(i, order, name) ==
  i \in StandsAt(order, name) /\ \A k \in StandsAt(order, name) : k <= i

(* PriorityOf goes by the last place of the name.                          *)
LEMMA PriorityIs ==
  ASSUME NEW order \in Seq(Int), NEW name
  PROVE  /\ PriorityOf(order, name) \in 0..Len(order)
         /\ StandsAt(order, name) = {} => PriorityOf(order, name) = Len(order)
         /\ StandsAt(order, name) # {} =>
              /\ IsLast(PriorityOf(order, name) + 1, order, name)
              /\ PriorityOf(order, name) < Len(order)
  <1> DEFINE at == StandsAt(order, name)
             p == PriorityOf(order, name)
             top == CHOOSE i \in at : \A k \in at : k <= i
  <1>1. Len(order) \in Nat /\ DOMAIN order = 1..Len(order) OBVIOUS
  <1>2. at \subseteq 1..Len(order) BY <1>1 DEF StandsAt
  <1>3. p = IF at = {} THEN Len(order) ELSE top - 1 BY Zenon DEF PriorityOf, StandsAt
  <1>4. CASE at = {} BY <1>1, <1>3, <1>4
  <1>5. CASE at # {}
    <2>1. \E i \in at : \A k \in at : k <= i
      <3> HIDE DEF at
      <3> QED BY <1>1, <1>2, <1>5, GreatestNatural
    <2>2. top \in at /\ \A k \in at : k <= top
      <3> HIDE DEF at
      <3> QED BY <2>1
    <2> HIDE DEF top
    <2>3. top \in 1..Len(order) /\ p = top - 1
      <3> HIDE DEF at
      <3> QED BY <1>2, <1>3, <1>5, <2>2
    <2>4. p + 1 = top /\ p \in 0..Len(order) /\ p < Len(order)
      <3> HIDE DEF p
      <3> QED BY <1>1, <2>3
    <2>5. IsLast(p + 1, order, name)
      <3> HIDE DEF p
      <3> QED BY <2>2, <2>4 DEF IsLast
    <2> QED BY <1>5, <2>4, <2>5
  <1> QED BY <1>4, <1>5

(* Jobs that can be told apart by their names.                             *)
AreNamed(S) ==
  /\ IsFiniteSet(S)
  /\ \A x \in S : x.name \in Int /\ x.priority \in Int
  /\ \A x, y \in S : x.name = y.name => x = y

(* Sorted, with the order of the jobs: each job once.                      *)
LEMMA SortedJobs ==
  ASSUME NEW S, AreNamed(S)
  PROVE  /\ Cardinality(S) \in Nat
         /\ Sorted(S, Before) \in Seq(S) /\ Len(Sorted(S, Before)) = Cardinality(S)
         /\ \A x \in S : \E k \in 1..Cardinality(S) : Sorted(S, Before)[k] = x
         /\ \A i, k \in 1..Cardinality(S) :
              i < k => /\ Sorted(S, Before)[i] # Sorted(S, Before)[k]
                       /\ Before(Sorted(S, Before)[i], Sorted(S, Before)[k])
  <1> DEFINE n == Cardinality(S)
             down == [x \in S |-> { y \in S : Before(y, x) }]
             s == [k \in 1..n |-> CHOOSE x \in S : Cardinality({ y \in S : Before(y, x) }) = k]
  <1>0. IsFiniteSet(S) BY DEF AreNamed
  <1>1. down \in [S -> SUBSET S] /\ \A x \in S : down[x] = { y \in S : Before(y, x) } OBVIOUS
  <1>2. IsOrder(down, S)
    <2>1. \A x, y \in S : y \in down[x] <=> Before(y, x) BY <1>1
    <2> HIDE DEF down
    <2>6. ASSUME NEW x \in S, NEW y \in S, NEW z \in S
          PROVE  /\ Before(x, x) /\ (Before(x, y) \/ Before(y, x))
                 /\ Before(x, y) /\ Before(y, x) => x = y
                 /\ Before(x, y) /\ Before(y, z) => Before(x, z)
      <3>1. /\ x.name \in Int /\ y.name \in Int /\ z.name \in Int
            /\ x.priority \in Int /\ y.priority \in Int /\ z.priority \in Int
            /\ x.name = y.name => x = y
        BY DEF AreNamed
      <3>2. Before(x, x) /\ (Before(x, y) \/ Before(y, x)) BY <3>1 DEF Before
      <3>3. Before(x, y) /\ Before(y, x) => x.name = y.name BY <3>1 DEF Before
      <3>4. Before(x, y) /\ Before(y, z) => Before(x, z) BY <3>1 DEF Before
      <3> QED BY <3>1, <3>2, <3>3, <3>4
    <2>2. \A x \in S : x \in down[x] BY <2>1, <2>6
    <2>3. \A x, y \in S : x \in down[y] \/ y \in down[x] BY <2>1, <2>6
    <2>4. \A x, y \in S : x \in down[y] /\ y \in down[x] => x = y BY <2>1, <2>6
    <2>5. \A x, y, z \in S : x \in down[y] /\ y \in down[z] => x \in down[z] BY <2>1, <2>6
    <2> QED BY <1>1, <2>2, <2>3, <2>4, <2>5 DEF IsOrder
  <1>3. Sorted(S, Before) = s BY DEF Sorted
  <1>4. \A k \in 1..n : \E x \in S : Cardinality({ y \in S : Before(y, x) }) = k
    <2>1. \A k \in 1..n : \E x \in S : Cardinality(down[x]) = k
      <3> HIDE DEF down
      <3> QED BY <1>0, <1>2, RankIs
    <2> QED BY <1>1, <2>1
  <1>5. \A k \in 1..n : s[k] \in S /\ Cardinality({ y \in S : Before(y, s[k]) }) = k BY <1>4
  <1>6. s \in [1..n -> S]
    <2>1. s = [k \in 1..n |-> s[k]] OBVIOUS
    <2> HIDE DEF s
    <2> QED BY <1>5, <2>1
  <1> HIDE DEF s, down
  <1>7. \A k \in 1..n : Cardinality(down[s[k]]) = k BY <1>1, <1>5
  <1>8. IsSorting(s, down, S) BY <1>0, <1>2, <1>6, <1>7, SortingIs
  <1>9. n \in Nat BY <1>0, FS_CardinalityType
  <1>10. s \in Seq(S) /\ Len(s) = n
    <2> HIDE DEF n
    <2> QED BY <1>6, <1>9
  <1>11. ASSUME NEW i \in 1..n, NEW k \in 1..n, i < k PROVE s[i] # s[k] /\ Before(s[i], s[k])
    <2>1. s[i] # s[k] /\ s[i] \in down[s[k]] /\ s[i] \in S /\ s[k] \in S
      BY <1>6, <1>8, <1>11 DEF IsSorting
    <2>2. Before(s[i], s[k]) BY <1>1, <2>1
    <2> QED BY <2>1, <2>2
  <1>12. \A x \in S : \E k \in 1..n : s[k] = x BY <1>8 DEF IsSorting
  <1> QED BY <1>3, <1>9, <1>10, <1>11, <1>12

(* The names of the jobs of a hook that was lowered.                       *)
Order(r) == Get(r.flags, "priority", <<>>)

(* All jobs of a hook, lowered and in order.                               *)
AreLowered(jobs, r) ==
  /\ jobs \in Seq(ToSet(jobs))
  /\ \A i \in 1..Len(jobs) :
       /\ jobs[i].name \in DOMAIN r.jobs
       /\ IsLowered(jobs[i], jobs[i].name, r.jobs[jobs[i].name],
                    PriorityOf(Order(r), jobs[i].name))
  /\ \A j \in DOMAIN r.jobs : \E i \in 1..Len(jobs) : jobs[i].name = j
  /\ \A i, k \in 1..Len(jobs) : i < k => jobs[i].name # jobs[k].name
  /\ \A i, k \in 1..Len(jobs) : i < k => Before(jobs[i], jobs[k])

(* What LowerHook does not refuse has each job of the hook once.           *)
LEMMA LowerHookIs ==
  ASSUME NEW name, NEW r, IsHook(r), LowerHook(name, r) # Bad
  PROVE  AreLowered(LowerHook(name, r).jobs, r) /\ LowerHook(name, r).name = name
  <1> DEFINE order == Order(r)
             low(j) == LowerJob(j, r.jobs[j], PriorityOf(order, j))
             S == { low(j) : j \in DOMAIN r.jobs }
             js == Sorted(S, Before)
             h == LowerHook(name, r)
  <1>1. Bad \notin S /\ h.jobs = js /\ h.name = name
    <2> DEFINE flag(f, default) == Get(r.flags, f, default)
               a == flag("parallel", FALSE)
               b == flag("fail_fast", FALSE)
               c == flag("parallel_limit", 0)
               d == flag("stash_untracked", name = "pre-commit")
               e == DOMAIN r.flags \ {"priority"}
               rec == [name |-> name, parallel |-> a, fail_fast |-> b, parallel_limit |-> c,
                       stash_untracked |-> d, explicit |-> e, jobs |-> js]
    <2>1. h = IF Bad \in S THEN Bad ELSE rec BY DEF LowerHook, Order
    <2> HIDE DEF S, js, h, a, b, c, d, e
    <2>2. h # Bad BY DEF h
    <2> QED BY <2>1, <2>2
  <1>2. IsJobs(r.jobs) /\ order \in Seq(Int) BY DEF IsHook, Order
  <1>3. IsFiniteSet(DOMAIN r.jobs) /\ DOMAIN r.jobs \subseteq Int
        /\ \A j \in DOMAIN r.jobs : IsJob(r.jobs[j])
    BY <1>2 DEF IsJobs
  <1> HIDE DEF order
  <1>4. ASSUME NEW j \in DOMAIN r.jobs
        PROVE  IsLowered(low(j), j, r.jobs[j], PriorityOf(order, j))
    <2>1. low(j) # Bad BY <1>1, <1>4
    <2> QED BY <1>3, <2>1, LowerJobIs
  <1>5. \A j \in DOMAIN r.jobs : low(j).name = j /\ low(j).priority = PriorityOf(order, j)
    BY <1>4 DEF IsLowered
  <1>6. \A j : PriorityOf(order, j) \in Int
    <2>1. Len(order) \in Nat BY <1>2
    <2>2. \A j : PriorityOf(order, j) \in 0..Len(order) BY <1>2, PriorityIs
    <2> QED BY <2>1, <2>2
  <1> HIDE DEF low, h
  <1>7. AreNamed(S)
    <2>1. IsFiniteSet(S)
      <3> DEFINE g == [j \in DOMAIN r.jobs |-> low(j)]
      <3>1. g \in Surjection(DOMAIN r.jobs, S) BY DEF Surjection
      <3> HIDE DEF g, S
      <3> QED BY <1>3, <3>1, FS_Surjection
    <2>2. \A x \in S : \E j \in DOMAIN r.jobs : x = low(j) OBVIOUS
    <2> HIDE DEF S
    <2>3. \A x \in S : x.name \in Int /\ x.priority \in Int BY <1>3, <1>5, <1>6, <2>2
    <2>4. \A x, y \in S : x.name = y.name => x = y BY <1>5, <2>2
    <2> QED BY <2>1, <2>3, <2>4 DEF AreNamed
  <1>8. \A x \in S : \E j \in DOMAIN r.jobs : x = low(j) OBVIOUS
  <1>9. \A j \in DOMAIN r.jobs : low(j) \in S OBVIOUS
  <1> DEFINE n == Cardinality(S)
  <1> HIDE DEF S, js
  <1>10. /\ n \in Nat /\ js \in Seq(S) /\ Len(js) = n
         /\ \A x \in S : \E k \in 1..n : js[k] = x
         /\ \A i, k \in 1..n : i < k => js[i] # js[k] /\ Before(js[i], js[k])
    BY <1>7, SortedJobs DEF js
  <1> HIDE DEF n
  <1>11. \A i \in 1..n : js[i] \in S BY <1>10
  <1>12. ASSUME NEW i \in 1..n
         PROVE  /\ js[i].name \in DOMAIN r.jobs
                /\ IsLowered(js[i], js[i].name, r.jobs[js[i].name],
                             PriorityOf(order, js[i].name))
    <2>1. PICK j \in DOMAIN r.jobs : js[i] = low(j) BY <1>8, <1>11
    <2>2. js[i].name = j BY <1>5, <2>1
    <2> QED BY <1>4, <2>1, <2>2
  <1>13. \A j \in DOMAIN r.jobs : \E i \in 1..n : js[i].name = j BY <1>5, <1>9, <1>10
  <1>14. ASSUME NEW i \in 1..n, NEW k \in 1..n, i < k PROVE js[i].name # js[k].name
    <2>1. js[i] # js[k] /\ js[i] \in S /\ js[k] \in S BY <1>10, <1>11, <1>14
    <2> QED BY <1>7, <2>1 DEF AreNamed
  <1>15. js \in Seq(ToSet(js)) BY <1>10, SeqFacts
  <1>16. AreLowered(js, r)
    BY <1>10, <1>12, <1>13, <1>14, <1>15 DEF AreLowered, order
  <1> QED BY <1>1, <1>16 DEF h

(* The order of the names is that of the jobs.                             *)
LEMMA BeforeIsFirst ==
  ASSUME NEW r, Order(r) \in Seq(Int), NEW a, NEW b,
         a.name \in Int, b.name \in Int, a.name # b.name,
         a.priority = PriorityOf(Order(r), a.name),
         b.priority = PriorityOf(Order(r), b.name),
         Before(a, b)
  PROVE  GoesFirst(r, a.name, b.name)
  <1> DEFINE order == Order(r)
             j == a.name
             k == b.name
             p == PriorityOf(order, j)
             q == PriorityOf(order, k)
             at(n) == StandsAt(order, n)
             last(n) == CHOOSE i \in at(n) : \A m \in at(n) : m <= i
  <1> SUFFICES GoesFirst(r, j, k) OBVIOUS
  <1>1. p < q \/ (p = q /\ j <= k) BY DEF Before
  <1>2. /\ p \in 0..Len(order)
        /\ at(j) = {} => p = Len(order)
        /\ at(j) # {} => IsLast(p + 1, order, j) /\ p < Len(order)
    BY PriorityIs
  <1>3. /\ q \in 0..Len(order)
        /\ at(k) = {} => q = Len(order)
        /\ at(k) # {} => IsLast(q + 1, order, k) /\ q < Len(order)
    BY PriorityIs
  <1>4. Len(order) \in Nat /\ DOMAIN order = 1..Len(order) OBVIOUS
  <1>5. ASSUME NEW n, NEW i, IsLast(i, order, n) PROVE last(n) = i
    <2>1. i \in at(n) /\ \A m \in at(n) : m <= i BY <1>5 DEF IsLast
    <2>2. last(n) \in at(n) /\ \A m \in at(n) : m <= last(n)
      <3> HIDE DEF at
      <3> QED BY <2>1
    <2>3. at(n) \subseteq Int BY <1>4 DEF StandsAt
    <2> HIDE DEF last, at
    <2>4. i \in Int /\ last(n) \in Int /\ last(n) <= i /\ i <= last(n) BY <2>1, <2>2, <2>3
    <2> QED BY <2>4
  <1>6. GoesFirst(r, j, k) <=> CASE at(j) # {} /\ at(k) # {} -> last(j) < last(k)
                                 [] at(j) = {} /\ at(k) = {} -> j < k
                                 [] OTHER -> at(j) # {}
    BY Zenon DEF GoesFirst, StandsAt, Order
  <1>7. \A n, i : IsLast(i, order, n) => i \in DOMAIN order /\ order[i] = n
    BY DEF IsLast, StandsAt
  <1> HIDE DEF order, last, p, q, at, j, k
  <1>12. p \in 0..Len(order) /\ q \in 0..Len(order) /\ Len(order) \in Nat
    BY ONLY <1>2, <1>3, <1>4, Zenon
  <1>13. p \in Int /\ p <= Len(order) BY ONLY <1>12
  <1>14. q \in Int /\ q <= Len(order) BY ONLY <1>12
  <1>15. at(j) = {} => p = Len(order) BY ONLY <1>2
  <1>16. at(k) = {} => q = Len(order) BY ONLY <1>3
  <1>8. CASE at(j) # {} /\ at(k) # {}
    <2>1. last(j) = p + 1 /\ last(k) = q + 1 BY <1>2, <1>3, <1>5, <1>8
    <2>2. p # q
      <3> SUFFICES ASSUME p = q PROVE FALSE OBVIOUS
      <3>1. IsLast(p + 1, order, j) /\ IsLast(q + 1, order, k) BY <1>2, <1>3, <1>8
      <3>2. order[p + 1] = j /\ order[q + 1] = k BY ONLY <3>1, <1>7
      <3>3. j = k BY ONLY <3>2, p = q
      <3> QED BY <3>3 DEF j, k
    <2>3. last(j) < last(k)
      <3> DEFINE x == last(j)
                 y == last(k)
      <3> HIDE DEF x, y
      <3>1. x = p + 1 /\ y = q + 1 BY <2>1 DEF x, y
      <3>2. x < y BY ONLY <1>1, <1>13, <1>14, <2>2, <3>1
      <3> QED BY <3>2 DEF x, y
    <2> QED BY <1>6, <1>8, <2>3
  <1>9. CASE at(j) = {} /\ at(k) = {}
    <2>1. p = q /\ p \in Int BY <1>13, <1>14, <1>15, <1>16, <1>9
    <2>2. j <= k BY ONLY <1>1, <2>1
    <2>3. j \in Int /\ k \in Int /\ j # k BY DEF j, k
    <2>4. j < k BY ONLY <2>2, <2>3
    <2> QED BY <1>6, <1>9, <2>4
  <1>10. CASE at(j) # {} /\ at(k) = {} BY <1>6, <1>10
  <1>11. CASE at(j) = {} /\ at(k) # {}
    <2>1. p = Len(order) /\ p \in Int BY <1>13, <1>15, <1>11
    <2>2. q < Len(order) /\ q \in Int BY <1>3, <1>14, <1>11
    <2>3. ~(p < q \/ p = q) BY ONLY <2>1, <2>2, <1>4
    <2> QED BY <1>1, <2>3
  <1> QED BY <1>8, <1>9, <1>10, <1>11

(* The jobs of a hook that are asked for, and what is to be run of them.   *)
Asked(r) ==
  { j \in DOMAIN r.jobs :
      call.command = "fix" =>
        /\ "fix" \in DOMAIN WithBuiltin(r.jobs[j])
        /\ call.args.only # {} => j \in call.args.only }

AreChosen(jobs, r) ==
  /\ jobs \in Seq(ToSet(jobs))
  /\ \A i \in 1..Len(jobs) :
       /\ jobs[i].name \in Asked(r)
       /\ jobs[i].run = Said(r.jobs[jobs[i].name]) /\ IsCommand(jobs[i].run)
  /\ \A j \in Asked(r) : \E i \in 1..Len(jobs) : jobs[i].name = j
  /\ \A i, k \in 1..Len(jobs) :
       i < k => jobs[i].name # jobs[k].name /\ GoesFirst(r, jobs[i].name, jobs[k].name)

(* They stand in the order that the files tell.                            *)
LEMMA LoweredFirst ==
  ASSUME NEW r, IsHook(r), NEW jobs, AreLowered(jobs, r)
  PROVE  \A i, k \in 1..Len(jobs) : i < k => GoesFirst(r, jobs[i].name, jobs[k].name)
  <1> SUFFICES ASSUME NEW i \in 1..Len(jobs), NEW k \in 1..Len(jobs), i < k
               PROVE  GoesFirst(r, jobs[i].name, jobs[k].name)
    OBVIOUS
  <1> DEFINE a == jobs[i]
             b == jobs[k]
  <1>1. Order(r) \in Seq(Int) /\ DOMAIN r.jobs \subseteq Int BY DEF IsHook, Order, IsJobs
  <1>2. /\ a.name \in DOMAIN r.jobs /\ a.priority = PriorityOf(Order(r), a.name)
        /\ b.name \in DOMAIN r.jobs /\ b.priority = PriorityOf(Order(r), b.name)
        /\ a.name # b.name /\ Before(a, b)
    BY DEF AreLowered, IsLowered
  <1> HIDE DEF a, b
  <1>3. a.name \in Int /\ b.name \in Int BY <1>1, <1>2
  <1>4. GoesFirst(r, a.name, b.name) BY <1>1, <1>2, <1>3, BeforeIsFirst
  <1> QED BY <1>4 DEF a, b

(* Every command but fix takes them all.                                   *)
LEMMA AllAreChosen ==
  ASSUME NEW r, IsHook(r), NEW jobs, AreLowered(jobs, r), call.command # "fix"
  PROVE  AreChosen(jobs, r)
  <1>1. Asked(r) = DOMAIN r.jobs BY DEF Asked
  <1>2. ASSUME NEW i \in 1..Len(jobs)
        PROVE  jobs[i].run = Said(r.jobs[jobs[i].name]) /\ IsCommand(jobs[i].run)
    <2> DEFINE a == jobs[i]
               w == WithBuiltin(r.jobs[a.name])
    <2>1. "run" \in DOMAIN w /\ a.run = w.run /\ a.set = w /\ IsJob(a.set)
      BY DEF AreLowered, IsLowered
    <2>2. Said(r.jobs[a.name]) = w["run"] BY DEF Said
    <2> HIDE DEF a, w
    <2>3. IsCommand(w["run"]) BY <2>1 DEF IsJob
    <2>4. a.run = Said(r.jobs[a.name]) /\ IsCommand(a.run) BY <2>1, <2>2, <2>3
    <2> QED BY <2>4 DEF a
  <1>3. \A i, k \in 1..Len(jobs) : i < k => GoesFirst(r, jobs[i].name, jobs[k].name)
    BY LoweredFirst
  <1> QED BY <1>1, <1>2, <1>3 DEF AreChosen, AreLowered

(* fix takes those that have one, with it for a command.                   *)
LEMMA FixAreChosen ==
  ASSUME NEW r, IsHook(r), NEW hook, AreLowered(hook.jobs, r), call.command = "fix"
  PROVE  AreChosen(FixJobs(hook), r)
  <1> DEFINE all == hook.jobs
             asked(job) == /\ "fix" \in DOMAIN job.set
                           /\ call.args.only # {} => job.name \in call.args.only
             T == { job \in ToSet(all) : asked(job) }
             jobs == Kept(all, T)
             m == Len(jobs)
             new == FixJobs(hook)
  <1>1. new = [i \in DOMAIN jobs |-> [jobs[i] EXCEPT !.run = jobs[i].set.fix]]
    BY Zenon DEF FixJobs
  <1>2. all \in Seq(ToSet(all)) BY DEF AreLowered
  <1>3. \A i \in 1..Len(all) : all[i] \in ToSet(all) BY <1>2 DEF ToSet
  <1>4. \A i \in 1..Len(all) : all[i] \in T <=> asked(all[i]) BY <1>3
  <1> DEFINE low(a, j) == IsLowered(a, j, r.jobs[j], PriorityOf(Order(r), j))
  <1>5. \A i \in 1..Len(all) : all[i].name \in DOMAIN r.jobs /\ low(all[i], all[i].name)
    BY DEF AreLowered
  <1>6. \A i, k \in 1..Len(all) :
          i < k => all[i].name # all[k].name /\ GoesFirst(r, all[i].name, all[k].name)
    BY LoweredFirst DEF AreLowered
  <1>7. \A j \in DOMAIN r.jobs : \E i \in 1..Len(all) : all[i].name = j BY DEF AreLowered
  <1> HIDE DEF all, T, jobs, new
  <1>8. jobs \in Seq(ToSet(all) \cap T) /\ \E at : Keeps(at, jobs, all, T)
    BY <1>2, KeptIs DEF jobs
  <1>9. PICK at : Keeps(at, jobs, all, T) BY <1>8
  <1>10. /\ at \in [1..m -> 1..Len(all)]
         /\ \A k \in 1..m : jobs[k] = all[at[k]] /\ all[at[k]] \in T
         /\ \A i \in 1..Len(all) : all[i] \in T => \E k \in 1..m : at[k] = i
         /\ \A i, k \in 1..m : i < k => at[i] < at[k]
    BY <1>9 DEF Keeps
  <1>11. m \in Nat /\ DOMAIN jobs = 1..m BY <1>8
  <1> HIDE DEF m
  <1>12. ASSUME NEW k \in 1..m
         PROVE  /\ at[k] \in 1..Len(all) /\ asked(all[at[k]])
                /\ new[k] = [all[at[k]] EXCEPT !.run = all[at[k]].set.fix]
    BY <1>1, <1>4, <1>10, <1>11
  <1>13. ASSUME NEW k \in 1..m
         PROVE  /\ new[k].name = all[at[k]].name
                /\ new[k].run = Said(r.jobs[new[k].name]) /\ IsCommand(new[k].run)
    <2> DEFINE a == all[at[k]]
               w == WithBuiltin(r.jobs[a.name])
    <2>1. low(a, a.name) BY <1>5, <1>12
    <2>2. /\ a = [name |-> a.name, priority |-> a.priority, run |-> a.run,
                  isolate |-> a.isolate, set |-> a.set]
          /\ a.set = w /\ IsJob(a.set)
      BY <2>1 DEF IsLowered
    <2>3. "fix" \in DOMAIN a.set BY <1>12
    <2>4. new[k] = [a EXCEPT !.run = a.set.fix] BY <1>12
    <2> HIDE DEF a
    <2>5. new[k].name = a.name /\ new[k].run = a.set.fix BY <2>2, <2>4
    <2>6. Said(r.jobs[a.name]) = w["fix"] BY DEF Said
    <2> HIDE DEF w
    <2>7. IsCommand(a.set["fix"]) BY <2>2, <2>3 DEF IsJob
    <2> QED BY <2>2, <2>5, <2>6, <2>7 DEF a
  <1>14. ASSUME NEW k \in 1..m PROVE new[k].name \in Asked(r)
    <2> DEFINE a == all[at[k]]
    <2>1. a.name \in DOMAIN r.jobs /\ a.set = WithBuiltin(r.jobs[a.name])
      BY <1>5, <1>12 DEF IsLowered
    <2>2. asked(a) BY <1>12
    <2> HIDE DEF a
    <2>3. a.name \in Asked(r) BY <2>1, <2>2 DEF Asked
    <2> QED BY <1>13, <2>3 DEF a
  <1>15. ASSUME NEW j \in Asked(r) PROVE \E k \in 1..m : new[k].name = j
    <2>1. PICK i \in 1..Len(all) : all[i].name = j BY <1>7 DEF Asked
    <2>2. all[i].set = WithBuiltin(r.jobs[j]) BY <1>5, <2>1 DEF IsLowered
    <2>3. asked(all[i]) BY <2>1, <2>2 DEF Asked
    <2>4. PICK k \in 1..m : at[k] = i BY <1>4, <1>10, <2>3
    <2> QED BY <1>13, <2>1, <2>4
  <1>16. ASSUME NEW i \in 1..m, NEW k \in 1..m, i < k
         PROVE  new[i].name # new[k].name /\ GoesFirst(r, new[i].name, new[k].name)
    <2>1. at[i] \in 1..Len(all) /\ at[k] \in 1..Len(all) /\ at[i] < at[k]
      BY <1>10, <1>16
    <2> QED BY <1>6, <1>13, <2>1
  <1>17. new \in Seq(ToSet(new)) /\ Len(new) = m
    <2>1. DOMAIN new = 1..m /\ new = [i \in 1..m |-> new[i]] BY <1>1, <1>11
    <2>2. \A i \in 1..m : new[i] \in ToSet(new) BY <2>1 DEF ToSet
    <2>3. new \in [1..m -> ToSet(new)] BY <2>1, <2>2
    <2> QED BY <1>11, <2>3
  <1>18. AreChosen(new, r) BY <1>13, <1>14, <1>15, <1>16, <1>17 DEF AreChosen
  <1> QED BY <1>18 DEF new

(* A plan of a job: none, or all files in chunks that are small enough.    *)
PlanIs(plan, job) ==
  plan = None \/ ( /\ plan.job = job.name
                   /\ Chunked(job.run, plan.commands)
                   /\ HasTemplate(job.run) => FlattenSeq(plan.commands) = plan.files )

(* Such is every plan that resolve_job_plan makes.                         *)
LEMMA ResolvedPlanIs ==
  ASSUME NEW hook, NEW job, IsCommand(job.run), NEW git \in Listing,
         ResolveJobPlan(hook, job, git) # Bad
  PROVE  PlanIs(ResolveJobPlan(hook, job, git), job)
  <1> DEFINE D == DOMAIN Bytes
             listed == RawFiles(hook, job, git)
             files == FilterFiles(listed, job)
             globs == DOMAIN job.set \cap {"glob", "exclude"}
             templated == HasTemplate(job.run)
             wrong == \E g \in globs : job.set[g] = Bad
             bare == [job |-> job.name, commands |-> <<<<>>>>, files |-> <<>>]
             full == [job |-> job.name, files |-> files,
                      commands |-> ExpandTemplate(job.run, files)]
             plan == ResolveJobPlan(hook, job, git)
  <1>1. listed \in Seq(D)
    <2>1. /\ git.staged \in Seq(D) /\ git.tracked \in Seq(D)
          /\ git.pushed = Bad \/ git.pushed \in Seq(D)
      BY DEF Listing
    <2>2. \/ listed = git.tracked \/ listed = git.staged
          \/ git.pushed # Bad /\ listed = git.pushed
      BY Zenon DEF RawFiles
    <2> QED BY ONLY <2>1, <2>2
  <1>2. files \in Seq(D)
    <2> DEFINE T == Get(job.set, "glob", DOMAIN Bytes) \ Get(job.set, "exclude", {})
    <2>1. files = Kept(listed, T) BY DEF FilterFiles
    <2> HIDE DEF T, files, listed, D
    <2>2. Kept(listed, T) \in Seq(D \cap T) BY <1>1, KeptIs
    <2>3. Seq(D \cap T) \subseteq Seq(D)
      <3> SUFFICES ASSUME NEW s \in Seq(D \cap T) PROVE s \in Seq(D) OBVIOUS
      <3>1. Len(s) \in Nat /\ s \in [1..Len(s) -> D] OBVIOUS
      <3> QED BY <3>1
    <2> QED BY <2>1, <2>2, <2>3
  <1>3. \/ ~templated /\ plan = bare
        \/ plan = Bad
        \/ plan = None
        \/ plan = full
    <2>1. CASE ~templated /\ globs = {}
      <3>1. plan = bare BY <2>1, Zenon DEF ResolveJobPlan
      <3> QED BY <2>1, <3>1
    <2>2. CASE (templated \/ globs # {}) /\ wrong
      <3>1. plan = Bad BY <2>2, Zenon DEF ResolveJobPlan
      <3> QED BY <3>1
    <2>3. CASE (templated \/ globs # {}) /\ ~wrong
      <3>1. plan = IF templated /\ files = <<>> THEN None ELSE full
        BY <2>3, Zenon DEF ResolveJobPlan
      <3> QED BY <3>1
    <2> QED BY <2>1, <2>2, <2>3
  <1>4. /\ Chunked(job.run, <<<<>>>>) BY OneEmptyChunk
  <1>5. /\ Chunked(job.run, ExpandTemplate(job.run, files))
        /\ templated => FlattenSeq(ExpandTemplate(job.run, files)) = files
    <2>1. job.run.bytes \in Nat BY DEF IsCommand
    <2> HIDE DEF files
    <2> QED BY <1>2, <2>1, ExpandIs
  <1>6. ASSUME ~templated PROVE PlanIs(bare, job)
    <2>1. bare.job = job.name /\ bare.commands = <<<<>>>> OBVIOUS
    <2> HIDE DEF bare
    <2> QED BY <1>4, <1>6, <2>1, Zenon DEF PlanIs
  <1>7. PlanIs(full, job)
    <2>1. /\ full.job = job.name /\ full.files = files
          /\ full.commands = ExpandTemplate(job.run, files)
      OBVIOUS
    <2> HIDE DEF full, files
    <2> QED BY <1>5, <2>1, Zenon DEF PlanIs
  <1>8. PlanIs(None, job) BY DEF PlanIs
  <1> HIDE DEF bare, full, templated, plan
  <1> QED BY <1>3, <1>6, <1>7, <1>8 DEF plan

-----------------------------------------------------------------------------
(* From the files to the plans.                                            *)

(* Configurations, wherever they are, are configurations.                  *)
FramesAreRaw(st) ==
  \A i \in 1..Len(st) : IsRawConfig(st[i].main) /\ IsRawConfig(st[i].merged)

(* The jobs to be planned: all that are asked for.                         *)
Chosen ==
  IF call.command = "fix" THEN FixJobs(config.hooks[call.hook])
  ELSE config.hooks[call.hook].jobs

(* All of them but the rest have been looked at: plan k is of job at[k],   *)
(* and unless planning has failed, those that are left out were filtered.  *)
PlansAre(at, ps, all, rest, options, whole) ==
  LET n == Len(all) - Len(rest)
  IN  /\ rest \in Seq(ToSet(rest)) /\ Len(rest) <= Len(all)
      /\ \A k \in 1..Len(rest) : rest[k] = all[n + k]
      /\ at \in [1..Len(ps) -> 1..n]
      /\ \A k \in 1..Len(ps) : /\ PlanIs(ps[k], all[at[k]])
                               /\ ~IsFiltered(options, all[at[k]].name)
      /\ \A i, k \in 1..Len(ps) : i < k => at[i] < at[k]
      /\ whole => \A i \in 1..n :
           ~IsFiltered(options, all[i].name) => \E k \in 1..Len(ps) : at[k] = i

ArePlanned(ps, all, rest, options, whole) ==
  \E at : PlansAre(at, ps, all, rest, options, whole)

(* What is planned and shown is the configuration that was resolved.       *)
IsLoaded == config = Lower(raw) /\ config # Bad

Planning == pc = "planning" \/ plans # <<>> \/ exit = "run"

(* Plans are made in order of the jobs of the one configuration that was   *)
(* resolved, and nothing is planned or shown before it is there.           *)
PlanningOK ==
  /\ plans \in Seq(ToSet(plans))
  /\ pc \in {"selecting", "planning"} \/ plans # <<>> \/ exit = "run" => IsLoaded
  /\ pc \notin {"planning", "done"} => plans = <<>>
  /\ pc # "done" => shown = None
  /\ Planning => /\ call.hook \in DOMAIN config.hooks
                 /\ ArePlanned(plans, Chosen, todo, Options, exit # "glob")
  /\ exit = "run" => pc = "done" /\ todo = <<>>

(* The inductive invariant.                                                *)
PInv ==
  /\ IInv
  /\ call.git \in Listing
  /\ IsRawConfig(raw) /\ FramesAreRaw(stack)
  /\ PlanningOK
  /\ ShownInOrder

(* The configuration that nothing is merged into yet.                      *)
LEMMA EmptyIsRaw == IsRawConfig(EmptyConfig)
  <1>1. IsFiniteSet(DOMAIN None) /\ DOMAIN None = {}
    <2>1. DOMAIN None = {} BY DEF None
    <2> QED BY <2>1, FS_EmptySet
  <1>2. None \in Seq(File) BY DEF None
  <1>3. IsHooks(None) BY <1>1 DEF IsHooks
  <1>4. EmptyConfig = [meta |-> None, extends |-> None, hooks |-> None, packages |-> None]
    BY DEF EmptyConfig, None
  <1> QED BY <1>1, <1>2, <1>3, <1>4 DEF IsRawConfig

(* What an activation returns.                                             *)
LEMMA MergedIsRaw ==
  ASSUME NEW frame, IsRawConfig(frame.main), IsRawConfig(frame.merged)
  PROVE  IsRawConfig(Merged(frame))
  <1> DEFINE c == frame.main
             bare == [c EXCEPT !.extends = <<>>]
  <1>1. << >> \in Seq(File) OBVIOUS
  <1>2. /\ bare = [meta |-> bare.meta, extends |-> bare.extends, hooks |-> bare.hooks,
                   packages |-> bare.packages]
        /\ bare.extends = <<>> /\ bare.hooks = c.hooks /\ bare.packages = c.packages
    <2>1. c = [meta |-> c.meta, extends |-> c.extends, hooks |-> c.hooks,
               packages |-> c.packages]
      BY DEF IsRawConfig
    <2> HIDE DEF c
    <2> QED BY <2>1
  <1>3. IsRawConfig(bare)
    <2> HIDE DEF bare, c
    <2>1. IsRawConfig(c) BY DEF c
    <2> QED BY <1>1, <1>2, <2>1 DEF IsRawConfig
  <1> HIDE DEF bare
  <1>4. IsRawConfig(OverlayConfig(frame.merged, bare)) BY <1>3, OverlayIsRaw
  <1> QED BY <1>4 DEF Merged, bare

(* What lowering makes of each hook.                                       *)
LEMMA LowerIs ==
  ASSUME NEW r, Lower(r) # Bad
  PROVE  /\ DOMAIN Lower(r).hooks = DOMAIN r.hooks
         /\ \A h \in DOMAIN r.hooks : /\ Lower(r).hooks[h] = LowerHook(h, r.hooks[h])
                                      /\ Lower(r).hooks[h] # Bad
         /\ DOMAIN Lower(r).packages = DOMAIN r.packages
         /\ \A p \in DOMAIN r.packages :
              /\ Lower(r).packages[p].path = r.packages[p].path
              /\ DOMAIN Lower(r).packages[p].hooks = DOMAIN r.packages[p].hooks
              /\ \A h \in DOMAIN r.packages[p].hooks :
                   /\ Lower(r).packages[p].hooks[h] = LowerHook(h, r.packages[p].hooks[h])
                   /\ Lower(r).packages[p].hooks[h] # Bad
  <1> DEFINE hooks == LowerHooks(r.hooks)
             packages == [p \in DOMAIN r.packages |->
                            [path |-> r.packages[p].path,
                             hooks |-> LowerHooks(r.packages[p].hooks)]]
             wrong == \/ Get(r.meta, "min_betterhook", None) = Bad
                      \/ Bad \in Range(hooks)
                      \/ \E p \in DOMAIN packages : Bad \in Range(packages[p].hooks)
  <1>1. Lower(r) = IF wrong THEN Bad ELSE [hooks |-> hooks, packages |-> packages]
    BY DEF Lower
  <1>2. /\ ~wrong /\ Lower(r).hooks = hooks /\ Lower(r).packages = packages
    <2> HIDE DEF wrong, hooks, packages
    <2> QED BY <1>1
  <1>3. ASSUME NEW some
        PROVE  /\ DOMAIN LowerHooks(some) = DOMAIN some
               /\ \A h \in DOMAIN some : LowerHooks(some)[h] = LowerHook(h, some[h])
               /\ \A h \in DOMAIN some : LowerHooks(some)[h] \in Range(LowerHooks(some))
    BY DEF LowerHooks, Range
  <1>4. DOMAIN packages = DOMAIN r.packages
        /\ \A p \in DOMAIN r.packages : /\ packages[p].path = r.packages[p].path
                                        /\ packages[p].hooks = LowerHooks(r.packages[p].hooks)
    OBVIOUS
  <1>5. Bad \notin Range(hooks)
        /\ \A p \in DOMAIN r.packages : Bad \notin Range(LowerHooks(r.packages[p].hooks))
    BY <1>2, <1>4
  <1> HIDE DEF packages, wrong
  <1>6. /\ DOMAIN hooks = DOMAIN r.hooks
        /\ \A h \in DOMAIN r.hooks : hooks[h] = LowerHook(h, r.hooks[h]) /\ hooks[h] # Bad
    <2>1. \A h \in DOMAIN r.hooks : hooks[h] \in Range(hooks) BY <1>3
    <2> QED BY <1>3, <1>5, <2>1
  <1> HIDE DEF hooks
  <1>7. ASSUME NEW p \in DOMAIN r.packages
        PROVE  /\ packages[p].path = r.packages[p].path
               /\ DOMAIN packages[p].hooks = DOMAIN r.packages[p].hooks
               /\ \A h \in DOMAIN r.packages[p].hooks :
                    /\ packages[p].hooks[h] = LowerHook(h, r.packages[p].hooks[h])
                    /\ packages[p].hooks[h] # Bad
    BY <1>3, <1>4, <1>5
  <1> QED BY <1>2, <1>4, <1>6, <1>7

(* So every hook of the configuration, at the root or in a package.        *)
LEMMA LoadedIs ==
  ASSUME IsRawConfig(raw), IsLoaded
  PROVE  /\ DOMAIN config.hooks = DOMAIN raw.hooks
         /\ \A h \in DOMAIN raw.hooks : /\ IsHook(raw.hooks[h])
                                        /\ AreLowered(config.hooks[h].jobs, raw.hooks[h])
         /\ DOMAIN config.packages = DOMAIN raw.packages
         /\ \A p \in DOMAIN raw.packages :
              /\ config.packages[p].path = raw.packages[p].path
              /\ DOMAIN config.packages[p].hooks = DOMAIN raw.packages[p].hooks
              /\ \A h \in DOMAIN raw.packages[p].hooks :
                   /\ IsHook(raw.packages[p].hooks[h])
                   /\ AreLowered(config.packages[p].hooks[h].jobs, raw.packages[p].hooks[h])
  <1>1. config = Lower(raw) /\ Lower(raw) # Bad BY DEF IsLoaded
  <1>2. ASSUME NEW hooks, IsHooks(hooks), NEW h \in DOMAIN hooks PROVE IsHook(hooks[h])
    BY <1>2 DEF IsHooks, IsHook
  <1>3. IsHooks(raw.hooks) /\ \A p \in DOMAIN raw.packages : IsHooks(raw.packages[p].hooks)
    BY DEF IsRawConfig, IsPackage
  <1>4. /\ \A h \in DOMAIN raw.hooks : IsHook(raw.hooks[h])
        /\ \A p \in DOMAIN raw.packages :
             \A h \in DOMAIN raw.packages[p].hooks : IsHook(raw.packages[p].hooks[h])
    BY <1>2, <1>3
  <1>5. ASSUME NEW h, NEW r, IsHook(r), NEW hook, hook = LowerHook(h, r), hook # Bad
        PROVE  AreLowered(hook.jobs, r)
    BY <1>5, LowerHookIs
  <1>6. /\ DOMAIN config.hooks = DOMAIN raw.hooks
        /\ \A h \in DOMAIN raw.hooks : /\ config.hooks[h] = LowerHook(h, raw.hooks[h])
                                       /\ config.hooks[h] # Bad
        /\ DOMAIN config.packages = DOMAIN raw.packages
        /\ \A p \in DOMAIN raw.packages :
             /\ config.packages[p].path = raw.packages[p].path
             /\ DOMAIN config.packages[p].hooks = DOMAIN raw.packages[p].hooks
             /\ \A h \in DOMAIN raw.packages[p].hooks :
                  /\ config.packages[p].hooks[h] = LowerHook(h, raw.packages[p].hooks[h])
                  /\ config.packages[p].hooks[h] # Bad
    BY <1>1, LowerIs
  <1>7. \A h \in DOMAIN raw.hooks : AreLowered(config.hooks[h].jobs, raw.hooks[h])
    BY <1>4, <1>5, <1>6
  <1>8. \A p \in DOMAIN raw.packages : \A h \in DOMAIN raw.packages[p].hooks :
          AreLowered(config.packages[p].hooks[h].jobs, raw.packages[p].hooks[h])
    BY <1>4, <1>5, <1>6
  <1> QED BY <1>4, <1>6, <1>7, <1>8

(* What is to be planned is what is asked for, in order.                   *)
LEMMA ChosenIs ==
  ASSUME IsRawConfig(raw), IsLoaded, call.hook \in DOMAIN config.hooks
  PROVE  AreChosen(Chosen, raw.hooks[call.hook])
  <1> DEFINE r == raw.hooks[call.hook]
             hook == config.hooks[call.hook]
  <1>1. IsHook(r) /\ AreLowered(hook.jobs, r) BY LoadedIs
  <1> HIDE DEF r, hook
  <1>2. CASE call.command = "fix"
    <2>1. AreChosen(FixJobs(hook), r) BY <1>1, <1>2, FixAreChosen
    <2> QED BY <1>2, <2>1 DEF Chosen, hook, r
  <1>3. CASE call.command # "fix"
    <2>1. AreChosen(hook.jobs, r) BY <1>1, <1>3, AllAreChosen
    <2> QED BY <1>3, <2>1 DEF Chosen, hook, r
  <1> QED BY <1>2, <1>3

(* At first there is no plan, and all jobs are to be looked at.            *)
LEMMA PlansStart ==
  ASSUME NEW all, all \in Seq(ToSet(all)), NEW options, NEW whole
  PROVE  ArePlanned(<<>>, all, all, options, whole)
  <1> DEFINE n == Len(all)
             none == <<>>
  <1>1. n \in Nat /\ n - n = 0 /\ \A k \in 1..n : 0 + k = k OBVIOUS
  <1>2. Len(none) = 0 /\ none \in [1..0 -> 1..0] /\ 1..0 = {} OBVIOUS
  <1> HIDE DEF none
  <1>3. PlansAre(none, none, all, all, options, whole)
    BY <1>1, <1>2 DEF PlansAre
  <1> QED BY <1>3 DEF ArePlanned, none

(* The next job is left out, because it is filtered or planning failed.    *)
LEMMA PlansSkip ==
  ASSUME NEW all, all \in Seq(ToSet(all)), NEW rest, rest # <<>>, NEW ps,
         NEW options, NEW was, ArePlanned(ps, all, rest, options, was),
         NEW whole, whole => was /\ IsFiltered(options, Head(rest).name)
  PROVE  ArePlanned(ps, all, Tail(rest), options, whole)
  <1>1. PICK at : PlansAre(at, ps, all, rest, options, was) BY DEF ArePlanned
  <1> DEFINE n == Len(all) - Len(rest)
             r == Tail(rest)
             m == Len(all) - Len(r)
  <1>2. /\ rest \in Seq(ToSet(rest)) /\ Len(rest) <= Len(all)
        /\ \A k \in 1..Len(rest) : rest[k] = all[n + k]
        /\ at \in [1..Len(ps) -> 1..n]
        /\ \A k \in 1..Len(ps) : /\ PlanIs(ps[k], all[at[k]])
                                 /\ ~IsFiltered(options, all[at[k]].name)
        /\ \A i, k \in 1..Len(ps) : i < k => at[i] < at[k]
        /\ was => \A i \in 1..n :
             ~IsFiltered(options, all[i].name) => \E k \in 1..Len(ps) : at[k] = i
    BY <1>1 DEF PlansAre
  <1>3. /\ Len(all) \in Nat /\ Len(rest) \in Nat /\ Len(rest) > 0
        /\ Head(rest) = rest[1] /\ Len(r) = Len(rest) - 1
        /\ \A k \in 1..Len(r) : r[k] = rest[k + 1] /\ k + 1 \in 1..Len(rest)
    BY <1>2
  <1>4. r \in Seq(ToSet(r))
    <2>1. r \in Seq(ToSet(rest)) BY <1>2
    <2> HIDE DEF r
    <2> QED BY <2>1, SeqFacts
  <1> HIDE DEF r
  <1>5. n \in Nat /\ m = n + 1 /\ m \in Nat /\ Len(r) <= Len(all) BY <1>2, <1>3
  <1>6. Head(rest) = all[m] BY <1>2, <1>3, <1>5
  <1> HIDE DEF n, m
  <1>7. \A k \in 1..Len(r) : r[k] = all[m + k]
    <2> SUFFICES ASSUME NEW k \in 1..Len(r) PROVE r[k] = all[m + k] OBVIOUS
    <2>1. r[k] = all[n + (k + 1)] BY <1>2, <1>3
    <2>2. n + (k + 1) = m + k BY <1>3, <1>5
    <2> QED BY <2>1, <2>2
  <1>8. 1..n \subseteq 1..m /\ \A i \in 1..m : i \in 1..n \/ i = m BY <1>5
  <1>9. at \in [1..Len(ps) -> 1..m] BY <1>2, <1>8
  <1>10. whole => \A i \in 1..m :
           ~IsFiltered(options, all[i].name) => \E k \in 1..Len(ps) : at[k] = i
    BY <1>2, <1>6, <1>8
  <1>11. PlansAre(at, ps, all, r, options, whole)
    BY <1>2, <1>4, <1>5, <1>7, <1>9, <1>10, Zenon DEF PlansAre, m
  <1> QED BY <1>11 DEF ArePlanned, r

(* The next job is planned.                                                *)
LEMMA PlansNext ==
  ASSUME NEW all, all \in Seq(ToSet(all)), NEW rest, rest # <<>>,
         NEW ps, ps \in Seq(ToSet(ps)),
         NEW options, NEW whole, ArePlanned(ps, all, rest, options, whole),
         ~IsFiltered(options, Head(rest).name), NEW plan, PlanIs(plan, Head(rest))
  PROVE  ArePlanned(Append(ps, plan), all, Tail(rest), options, whole)
  <1>1. PICK at : PlansAre(at, ps, all, rest, options, whole) BY DEF ArePlanned
  <1> DEFINE n == Len(all) - Len(rest)
             r == Tail(rest)
             m == Len(all) - Len(r)
             l == Len(ps)
             qs == Append(ps, plan)
             to == [k \in 1..l + 1 |-> IF k = l + 1 THEN m ELSE at[k]]
  <1>2. /\ rest \in Seq(ToSet(rest)) /\ Len(rest) <= Len(all)
        /\ \A k \in 1..Len(rest) : rest[k] = all[n + k]
        /\ at \in [1..l -> 1..n]
        /\ \A k \in 1..l : /\ PlanIs(ps[k], all[at[k]])
                           /\ ~IsFiltered(options, all[at[k]].name)
        /\ \A i, k \in 1..l : i < k => at[i] < at[k]
        /\ whole => \A i \in 1..n :
             ~IsFiltered(options, all[i].name) => \E k \in 1..l : at[k] = i
    BY <1>1 DEF PlansAre
  <1>3. /\ Len(all) \in Nat /\ Len(rest) \in Nat /\ Len(rest) > 0
        /\ Head(rest) = rest[1] /\ Len(r) = Len(rest) - 1
        /\ \A k \in 1..Len(r) : r[k] = rest[k + 1] /\ k + 1 \in 1..Len(rest)
    BY <1>2
  <1>4. r \in Seq(ToSet(r))
    <2>1. r \in Seq(ToSet(rest)) BY <1>2
    <2> HIDE DEF r
    <2> QED BY <2>1, SeqFacts
  <1>5. /\ l \in Nat /\ Len(qs) = l + 1 /\ qs[l + 1] = plan
        /\ \A k \in 1..l : qs[k] = ps[k]
    OBVIOUS
  <1> HIDE DEF r, qs, l
  <1>6. n \in Nat /\ m = n + 1 /\ m \in Nat /\ Len(r) <= Len(all) BY <1>2, <1>3
  <1>7. Head(rest) = all[m] BY <1>2, <1>3, <1>6
  <1> HIDE DEF n, m
  <1>8. \A k \in 1..Len(r) : r[k] = all[m + k]
    <2> SUFFICES ASSUME NEW k \in 1..Len(r) PROVE r[k] = all[m + k] OBVIOUS
    <2>1. r[k] = all[n + (k + 1)] BY <1>2, <1>3
    <2>2. n + (k + 1) = m + k BY <1>3, <1>6
    <2> QED BY <2>1, <2>2
  <1>9. /\ 1..n \subseteq 1..m /\ m \in 1..m
        /\ \A i \in 1..m : i \in 1..n \/ i = m
        /\ \A i \in 1..n : i < m
        /\ 1..l \subseteq 1..l + 1 /\ l + 1 \in 1..l + 1
        /\ \A k \in 1..l + 1 : k \in 1..l \/ k = l + 1
        /\ \A k \in 1..l : k # l + 1
        /\ \A i, k \in 1..l + 1 : i < k => i \in 1..l
    BY <1>5, <1>6
  <1>10. /\ to[l + 1] = m /\ \A k \in 1..l : to[k] = at[k]
         /\ DOMAIN to = 1..l + 1
    BY <1>9
  <1>11. to \in [1..l + 1 -> 1..m] BY <1>2, <1>9
  <1> HIDE DEF to
  <1>12. \A k \in 1..l + 1 : /\ PlanIs(qs[k], all[to[k]])
                             /\ ~IsFiltered(options, all[to[k]].name)
    BY <1>2, <1>5, <1>7, <1>9, <1>10
  <1>13. \A i, k \in 1..l + 1 : i < k => to[i] < to[k]
    <2> SUFFICES ASSUME NEW i \in 1..l + 1, NEW k \in 1..l + 1, i < k
                 PROVE  to[i] < to[k]
      OBVIOUS
    <2>1. i \in 1..l /\ at[i] \in 1..n BY <1>2, <1>9
    <2>2. CASE k = l + 1 BY <1>9, <1>10, <2>1, <2>2
    <2>3. CASE k # l + 1
      <3>1. k \in 1..l BY <1>9, <2>3
      <3> QED BY <1>2, <1>10, <2>1, <3>1
    <2> QED BY <2>2, <2>3
  <1>14. whole => \A i \in 1..m :
           ~IsFiltered(options, all[i].name) => \E k \in 1..l + 1 : to[k] = i
    <2> SUFFICES ASSUME whole, NEW i \in 1..m, ~IsFiltered(options, all[i].name)
                 PROVE  \E k \in 1..l + 1 : to[k] = i
      OBVIOUS
    <2>1. CASE i = m BY <1>9, <1>10, <2>1
    <2>2. CASE i # m
      <3>1. PICK k \in 1..l : at[k] = i BY <1>2, <1>9, <2>2
      <3> QED BY <1>9, <1>10, <3>1
    <2> QED BY <2>1, <2>2
  <1>15. PlansAre(to, qs, all, r, options, whole)
    BY <1>4, <1>5, <1>6, <1>8, <1>11, <1>12, <1>13, <1>14, Zenon DEF PlansAre, m
  <1> QED BY <1>15 DEF ArePlanned, r, qs

(* What the steps of the resolution keep.                                  *)
LEMMA RawEnter ==
  ASSUME PInv, Enter
  PROVE  FramesAreRaw(stack')
  <1> DEFINE f == Wanted[1]
  <1>1. CASE IsCircular(f) \/ ParseFile(f) = Bad
    BY <1>1 DEF Enter, PInv
  <1>2. CASE ~(IsCircular(f) \/ ParseFile(f) = Bad)
    <2>1. stack' = Append(stack, Call(f)) BY <1>2 DEF Enter, Call
    <2> HIDE DEF f
    <2>2. IsRawConfig(ParseFile(f))
      <3>1. f \in DOMAIN disk BY <1>2 DEF ParseFile
      <3> QED BY <1>2, <3>1 DEF PInv, IInv, DiskOK, Reads
    <2>3. IsRawConfig(Call(f).main) /\ IsRawConfig(Call(f).merged)
      BY <2>2, EmptyIsRaw DEF Call
    <2> DEFINE n == Len(stack)
               c == Call(f)
               s == Append(stack, c)
    <2>4. /\ n \in Nat /\ Len(s) = n + 1 /\ s[n + 1] = c
          /\ \A i \in 1..n : s[i] = stack[i]
      BY SeqFacts DEF PInv, IInv, StackOK
    <2> HIDE DEF c, s, n
    <2>5. \A i \in 1..n + 1 : i \in 1..n \/ i = n + 1 BY <2>4
    <2>6. \A i \in 1..n : IsRawConfig(stack[i].main) /\ IsRawConfig(stack[i].merged)
      BY DEF PInv, FramesAreRaw, n
    <2>7. FramesAreRaw(s)
      <3> SUFFICES ASSUME NEW i \in 1..n + 1
                   PROVE  IsRawConfig(s[i].main) /\ IsRawConfig(s[i].merged)
        BY <2>4 DEF FramesAreRaw
      <3>1. CASE i \in 1..n BY <2>4, <2>6, <3>1
      <3>2. CASE i = n + 1 BY <2>3, <2>4, <3>2 DEF c
      <3> QED BY <2>5, <3>1, <3>2
    <2> QED BY <2>1, <2>7 DEF s, c
  <1> QED BY <1>1, <1>2

(* A return.                                                               *)
LEMMA RawReturn ==
  ASSUME PInv, Return
  PROVE  FramesAreRaw(stack')
  <1> DEFINE n == Len(stack)
             s == Popped(stack)
             top == stack[n]
             below == stack[n - 1]
             resumed == Resume(below, top)
  <1>1. stack' = s /\ n > 1 BY DEF Return, Popped
  <1>2. /\ n \in Nat /\ Len(s) = n - 1
        /\ \A i \in 1..n - 1 : s[i] = IF i = n - 1 THEN Resume(stack[i], top) ELSE stack[i]
    BY <1>1, PoppedFacts, SeqFacts DEF PInv, IInv, StackOK
  <1>3. /\ \A i \in 1..n : IsRawConfig(stack[i].main) /\ IsRawConfig(stack[i].merged)
        /\ \A i \in 1..n : Frame(stack[i])
    BY DEF PInv, IInv, StackOK, FramesAreRaw
  <1> HIDE DEF s, n
  <1>4. n \in 1..n /\ n - 1 \in 1..n /\ n - 1 \in 1..n - 1 /\ 1..n - 1 \subseteq 1..n
    BY <1>1, <1>2
  <1>5. /\ IsRawConfig(top.main) /\ IsRawConfig(top.merged)
        /\ IsRawConfig(below.main) /\ IsRawConfig(below.merged) /\ Frame(below)
    BY <1>3, <1>4
  <1>6. s[n - 1] = resumed /\ \A i \in 1..n - 1 : i = n - 1 \/ s[i] = stack[i]
    BY <1>2, <1>4
  <1> HIDE DEF top, below
  <1>7. IsRawConfig(OverlayConfig(below.merged, Merged(top)))
    BY <1>5, MergedIsRaw, OverlayIsRaw
  <1>8. /\ resumed.main = below.main
        /\ resumed.merged = OverlayConfig(below.merged, Merged(top))
    <2>1. below = [file |-> below.file, main |-> below.main, next |-> below.next,
                   merged |-> below.merged]
      BY <1>5 DEF Frame
    <2>2. resumed = [below EXCEPT !.next = below.next + 1,
                                  !.merged = OverlayConfig(below.merged, Merged(top))]
      BY DEF Resume
    <2> HIDE DEF resumed
    <2> QED BY <2>1, <2>2
  <1> HIDE DEF resumed
  <1>9. FramesAreRaw(s)
    <2> SUFFICES ASSUME NEW i \in 1..n - 1
                 PROVE  IsRawConfig(s[i].main) /\ IsRawConfig(s[i].merged)
      BY <1>2 DEF FramesAreRaw
    <2>1. CASE i = n - 1 BY <1>5, <1>6, <1>7, <1>8, <2>1
    <2>2. CASE i # n - 1 BY <1>3, <1>4, <1>6, <2>2
    <2> QED BY <2>1, <2>2
  <1> QED BY <1>1, <1>9

(* The end of the resolution, with a local file or without.                *)
LEMMA RawApply ==
  ASSUME PInv, ApplyLocal
  PROVE  IsRawConfig(raw')
  <1>1. CASE raw' = raw BY <1>1 DEF PInv
  <1>2. CASE raw' # raw
    <2>1. /\ Len(stack) = 1
          /\ ~(Cardinality(LocalsThere) > 1 \/ Bad \in { ParseFile(f) : f \in LocalsThere })
          /\ raw' = IF LocalsThere = {} THEN Merged(stack[1])
                    ELSE OverlayConfig(Merged(stack[1]), ParseFile(Local))
      BY <1>2 DEF ApplyLocal
    <2>2. 1 \in 1..Len(stack) BY <2>1
    <2>3. IsRawConfig(Merged(stack[1])) BY <2>2, MergedIsRaw DEF PInv, FramesAreRaw
    <2>4. ASSUME LocalsThere # {} PROVE IsRawConfig(ParseFile(Local))
      <3>1. Local \in LocalsThere BY <2>4 DEF Local
      <3>2. Local \in File BY <3>1, FilesAssumption DEF LocalsThere
      <3>3. ParseFile(Local) # Bad BY <2>1, <3>1
      <3> QED BY <3>2, <3>3 DEF PInv, IInv, DiskOK, Reads
    <2> QED BY <2>1, <2>3, <2>4, OverlayIsRaw
  <1> QED BY <1>1, <1>2

(* Before the jobs are planned.                                            *)
LEMMA NotYet ==
  ASSUME plans' = <<>>, shown' = None, pc' # "planning", exit' # "run",
         pc' = "selecting" => IsLoaded'
  PROVE  PlanningOK' /\ ShownInOrder'
  <1>1. << >> \in Seq(ToSet(<< >>)) OBVIOUS
  <1>2. DOMAIN None = {} BY DEF None
  <1>3. ShownInOrder' BY <1>2 DEF ShownInOrder
  <1>4. PlanningOK' BY <1>1 DEF PlanningOK, Planning
  <1> QED BY <1>3, <1>4

(* The jobs to be planned do not change meanwhile.                         *)
LEMMA SameChosen ==
  ASSUME call' = call, config' = config
  PROVE  Chosen' = Chosen /\ Options' = Options
  BY DEF Chosen, FixJobs, Options

(* The jobs of the hook are to be planned.                                 *)
LEMMA PlanningStarts ==
  ASSUME PInv, pc = "selecting", call' = call, config' = config, raw' = raw,
         plans' = plans, shown' = shown, exit' = exit,
         pc' = "planning", todo' = Chosen, call.hook \in DOMAIN config.hooks
  PROVE  PlanningOK' /\ ShownInOrder'
  <1>1. /\ plans = <<>> /\ shown = None /\ exit = "none" /\ IsLoaded /\ IsRawConfig(raw)
        /\ plans \in Seq(ToSet(plans))
    BY DEF PInv, PlanningOK, IInv, EndOK
  <1>2. Chosen \in Seq(ToSet(Chosen)) BY <1>1, ChosenIs DEF AreChosen
  <1>3. ArePlanned(<<>>, Chosen, Chosen, Options, TRUE) BY <1>2, PlansStart
  <1>4. ArePlanned(plans', Chosen', todo', Options', exit' # "glob")
    <2>1. (exit' # "glob") = TRUE BY <1>1
    <2> QED BY <1>1, <1>3, <2>1, SameChosen
  <1>5. DOMAIN shown' = {} BY <1>1 DEF None
  <1>6. ShownInOrder' BY <1>5 DEF ShownInOrder
  <1>7. IsLoaded' BY <1>1 DEF IsLoaded
  <1>8. PlanningOK' BY <1>1, <1>4, <1>7 DEF PlanningOK, Planning
  <1> QED BY <1>6, <1>8

(* What is shown of a hook.                                                *)

(* An edge leads from the job that goes first.                             *)
LEMMA EdgesAreInOrder ==
  ASSUME NEW r, IsHook(r), NEW jobs, AreLowered(jobs, r), NEW edge \in EdgesOf(jobs)
  PROVE  GoesFirst(r, edge[1], edge[2])
  <1> DEFINE capabilities(job) ==
               [priority |-> job.priority,
                reads |-> Get(job.set, "reads", {}), writes |-> Get(job.set, "writes", {}),
                network |-> Get(job.set, "network", FALSE),
                concurrent_safe |-> Get(job.set, "concurrent_safe", FALSE)]
             caps == [i \in DOMAIN jobs |-> capabilities(jobs[i])]
             n == Len(jobs)
  <1>1. n \in Nat /\ DOMAIN jobs = 1..n BY DEF AreLowered
  <1>2. EdgesOf(jobs) = { <<jobs[e[1]].name, jobs[e[2]].name>> : e \in Dag(n)!BuildDag(caps) }
    BY Zenon DEF EdgesOf
  <1>3. \A i \in 1..n : caps[i].priority = jobs[i].priority BY <1>1
  <1> HIDE DEF caps
  <1>4. PICK e \in Dag(n)!BuildDag(caps) : edge = <<jobs[e[1]].name, jobs[e[2]].name>>
    BY <1>2
  <1> DEFINE i == e[1]
             k == e[2]
             a == jobs[i]
             b == jobs[k]
  <1>5. /\ i \in 1..n /\ k \in 1..n /\ i # k
        /\ \/ caps[i].priority < caps[k].priority
           \/ caps[i].priority = caps[k].priority /\ i < k
    <2>1. e \in (1..n) \X (1..n) BY DEF Dag!BuildDag, Dag!Node
    <2>2. e[1] # e[2] /\ Dag(n)!OrderFirst(caps, e[1], e[2]) BY DEF Dag!BuildDag
    <2> QED BY <2>1, <2>2 DEF Dag!OrderFirst
  <1>6. edge[1] = a.name /\ edge[2] = b.name BY <1>4
  <1> HIDE DEF i, k
  <1>7. a.priority < b.priority \/ i < k BY <1>3, <1>5
  <1>8. i < k
    <2> SUFFICES ASSUME ~(i < k) PROVE FALSE OBVIOUS
    <2>1. k < i BY <1>1, <1>5
    <2>2. Before(b, a) BY <1>1, <1>5, <2>1 DEF AreLowered
    <2>3. a.priority \in Int /\ b.priority \in Int
      <3>1. Order(r) \in Seq(Int) BY DEF IsHook, Order
      <3>2. \A name : PriorityOf(Order(r), name) \in Int
        <4>1. \A name : PriorityOf(Order(r), name) \in 0..Len(Order(r)) BY <3>1, PriorityIs
        <4> QED BY <3>1, <4>1
      <3>3. /\ a.priority = PriorityOf(Order(r), a.name)
            /\ b.priority = PriorityOf(Order(r), b.name)
        BY <1>5 DEF AreLowered, IsLowered
      <3> QED BY <3>2, <3>3
    <2> HIDE DEF a, b
    <2>4. b.priority <= a.priority BY <2>2, <2>3 DEF Before
    <2> QED BY <1>7, <2>3, <2>4
  <1>9. GoesFirst(r, a.name, b.name) BY <1>5, <1>8, LoweredFirst
  <1> QED BY <1>6, <1>9

(* Jobs of which one writes what the other touches have an edge.           *)
LEMMA ConflictsHaveEdges ==
  ASSUME NEW r, IsHook(r), NEW jobs, AreLowered(jobs, r),
         NEW j \in DOMAIN r.jobs, NEW k \in DOMAIN r.jobs, j # k,
         NEW f, f \in Get(WithBuiltin(r.jobs[j]), "writes", {}),
         f \in Get(WithBuiltin(r.jobs[k]), "writes", {})
                 \cup Get(WithBuiltin(r.jobs[k]), "reads", {})
  PROVE  EdgesOf(jobs) \cap {<<j, k>>, <<k, j>>} # {}
  <1> DEFINE capabilities(job) ==
               [priority |-> job.priority,
                reads |-> Get(job.set, "reads", {}), writes |-> Get(job.set, "writes", {}),
                network |-> Get(job.set, "network", FALSE),
                concurrent_safe |-> Get(job.set, "concurrent_safe", FALSE)]
             caps == [i \in DOMAIN jobs |-> capabilities(jobs[i])]
             n == Len(jobs)
             pair(e) == <<jobs[e[1]].name, jobs[e[2]].name>>
  <1>1. n \in Nat /\ DOMAIN jobs = 1..n BY DEF AreLowered
  <1>2. EdgesOf(jobs) = { <<jobs[e[1]].name, jobs[e[2]].name>> : e \in Dag(n)!BuildDag(caps) }
    BY Zenon DEF EdgesOf
  <1>3. PICK i \in 1..n : jobs[i].name = j BY DEF AreLowered
  <1>4. PICK l \in 1..n : jobs[l].name = k BY DEF AreLowered
  <1>5. i # l BY <1>3, <1>4
  <1>6. jobs[i].set = WithBuiltin(r.jobs[j]) /\ jobs[l].set = WithBuiltin(r.jobs[k])
    BY <1>3, <1>4 DEF AreLowered, IsLowered
  <1>7. /\ caps[i].writes = Get(jobs[i].set, "writes", {})
        /\ caps[l].writes = Get(jobs[l].set, "writes", {})
        /\ caps[l].reads = Get(jobs[l].set, "reads", {})
        /\ caps[i].priority = jobs[i].priority /\ caps[l].priority = jobs[l].priority
    BY <1>1
  <1> HIDE DEF caps
  <1>8. f \in caps[i].writes /\ f \in caps[l].reads \cup caps[l].writes
    BY <1>6, <1>7
  <1>9. f \in DOMAIN Bytes
    <2> DEFINE s == jobs[i].set
    <2>1. IsJob(s) /\ Get(s, "writes", None) # Bad BY DEF AreLowered, IsLowered
    <2>2. f \in Get(s, "writes", {}) BY <1>7, <1>8
    <2> HIDE DEF s
    <2>3. "writes" \in DOMAIN s /\ f \in s["writes"] /\ s["writes"] # Bad
      BY <2>1, <2>2 DEF Get
    <2>4. s["writes"] \subseteq DOMAIN Bytes BY <2>1, <2>3 DEF IsJob
    <2> QED BY <2>3, <2>4
  <1>10. Dag(n)!GlobsetsOverlap(caps[i], caps[l])
    <2>1. <<f, f>> \in { <<g, g>> : g \in DOMAIN Bytes } BY <1>9
    <2> QED BY <1>8, <2>1 DEF Dag!GlobsetsOverlap
  <1>11. Dag(n)!PairConflicts(caps[i], caps[l]) /\ Dag(n)!PairConflicts(caps[l], caps[i])
    BY <1>10 DEF Dag!PairConflicts
  <1>12. jobs[i].priority \in Int /\ jobs[l].priority \in Int
    <2>1. Order(r) \in Seq(Int) BY DEF IsHook, Order
    <2>2. \A name : PriorityOf(Order(r), name) \in Int
      <3>1. \A name : PriorityOf(Order(r), name) \in 0..Len(Order(r)) BY <2>1, PriorityIs
      <3> QED BY <2>1, <3>1
    <2>3. /\ jobs[i].priority = PriorityOf(Order(r), jobs[i].name)
          /\ jobs[l].priority = PriorityOf(Order(r), jobs[l].name)
      BY DEF AreLowered, IsLowered
    <2> QED BY <2>2, <2>3
  <1>13. Dag(n)!OrderFirst(caps, i, l) \/ Dag(n)!OrderFirst(caps, l, i)
    <2>1. i < l \/ l < i BY <1>1, <1>5
    <2> QED BY <1>7, <1>12, <2>1 DEF Dag!OrderFirst
  <1>14. <<i, l>> \in Dag(n)!BuildDag(caps) \/ <<l, i>> \in Dag(n)!BuildDag(caps)
    BY <1>5, <1>11, <1>13 DEF Dag!BuildDag, Dag!Node
  <1>15. CASE <<i, l>> \in Dag(n)!BuildDag(caps)
    <2>1. <<jobs[i].name, jobs[l].name>> \in EdgesOf(jobs) BY <1>2, <1>15
    <2> QED BY <1>3, <1>4, <2>1
  <1>16. CASE <<l, i>> \in Dag(n)!BuildDag(caps)
    <2>1. <<jobs[l].name, jobs[i].name>> \in EdgesOf(jobs) BY <1>2, <1>16
    <2> QED BY <1>3, <1>4, <2>1
  <1> QED BY <1>14, <1>15, <1>16

(* The names are in order, also when only some of them are shown.          *)
LEMMA NamesAreInOrder ==
  ASSUME NEW r, IsHook(r), NEW jobs, AreLowered(jobs, r)
  PROVE  /\ InOrder(r, NamesOf(jobs))
         /\ ToSet(NamesOf(jobs)) = DOMAIN r.jobs
         /\ \A T : InOrder(r, Kept(NamesOf(jobs), T))
  <1> DEFINE n == Len(jobs)
             names == NamesOf(jobs)
  <1>1. n \in Nat /\ DOMAIN jobs = 1..n BY DEF AreLowered
  <1>2. names = [i \in 1..n |-> jobs[i].name] BY <1>1 DEF NamesOf
  <1>3. DOMAIN names = 1..n /\ \A i \in 1..n : names[i] = jobs[i].name BY <1>2
  <1>4. /\ \A i \in 1..n : jobs[i].name \in DOMAIN r.jobs
        /\ \A j \in DOMAIN r.jobs : \E i \in 1..n : jobs[i].name = j
        /\ \A i, k \in 1..n : i < k => GoesFirst(r, jobs[i].name, jobs[k].name)
    BY LoweredFirst DEF AreLowered
  <1> HIDE DEF names, n
  <1>5. InOrder(r, names) BY <1>3, <1>4 DEF InOrder
  <1>6. ToSet(names) = DOMAIN r.jobs
    <2>1. ToSet(names) = { names[i] : i \in 1..n } BY <1>3 DEF ToSet
    <2> QED BY <1>3, <1>4, <2>1
  <1>7. ASSUME NEW T PROVE InOrder(r, Kept(names, T))
    <2> DEFINE D == DOMAIN r.jobs
               kept == Kept(names, T)
    <2>1. names \in Seq(D) /\ Len(names) = n
      <3>1. names \in [1..n -> D] BY <1>3, <1>4, <1>2
      <3> HIDE DEF D
      <3> QED BY <1>1, <3>1
    <2> HIDE DEF D
    <2>2. kept \in Seq(D \cap T) /\ \E at : Keeps(at, kept, names, T) BY <2>1, KeptIs
    <2> HIDE DEF kept
    <2>3. PICK at : Keeps(at, kept, names, T) BY <2>2
    <2>4. DOMAIN kept = 1..Len(kept) BY <2>2
    <2>5. /\ at \in [1..Len(kept) -> 1..n]
          /\ \A k \in 1..Len(kept) : kept[k] = names[at[k]]
          /\ \A i, k \in 1..Len(kept) : i < k => at[i] < at[k]
      BY <2>1, <2>3 DEF Keeps
    <2>6. InOrder(r, kept) BY <1>3, <1>4, <2>4, <2>5 DEF InOrder
    <2> QED BY <2>6 DEF kept
  <1> QED BY <1>5, <1>6, <1>7 DEF names

(* What is shown of one hook is in order.                                  *)
Fits(r, info, all, dag) ==
  /\ all => ToSet(info.jobs) = DOMAIN r.jobs
  /\ InOrder(r, info.jobs)
  /\ \A e \in info.edges : GoesFirst(r, e[1], e[2])
  /\ dag => \A j, k \in DOMAIN r.jobs :
       (j # k /\ \E f \in Get(WithBuiltin(r.jobs[j]), "writes", {}) :
                   f \in Get(WithBuiltin(r.jobs[k]), "writes", {})
                           \cup Get(WithBuiltin(r.jobs[k]), "reads", {})) =>
         info.edges \cap {<<j, k>>, <<k, j>>} # {}

(* What dry-run, explain and status show of a hook fits it.                *)
LEMMA HookFits ==
  ASSUME NEW r, IsHook(r), NEW hook, AreLowered(hook.jobs, r)
  PROVE  /\ Fits(r, HookInfo(hook), TRUE, TRUE)
         /\ Fits(r, [HookInfo(hook) EXCEPT !.edges = {}], TRUE, FALSE)
         /\ Fits(r, Explained(hook), call.args.only = {}, TRUE)
  <1> DEFINE info == HookInfo(hook)
             names == NamesOf(hook.jobs)
             edges == EdgesOf(hook.jobs)
             none == [info EXCEPT !.edges = {}]
             some == Explained(hook)
  <1>1. info = [jobs |-> names, edges |-> edges] BY DEF HookInfo
  <1>2. some = [info EXCEPT !.jobs = IF call.args.only = {} THEN names
                                     ELSE Kept(names, call.args.only)]
    <2>1. info.jobs = names BY <1>1
    <2> HIDE DEF info
    <2>2. some = [info EXCEPT !.jobs = IF call.args.only = {} THEN info.jobs
                                       ELSE Kept(info.jobs, call.args.only)]
      BY DEF Explained, info
    <2> QED BY <2>1, <2>2
  <1>3. /\ InOrder(r, names) /\ ToSet(names) = DOMAIN r.jobs
        /\ \A T : InOrder(r, Kept(names, T))
    BY NamesAreInOrder
  <1>4. \A e \in edges : GoesFirst(r, e[1], e[2]) BY EdgesAreInOrder
  <1>5. ASSUME NEW j \in DOMAIN r.jobs, NEW k \in DOMAIN r.jobs, j # k,
               NEW f \in Get(WithBuiltin(r.jobs[j]), "writes", {}),
               f \in Get(WithBuiltin(r.jobs[k]), "writes", {})
                       \cup Get(WithBuiltin(r.jobs[k]), "reads", {})
        PROVE  edges \cap {<<j, k>>, <<k, j>>} # {}
    BY <1>5, ConflictsHaveEdges
  <1> HIDE DEF info, names, edges, some
  <1>6. info.jobs = names /\ info.edges = edges BY <1>1
  <1>7. none.jobs = names /\ none.edges = {} BY <1>1
  <1>8. /\ some.edges = edges
        /\ some.jobs = IF call.args.only = {} THEN names ELSE Kept(names, call.args.only)
    BY <1>1, <1>2
  <1> HIDE DEF none
  <1>9. Fits(r, info, TRUE, TRUE) BY <1>3, <1>4, <1>5, <1>6 DEF Fits
  <1>10. Fits(r, none, TRUE, FALSE) BY <1>3, <1>7 DEF Fits
  <1>11. Fits(r, some, call.args.only = {}, TRUE)
    <2>1. InOrder(r, some.jobs) BY <1>3, <1>8
    <2>2. call.args.only = {} => ToSet(some.jobs) = DOMAIN r.jobs BY <1>3, <1>8
    <2> QED BY <1>4, <1>5, <1>8, <2>1, <2>2 DEF Fits
  <1> QED BY <1>9, <1>10, <1>11 DEF info, none, some

(* The hook of the files that is shown at a place.                         *)
HookAt(p, h) == IF p = 0 THEN raw.hooks[h] ELSE raw.packages[p].hooks[h]

AllFit(what) ==
  \A p \in DOMAIN what : \A h \in DOMAIN what[p] :
    Fits(HookAt(p, h), what[p][h], call.command # "explain" \/ call.args.only = {},
         call.command # "dry-run")

(* ShownInOrder says it of all that is shown.                              *)
LEMMA ShownFits == ShownInOrder <=> AllFit(shown)
  <1> DEFINE hook(p, h) == IF p = 0 THEN raw.hooks[h] ELSE raw.packages[p].hooks[h]
             field(p, h, n, f) == Get(WithBuiltin(hook(p, h).jobs[n]), f, {})
             conflict(p, h, j, k) ==
               \E f \in field(p, h, j, "writes") :
                 f \in field(p, h, k, "writes") \cup field(p, h, k, "reads")
             Fit(p, h) ==
               /\ call.command # "explain" \/ call.args.only = {} =>
                    ToSet(shown[p][h].jobs) = DOMAIN hook(p, h).jobs
               /\ InOrder(hook(p, h), shown[p][h].jobs)
               /\ \A e \in shown[p][h].edges : GoesFirst(hook(p, h), e[1], e[2])
               /\ call.command # "dry-run" =>
                    \A j, k \in DOMAIN hook(p, h).jobs :
                      j # k /\ conflict(p, h, j, k) =>
                        shown[p][h].edges \cap {<<j, k>>, <<k, j>>} # {}
  <1>1. ShownInOrder <=> \A p \in DOMAIN shown : \A h \in DOMAIN shown[p] : Fit(p, h)
    BY Zenon DEF ShownInOrder
  <1>2. \A p, h : Fit(p, h) <=> Fits(HookAt(p, h), shown[p][h],
                                     call.command # "explain" \/ call.args.only = {},
                                     call.command # "dry-run")
    BY Zenon DEF Fits, HookAt
  <1> HIDE DEF Fit
  <1> QED BY <1>1, <1>2 DEF AllFit

(* And so it is when it is shown.                                          *)
LEMMA ShowStep ==
  ASSUME PInv, Show
  PROVE  AllFit(shown')
  <1> DEFINE hook == config.hooks[call.hook]
             just(info) == [p \in {0} |-> [h \in {call.hook} |-> info]]
             info == [HookInfo(hook) EXCEPT !.edges = {}]
  <1>1. IsRawConfig(raw) /\ IsLoaded /\ pc = "selecting"
    BY DEF PInv, PlanningOK, Show
  <1>2. /\ DOMAIN config.hooks = DOMAIN raw.hooks
        /\ \A h \in DOMAIN raw.hooks : /\ IsHook(raw.hooks[h])
                                       /\ AreLowered(config.hooks[h].jobs, raw.hooks[h])
        /\ DOMAIN config.packages = DOMAIN raw.packages
        /\ \A p \in DOMAIN raw.packages :
             /\ DOMAIN config.packages[p].hooks = DOMAIN raw.packages[p].hooks
             /\ \A h \in DOMAIN raw.packages[p].hooks :
                  /\ IsHook(raw.packages[p].hooks[h])
                  /\ AreLowered(config.packages[p].hooks[h].jobs, raw.packages[p].hooks[h])
        /\ 0 \notin DOMAIN raw.packages
    BY <1>1, LoadedIs DEF IsRawConfig
  <1>3. /\ call.command \in {"dry-run", "explain", "status"}
        /\ call.command \in {"dry-run", "explain"} => call.hook \in DOMAIN config.hooks
    BY DEF Show, NamesAHook
  <1>4. shown' = CASE call.command = "status" -> ConfigInfo
                   [] call.command = "explain" -> just(Explained(hook))
                   [] OTHER -> just(info)
    BY Zenon DEF Show
  <1> HIDE DEF info
  <1>5. CASE call.command = "status"
    <2> DEFINE level(hooks) == [h \in DOMAIN hooks |-> HookInfo(hooks[h])]
    <2>1. shown' = ConfigInfo BY <1>4, <1>5, Zenon
    <2>2. ConfigInfo = [p \in {0} \cup DOMAIN config.packages |->
                          level(IF p = 0 THEN config.hooks ELSE config.packages[p].hooks)]
      BY Zenon DEF ConfigInfo
    <2>3. ASSUME NEW p \in {0} \cup DOMAIN config.packages,
                 NEW h \in DOMAIN ConfigInfo[p]
          PROVE  Fits(HookAt(p, h), ConfigInfo[p][h], TRUE, TRUE)
      <3> DEFINE hooks == IF p = 0 THEN config.hooks ELSE config.packages[p].hooks
                 r == HookAt(p, h)
                 there == hooks[h]
      <3>1. ConfigInfo[p] = level(hooks) BY <2>2, Zenon
      <3>2. h \in DOMAIN hooks /\ ConfigInfo[p][h] = HookInfo(there) BY <2>3, <3>1
      <3>3. IsHook(r) /\ AreLowered(there.jobs, r)
        <4>1. CASE p = 0
          <5>1. hooks = config.hooks /\ r = raw.hooks[h] BY <4>1 DEF HookAt
          <5> QED BY <1>2, <3>2, <5>1
        <4>2. CASE p # 0
          <5>1. /\ hooks = config.packages[p].hooks /\ r = raw.packages[p].hooks[h]
                /\ p \in DOMAIN raw.packages
            BY <1>2, <2>3, <4>2 DEF HookAt
          <5> QED BY <1>2, <3>2, <5>1
        <4> QED BY <4>1, <4>2
      <3> HIDE DEF there, r
      <3>4. Fits(r, HookInfo(there), TRUE, TRUE) BY <3>3, HookFits
      <3> QED BY <3>2, <3>4 DEF r
    <2>4. /\ (call.command # "explain" \/ call.args.only = {}) = TRUE
          /\ (call.command # "dry-run") = TRUE
      BY <1>5
    <2>5. DOMAIN ConfigInfo = {0} \cup DOMAIN config.packages BY <2>2
    <2>6. AllFit(ConfigInfo) BY <2>3, <2>4, <2>5 DEF AllFit
    <2> QED BY <2>1, <2>6
  <1>6. CASE call.command # "status"
    <2> DEFINE r == raw.hooks[call.hook]
               all == call.command # "explain" \/ call.args.only = {}
               dag == call.command # "dry-run"
    <2>1. IsHook(r) /\ AreLowered(hook.jobs, r) BY <1>2, <1>3, <1>6
    <2>2. ASSUME NEW what, Fits(r, what, all, dag) PROVE AllFit(just(what))
      <3>1. /\ DOMAIN just(what) = {0} /\ DOMAIN just(what)[0] = {call.hook}
            /\ just(what)[0][call.hook] = what
        OBVIOUS
      <3>2. HookAt(0, call.hook) = r BY DEF HookAt
      <3> HIDE DEF just, r
      <3>3. Fits(HookAt(0, call.hook), just(what)[0][call.hook], all, dag)
        BY <2>2, <3>1, <3>2
      <3> QED BY <3>1, <3>3 DEF AllFit
    <2>3. CASE call.command = "explain"
      <3>1. shown' = just(Explained(hook)) BY <1>4, <2>3, Zenon
      <3>2. all = (call.args.only = {}) /\ dag = TRUE BY <2>3
      <3> HIDE DEF all, dag, r, hook, just
      <3>3. Fits(r, Explained(hook), all, dag) BY <2>1, <3>2, HookFits
      <3> QED BY <2>2, <3>1, <3>3
    <2>4. CASE call.command = "dry-run"
      <3>1. shown' = just(info) BY <1>4, <2>4, Zenon
      <3>2. all = TRUE /\ dag = FALSE BY <2>4
      <3> HIDE DEF all, dag, r, hook, just
      <3>3. Fits(r, info, all, dag) BY <2>1, <3>2, HookFits DEF info
      <3> QED BY <2>2, <3>1, <3>3
    <2> QED BY <1>3, <1>6, <2>3, <2>4
  <1> QED BY <1>5, <1>6

(* What was shown stays as it was.                                         *)
LEMMA SameShown ==
  ASSUME ShownInOrder, call' = call, raw' = raw, shown' = shown
  PROVE  ShownInOrder'
  <1>1. AllFit(shown) BY ShownFits
  <1>2. AllFit(shown') BY <1>1
  <1>3. AllFit(shown)' BY <1>2 DEF AllFit, HookAt, Fits, InOrder
  <1>4. (ShownInOrder <=> AllFit(shown))' BY ShownFits, PTL
  <1> QED BY <1>3, <1>4

(* The next job is one of those to be planned.                             *)
LEMMA NextIsChosen ==
  ASSUME NEW all, all \in Seq(ToSet(all)), NEW rest, rest # <<>>, NEW ps, NEW options,
         NEW whole, ArePlanned(ps, all, rest, options, whole)
  PROVE  \E i \in 1..Len(all) : Head(rest) = all[i]
  <1>1. PICK at : PlansAre(at, ps, all, rest, options, whole) BY DEF ArePlanned
  <1> DEFINE n == Len(all) - Len(rest)
  <1>2. /\ rest \in Seq(ToSet(rest)) /\ Len(rest) <= Len(all)
        /\ \A k \in 1..Len(rest) : rest[k] = all[n + k]
    BY <1>1 DEF PlansAre
  <1>3. Len(all) \in Nat /\ Len(rest) \in Nat /\ Len(rest) > 0 /\ Head(rest) = rest[1]
    BY <1>2
  <1>4. n + 1 \in 1..Len(all) /\ 1 \in 1..Len(rest) BY <1>2, <1>3
  <1>5. rest[1] = all[n + 1] BY <1>2, <1>4
  <1> QED BY <1>3, <1>4, <1>5

(* One job more is planned, left out, or refused.                          *)
LEMMA PlanJobStep ==
  ASSUME PInv, PlanJob
  PROVE  PlanningOK' /\ ShownInOrder'
  <1> DEFINE job == Head(todo)
             hook == config.hooks[call.hook]
             plan == ResolveJobPlan(hook, job, call.git)
             r == raw.hooks[call.hook]
  <1>1. /\ pc = "planning" /\ todo # <<>> /\ exit = "none" /\ shown = None
        /\ plans \in Seq(ToSet(plans)) /\ IsLoaded /\ call.hook \in DOMAIN config.hooks
        /\ IsRawConfig(raw) /\ call.git \in Listing
        /\ ArePlanned(plans, Chosen, todo, Options, exit # "glob")
    BY DEF PInv, PlanningOK, Planning, PlanJob, IInv, EndOK
  <1>2. /\ call' = call /\ config' = config /\ raw' = raw /\ shown' = shown
        /\ todo' = Tail(todo)
    BY DEF PlanJob
  <1>3. /\ IsFiltered(Options, job.name) => pc' = pc /\ plans' = plans /\ exit' = exit
        /\ ~IsFiltered(Options, job.name) /\ plan = Bad =>
             pc' = "done" /\ exit' = "glob" /\ plans' = plans
        /\ ~IsFiltered(Options, job.name) /\ plan # Bad =>
             plans' = Append(plans, plan) /\ pc' = pc /\ exit' = exit
    BY DEF PlanJob, Ends
  <1>4. Chosen' = Chosen /\ Options' = Options BY <1>2, SameChosen
  <1>5. AreChosen(Chosen, r) BY <1>1, ChosenIs
  <1>6. Chosen \in Seq(ToSet(Chosen)) BY <1>5 DEF AreChosen
  <1>7. ArePlanned(plans, Chosen, todo, Options, TRUE)
    <2>1. (exit # "glob") = TRUE BY <1>1
    <2> QED BY <1>1, <2>1
  <1>8. ASSUME NEW w, (exit' # "glob") = w, ArePlanned(plans', Chosen, Tail(todo), Options, w),
               plans' \in Seq(ToSet(plans')), pc' = "planning" \/ pc' = "done", exit' # "run"
        PROVE  PlanningOK' /\ ShownInOrder'
    <2>1. ArePlanned(plans', Chosen', todo', Options', exit' # "glob") BY <1>2, <1>4, <1>8
    <2>2. IsLoaded' BY <1>1, <1>2 DEF IsLoaded
    <2>3. PlanningOK' BY <1>1, <1>2, <1>8, <2>1, <2>2 DEF PlanningOK, Planning
    <2>4. ShownInOrder' BY <1>2, SameShown DEF PInv
    <2> QED BY <2>3, <2>4
  <1>9. IsCommand(job.run)
    <2>1. PICK i \in 1..Len(Chosen) : Head(todo) = Chosen[i] BY <1>1, <1>6, <1>7, NextIsChosen
    <2> QED BY <1>5, <2>1 DEF AreChosen
  <1> HIDE DEF plan, job
  <1>10. CASE IsFiltered(Options, job.name)
    <2>1. pc' = pc /\ plans' = plans /\ exit' = exit BY <1>3, <1>10
    <2>2. ArePlanned(plans, Chosen, Tail(todo), Options, TRUE)
      BY <1>1, <1>6, <1>7, <1>10, PlansSkip DEF job
    <2>3. (exit' # "glob") = TRUE BY <1>1, <2>1
    <2> QED BY <1>1, <1>8, <2>1, <2>2, <2>3
  <1>11. CASE ~IsFiltered(Options, job.name) /\ plan = Bad
    <2>1. pc' = "done" /\ exit' = "glob" /\ plans' = plans BY <1>3, <1>11
    <2>2. ArePlanned(plans, Chosen, Tail(todo), Options, FALSE)
      BY <1>1, <1>6, <1>7, PlansSkip
    <2>3. (exit' # "glob") = FALSE BY <2>1
    <2> QED BY <1>1, <1>8, <2>1, <2>2, <2>3
  <1>12. CASE ~IsFiltered(Options, job.name) /\ plan # Bad
    <2>1. plans' = Append(plans, plan) /\ pc' = pc /\ exit' = exit BY <1>3, <1>12
    <2>2. PlanIs(plan, job) BY <1>1, <1>9, <1>12, ResolvedPlanIs DEF plan
    <2>3. ArePlanned(Append(plans, plan), Chosen, Tail(todo), Options, TRUE)
      BY <1>1, <1>6, <1>7, <1>12, <2>2, PlansNext DEF job
    <2>4. Append(plans, plan) \in Seq(ToSet(Append(plans, plan))) BY <1>1, SeqFacts
    <2>5. (exit' # "glob") = TRUE BY <1>1, <2>1
    <2> QED BY <1>1, <1>8, <2>1, <2>3, <2>4, <2>5
  <1> QED BY <1>10, <1>11, <1>12

(* All are planned.                                                        *)
LEMMA PlannedStep ==
  ASSUME PInv, Planned
  PROVE  PlanningOK' /\ ShownInOrder'
  <1>1. /\ plans \in Seq(ToSet(plans)) /\ IsLoaded /\ call.hook \in DOMAIN config.hooks
        /\ ArePlanned(plans, Chosen, todo, Options, exit # "glob")
        /\ exit = "none" /\ todo = <<>>
    BY DEF PInv, PlanningOK, Planning, Planned, IInv, EndOK
  <1>2. /\ call' = call /\ config' = config /\ raw' = raw /\ shown' = shown
        /\ todo' = todo /\ plans' = plans /\ pc' = "done" /\ exit' = "run"
    BY DEF Planned, Ends
  <1>3. ArePlanned(plans', Chosen', todo', Options', exit' # "glob")
    <2>1. (exit' # "glob") = (exit # "glob") BY <1>1, <1>2
    <2> QED BY <1>1, <1>2, <2>1, SameChosen
  <1>4. IsLoaded' BY <1>1, <1>2 DEF IsLoaded
  <1>5. PlanningOK' BY <1>1, <1>2, <1>3, <1>4 DEF PlanningOK, Planning
  <1>6. ShownInOrder' BY <1>2, SameShown DEF PInv
  <1> QED BY <1>5, <1>6

(* A step that changes nothing.                                            *)
LEMMA NothingHappens ==
  ASSUME PInv, UNCHANGED vars
  PROVE  PlanningOK' /\ ShownInOrder'
  <1>1. /\ call' = call /\ config' = config /\ raw' = raw /\ shown' = shown /\ pc' = pc
        /\ todo' = todo /\ plans' = plans /\ exit' = exit
    BY DEF vars
  <1>2. Chosen' = Chosen /\ Options' = Options BY <1>1, SameChosen
  <1>3. IsLoaded' = IsLoaded /\ Planning' = Planning BY <1>1 DEF IsLoaded, Planning
  <1>4. PlanningOK' BY <1>1, <1>2, <1>3 DEF PInv, PlanningOK
  <1>5. ShownInOrder' BY <1>1, SameShown DEF PInv
  <1> QED BY <1>4, <1>5

LEMMA PInitHolds == Init => PInv
  <1> SUFFICES ASSUME Init PROVE PInv OBVIOUS
  <1>1. IInv BY InitHolds
  <1>2. call.git \in Listing BY CasesAssumption DEF Init
  <1>3. IsRawConfig(raw) BY EmptyIsRaw DEF Init
  <1>4. FramesAreRaw(stack) BY DEF Init, FramesAreRaw
  <1>5. << >> \in Seq(ToSet(<< >>)) OBVIOUS
  <1>6. PlanningOK BY <1>5 DEF Init, PlanningOK, Planning
  <1>7. ShownInOrder BY DEF Init, ShownInOrder, None
  <1> QED BY <1>1, <1>2, <1>3, <1>4, <1>6, <1>7 DEF PInv

LEMMA PNextHolds == PInv /\ [Next]_vars => PInv'
  <1> SUFFICES ASSUME PInv, [Next]_vars PROVE PInv' OBVIOUS
  <1>1. IInv' BY NextHolds DEF PInv
  <1>2. ASSUME call' = call, raw' = raw, FramesAreRaw(stack'), PlanningOK' /\ ShownInOrder'
        PROVE  PInv'
    <2>1. FramesAreRaw(stack)' BY <1>2 DEF FramesAreRaw
    <2> QED BY <1>1, <1>2, <2>1 DEF PInv
  <1>3. FramesAreRaw(stack) /\ FramesAreRaw(<<>>) BY DEF PInv, FramesAreRaw
  <1>4. /\ pc \notin {"planning", "done"} => plans = <<>>
        /\ pc # "done" => shown = None /\ exit = "none"
        /\ pc = "selecting" => IsLoaded
    BY DEF PInv, PlanningOK, IInv, EndOK
  <1>5. CASE Import BY <1>2, <1>3, <1>4, <1>5, NotYet DEF Import
  <1>6. CASE FindConfig
    BY <1>2, <1>3, <1>4, <1>6, NotYet, SoftMissFacts DEF FindConfig, Ends
  <1>7. CASE Enter
    <2>1. FramesAreRaw(stack') BY <1>7, RawEnter
    <2> QED BY <1>2, <1>4, <1>7, <2>1, NotYet DEF Enter, Ends
  <1>8. CASE Return
    <2>1. FramesAreRaw(stack') BY <1>8, RawReturn
    <2> QED BY <1>2, <1>4, <1>8, <2>1, NotYet DEF Return
  <1>9. CASE ApplyLocal
    <2>1. IsRawConfig(raw') BY <1>9, RawApply
    <2>2. PlanningOK' /\ ShownInOrder' BY <1>4, <1>9, NotYet DEF ApplyLocal, Ends
    <2>3. call' = call /\ stack' = <<>> BY <1>9 DEF ApplyLocal
    <2>4. FramesAreRaw(stack)' BY <1>3, <2>3 DEF FramesAreRaw
    <2> QED BY <1>1, <2>1, <2>2, <2>3, <2>4 DEF PInv
  <1>10. CASE LowerConfig
    <2>1. pc' = "selecting" => IsLoaded' BY <1>10 DEF LowerConfig, Ends, IsLoaded
    <2> QED BY <1>2, <1>3, <1>4, <1>10, <2>1, NotYet DEF LowerConfig, Ends
  <1>11. CASE Select
    <2>1. /\ call' = call /\ raw' = raw /\ stack' = stack /\ config' = config
          /\ plans' = plans /\ shown' = shown /\ pc = "selecting" /\ call.command = "dispatch"
      BY <1>11 DEF Select
    <2>2. CASE pc' = "done"
      <3>1. exit' \in {SoftMiss, "panic"} BY <1>11, <2>2 DEF Select, Ends
      <3> QED BY <1>2, <1>3, <1>4, <2>1, <2>2, <3>1, NotYet, SoftMissFacts
    <2>3. CASE pc' # "done"
      <3> DEFINE there == call.hook \in DOMAIN config.hooks
      <3>1. ~(~HasJobs(config.hooks) /\ ~InAPackage) /\ ~(~there /\ InAPackage)
        BY <1>11, <2>3 DEF Select, Ends
      <3>2. there BY <3>1 DEF HasJobs
      <3>3. todo' = config.hooks[call.hook].jobs /\ pc' = "planning" /\ exit' = exit
        BY <1>11, <2>3, <3>1, Zenon DEF Select, Ends
      <3>4. todo' = Chosen BY <2>1, <3>3 DEF Chosen
      <3>5. PlanningOK' /\ ShownInOrder' BY <2>1, <3>2, <3>3, <3>4, PlanningStarts
      <3> QED BY <1>2, <1>3, <2>1, <3>5
    <2> QED BY <2>2, <2>3
  <1>12. CASE NoSuchHook
    BY <1>2, <1>3, <1>4, <1>12, NotYet, SoftMissFacts DEF NoSuchHook, Ends
  <1>13. CASE SelectRun
    <2>1. /\ call' = call /\ raw' = raw /\ stack' = stack /\ config' = config
          /\ plans' = plans /\ shown' = shown /\ pc = "selecting" /\ exit' = exit
          /\ pc' = "planning" /\ todo' = Chosen /\ call.hook \in DOMAIN config.hooks
      BY <1>13 DEF SelectRun, Chosen
    <2>2. PlanningOK' /\ ShownInOrder' BY <2>1, PlanningStarts
    <2> QED BY <1>2, <1>3, <2>1, <2>2
  <1>14. CASE SelectFix
    <2>1. /\ call' = call /\ raw' = raw /\ stack' = stack /\ config' = config
          /\ plans' = plans /\ shown' = shown /\ pc = "selecting"
          /\ todo' = Chosen /\ call.hook \in DOMAIN config.hooks
      BY <1>14 DEF SelectFix, Chosen
    <2>2. CASE todo' = <<>>
      BY <1>2, <1>3, <1>4, <1>14, <2>1, <2>2, NotYet DEF SelectFix, Ends
    <2>3. CASE todo' # <<>>
      <3>1. pc' = "planning" /\ exit' = exit BY <1>14, <2>3 DEF SelectFix
      <3>2. PlanningOK' /\ ShownInOrder' BY <2>1, <3>1, PlanningStarts
      <3> QED BY <1>2, <1>3, <2>1, <3>2
    <2> QED BY <2>2, <2>3
  <1>15. CASE Show
    <2>1. /\ call' = call /\ raw' = raw /\ stack' = stack /\ config' = config
          /\ plans' = plans /\ pc' = "done" /\ exit' = "shown" /\ pc = "selecting"
      BY <1>15 DEF Show, Ends
    <2>2. AllFit(shown') BY <1>15, ShowStep
    <2>3. AllFit(shown)' BY <2>1, <2>2 DEF AllFit, HookAt, Fits, InOrder
    <2>4. ShownInOrder'
      <3>1. (ShownInOrder <=> AllFit(shown))' BY ShownFits, PTL
      <3> QED BY <2>3, <3>1
    <2>5. << >> \in Seq(ToSet(<< >>)) OBVIOUS
    <2>6. PlanningOK' BY <1>4, <2>1, <2>5 DEF PlanningOK, Planning
    <2> QED BY <1>2, <1>3, <2>1, <2>4, <2>6
  <1>16. CASE PlanJob
    <2>1. PlanningOK' /\ ShownInOrder' BY <1>16, PlanJobStep
    <2> QED BY <1>2, <1>3, <1>16, <2>1 DEF PlanJob
  <1>17. CASE Planned
    <2>1. PlanningOK' /\ ShownInOrder' BY <1>17, PlannedStep
    <2> QED BY <1>2, <1>3, <1>17, <2>1 DEF Planned
  <1>18. CASE UNCHANGED vars
    <2>1. PlanningOK' /\ ShownInOrder' BY <1>18, NothingHappens
    <2> QED BY <1>2, <1>3, <1>18, <2>1 DEF vars
  <1> QED BY <1>5, <1>6, <1>7, <1>8, <1>9, <1>10, <1>11, <1>12, <1>13, <1>14, <1>15,
             <1>16, <1>17, <1>18 DEF Next, Done

(* From the files to the plans and what is shown.                          *)
THEOREM PlanningInvariance == Spec => []PInv
  BY PInitHolds, PNextHolds, PTL DEF Spec

(* The files of a job all reach one of its commands, once and in order,    *)
(* and no command with more than one of them is larger than an argument    *)
(* list may be: for any job, any files and any lengths of their names.     *)
THEOREM NoFileIsLost == Spec => []CommandsCoverTheFiles
  <1>1. PInv => CommandsCoverTheFiles
    <2> SUFFICES ASSUME PInv, NEW i \in DOMAIN plans, plans[i] # None
                 PROVE  LET plan == plans[i]
                            run == Said(raw.hooks[call.hook].jobs[plan.job])
                        IN  /\ HasTemplate(run) => FlattenSeq(plan.commands) = plan.files
                            /\ \A k \in DOMAIN plan.commands :
                                 Len(plan.commands[k]) > 1 /\ Cardinality(run.vars) = 1 =>
                                   run.bytes + Joined(plan.commands[k]) <= MaxArg
      BY DEF CommandsCoverTheFiles
    <2> DEFINE plan == plans[i]
               r == raw.hooks[call.hook]
               run == Said(r.jobs[plan.job])
    <2>1. plans \in Seq(ToSet(plans)) BY DEF PInv, PlanningOK
    <2>2. i \in 1..Len(plans) /\ plans # <<>> BY <2>1
    <2>3. /\ IsLoaded /\ call.hook \in DOMAIN config.hooks /\ IsRawConfig(raw)
          /\ ArePlanned(plans, Chosen, todo, Options, exit # "glob")
      BY <2>2 DEF PInv, PlanningOK, Planning
    <2>4. AreChosen(Chosen, r) BY <2>3, ChosenIs
    <2>5. PICK at : PlansAre(at, plans, Chosen, todo, Options, exit # "glob")
      BY <2>3 DEF ArePlanned
    <2> DEFINE n == Len(Chosen) - Len(todo)
               job == Chosen[at[i]]
    <2>6. /\ todo \in Seq(ToSet(todo)) /\ at \in [1..Len(plans) -> 1..n]
          /\ PlanIs(plan, job)
      BY <2>2, <2>5 DEF PlansAre
    <2>7. Len(Chosen) \in Nat /\ Len(todo) \in Nat BY <2>4, <2>6 DEF AreChosen
    <2>8. at[i] \in 1..n BY <2>2, <2>6
    <2>9. at[i] \in 1..Len(Chosen) BY <2>7, <2>8
    <2>10. job.run = Said(r.jobs[job.name]) BY <2>4, <2>9 DEF AreChosen
    <2> HIDE DEF job, r
    <2>11. /\ plan.job = job.name /\ Chunked(job.run, plan.commands)
           /\ HasTemplate(job.run) => FlattenSeq(plan.commands) = plan.files
      BY <2>6 DEF PlanIs
    <2>12. run = job.run BY <2>10, <2>11
    <2> HIDE DEF run, plan
    <2>13. /\ HasTemplate(run) => FlattenSeq(plan.commands) = plan.files
           /\ \A k \in DOMAIN plan.commands :
                Len(plan.commands[k]) > 1 => run.bytes + Joined(plan.commands[k]) <= MaxArg
      <3>1. DOMAIN plan.commands = 1..Len(plan.commands) BY <2>11 DEF Chunked
      <3> QED BY <2>11, <2>12, <3>1 DEF Chunked
    <2> QED BY <2>13 DEF run, plan, r
  <1> QED BY <1>1, PlanningInvariance, PTL

(* Counting by a list without repetitions.                                 *)
LEMMA CountByList ==
  ASSUME NEW n \in Nat, NEW S, NEW f \in [1..n -> S],
         \A i, k \in 1..n : i < k => f[i] # f[k],
         \A x \in S : \E k \in 1..n : f[k] = x
  PROVE  Cardinality(S) = n
  <1>1. \A i, k \in 1..n : f[i] = f[k] => i = k
    <2> SUFFICES ASSUME NEW i \in 1..n, NEW k \in 1..n, f[i] = f[k], i # k PROVE FALSE
      OBVIOUS
    <2>1. i < k \/ k < i OBVIOUS
    <2> QED BY <2>1
  <1>2. f \in Bijection(1..n, S)
    <2>1. f \in Injection(1..n, S) BY <1>1 DEF Injection, IsInjective
    <2>2. f \in Surjection(1..n, S) BY DEF Surjection
    <2> QED BY <2>1, <2>2 DEF Bijection
  <1>3. IsFiniteSet(1..n) /\ Cardinality(1..n) = n BY FS_Interval
  <1> QED BY <1>2, <1>3, FS_Bijection DEF ExistsBijection

(* What a hook runs and what explain, status and a dry run show of it are  *)
(* all of its jobs that are asked for, each once, in the order the files   *)
(* tell: the list's, then that of the names.                               *)
THEOREM OneOrderForAll == Spec => []JobsRunInOrder
  <1>1. PInv /\ exit = "run" => PlansInOrder
    <2> SUFFICES ASSUME PInv, exit = "run" PROVE PlansInOrder OBVIOUS
    <2> DEFINE r == raw.hooks[call.hook]
               asked(j) == /\ ~IsFiltered(Options, j)
                           /\ call.command = "fix" =>
                                /\ "fix" \in DOMAIN WithBuiltin(r.jobs[j])
                                /\ call.args.only # {} => j \in call.args.only
               wanted == { j \in DOMAIN r.jobs : asked(j) }
               made == { i \in DOMAIN plans : plans[i] # None }
               l == Len(plans)
               n == Len(Chosen)
    <2>1. /\ IsLoaded /\ call.hook \in DOMAIN config.hooks /\ IsRawConfig(raw)
          /\ plans \in Seq(ToSet(plans)) /\ todo = <<>>
          /\ ArePlanned(plans, Chosen, todo, Options, exit # "glob")
      BY DEF PInv, PlanningOK, Planning
    <2>2. AreChosen(Chosen, r) BY <2>1, ChosenIs
    <2>3. PICK at : PlansAre(at, plans, Chosen, todo, Options, exit # "glob")
      BY <2>1 DEF ArePlanned
    <2>4. /\ at \in [1..l -> 1..(n - Len(todo))]
          /\ \A k \in 1..l : /\ PlanIs(plans[k], Chosen[at[k]])
                             /\ ~IsFiltered(Options, Chosen[at[k]].name)
          /\ \A i, k \in 1..l : i < k => at[i] < at[k]
          /\ (exit # "glob") => \A i \in 1..(n - Len(todo)) :
               ~IsFiltered(Options, Chosen[i].name) => \E k \in 1..l : at[k] = i
      BY <2>3 DEF PlansAre
    <2>5. n \in Nat /\ l \in Nat /\ Len(todo) = 0 /\ n - 0 = n /\ DOMAIN plans = 1..l
      BY <2>1, <2>2 DEF AreChosen
    <2>6. /\ \A i \in 1..n : Chosen[i].name \in Asked(r)
          /\ \A j \in Asked(r) : \E i \in 1..n : Chosen[i].name = j
          /\ \A i, k \in 1..n : i < k => /\ Chosen[i].name # Chosen[k].name
                                         /\ GoesFirst(r, Chosen[i].name, Chosen[k].name)
      BY <2>2 DEF AreChosen
    <2>7. \A j : j \in wanted <=> j \in Asked(r) /\ ~IsFiltered(Options, j)
      BY DEF Asked
    <2> HIDE DEF wanted, l, n, r
    <2>8. /\ at \in [1..l -> 1..n]
          /\ \A k \in 1..l : PlanIs(plans[k], Chosen[at[k]])
          /\ \A k \in 1..l : ~IsFiltered(Options, Chosen[at[k]].name)
          /\ \A i, k \in 1..l : i < k => at[i] < at[k]
          /\ \A i \in 1..n :
               ~IsFiltered(Options, Chosen[i].name) => \E k \in 1..l : at[k] = i
      BY <2>4, <2>5
    <2> DEFINE f == [k \in 1..l |-> Chosen[at[k]].name]
    <2>9. \A k \in 1..l : at[k] \in 1..n /\ Chosen[at[k]].name \in wanted
      BY <2>6, <2>7, <2>8
    <2>10. f \in [1..l -> wanted] /\ \A k \in 1..l : f[k] = Chosen[at[k]].name
      BY <2>9
    <2>11. \A x \in wanted : \E k \in 1..l : f[k] = x
      <3> SUFFICES ASSUME NEW x \in wanted PROVE \E k \in 1..l : f[k] = x OBVIOUS
      <3>1. PICK i \in 1..n : Chosen[i].name = x BY <2>6, <2>7
      <3>2. PICK k \in 1..l : at[k] = i BY <2>7, <2>8, <3>1
      <3> QED BY <2>10, <3>1, <3>2
    <2>12. \A i, k \in 1..l : i < k => f[i] # f[k] /\ GoesFirst(r, f[i], f[k])
      BY <2>6, <2>8, <2>9, <2>10
    <2> HIDE DEF f
    <2>13. Cardinality(wanted) = l BY <2>5, <2>10, <2>11, <2>12, CountByList
    <2>14. ASSUME NEW k \in made PROVE k \in 1..l /\ plans[k].job = f[k]
      <3>1. k \in 1..l /\ plans[k] # None BY <2>5
      <3>2. plans[k].job = Chosen[at[k]].name BY <2>8, <3>1 DEF PlanIs
      <3> QED BY <2>10, <3>1, <3>2
    <2> HIDE DEF made
    <2>15. /\ l = Cardinality(wanted)
           /\ \A i \in made : plans[i].job \in wanted
           /\ \A i, k \in made : i < k => GoesFirst(r, plans[i].job, plans[k].job)
      BY <2>10, <2>12, <2>13, <2>14
    <2> QED BY <2>15, Zenon DEF PlansInOrder, l, wanted, made, r
  <1>2. PInv => JobsRunInOrder
    BY <1>1 DEF JobsRunInOrder, PlansInOrder, PInv
  <1> QED BY <1>2, PlanningInvariance, PTL

-----------------------------------------------------------------------------
(* Packages.                                                               *)

ArePackages(c) ==
  /\ IsFiniteSet(DOMAIN c.packages) /\ DOMAIN c.packages \subseteq Int \ {0}
  /\ \A p \in DOMAIN c.packages : Len(c.packages[p].path) \in Nat

AboveOf(c, f) == { p \in DOMAIN c.packages : IsPrefix(c.packages[p].path, f) }

(* A file falls to the deepest package above it.                           *)
LEMMA DeepestPackage ==
  ASSUME NEW c, ArePackages(c), NEW f
  PROVE  /\ AboveOf(c, f) = {} => PackageOf(c, f) = 0
         /\ AboveOf(c, f) # {} =>
              /\ PackageOf(c, f) \in AboveOf(c, f)
              /\ \A q \in AboveOf(c, f) :
                   Len(c.packages[q].path) <= Len(c.packages[PackageOf(c, f)].path)
  <1> DEFINE above == AboveOf(c, f)
             depth(p) == Len(c.packages[p].path)
             Before_(p, q) == depth(p) > depth(q) \/ (depth(p) = depth(q) /\ p <= q)
             down == [q \in above |-> { p \in above : Before_(p, q) }]
  <1>1. PackageOf(c, f) = IF above = {} THEN 0
                          ELSE CHOOSE p \in above : \A q \in above : Before_(p, q)
    BY Zenon DEF PackageOf, AboveOf
  <1>2. /\ above \subseteq DOMAIN c.packages /\ above \subseteq Int
        /\ \A p \in above : depth(p) \in Nat
    BY DEF ArePackages, AboveOf
  <1>3. IsFiniteSet(above) BY <1>2, FS_Subset DEF ArePackages
  <1> HIDE DEF above, depth
  <1>4. \A p, q \in above : p \in down[q] <=> Before_(p, q) OBVIOUS
  <1>5. IsOrder(down, above)
    <2>1. down \in [above -> SUBSET above] OBVIOUS
    <2>2. \A x \in above : Before_(x, x) BY <1>2
    <2>3. \A x, y \in above : Before_(x, y) \/ Before_(y, x) BY <1>2
    <2>4. \A x, y \in above : Before_(x, y) /\ Before_(y, x) => x = y BY <1>2
    <2>5. \A x, y, z \in above : Before_(x, y) /\ Before_(y, z) => Before_(x, z) BY <1>2
    <2> HIDE DEF down, Before_
    <2> QED BY <1>4, <2>1, <2>2, <2>3, <2>4, <2>5 DEF IsOrder
  <1>6. ASSUME above # {} PROVE \E p \in above : \A q \in above : Before_(p, q)
    <2> HIDE DEF down
    <2>1. /\ Cardinality(above) \in Nat
          /\ \A x \in above : Cardinality(down[x]) \in 1..Cardinality(above)
          /\ \A x, y \in above : Cardinality(down[x]) = Cardinality(down[y]) => x = y
          /\ \A x, y \in above : Cardinality(down[x]) < Cardinality(down[y]) => x \in down[y]
          /\ \A k \in 1..Cardinality(above) : \E x \in above : Cardinality(down[x]) = k
      BY <1>3, <1>5, RankIs
    <2>2. 1 \in 1..Cardinality(above)
      <3>1. PICK x \in above : TRUE BY <1>6
      <3>2. Cardinality(down[x]) \in 1..Cardinality(above) BY <2>1
      <3> QED BY <2>1, <3>2
    <2>3. PICK p \in above : Cardinality(down[p]) = 1 BY <2>1, <2>2
    <2>4. ASSUME NEW q \in above PROVE p \in down[q]
      <3>1. Cardinality(down[q]) \in 1..Cardinality(above) BY <2>1
      <3>2. CASE Cardinality(down[q]) = 1
        <4>1. p = q BY <2>1, <2>3, <3>2
        <4> QED BY <1>5, <4>1 DEF IsOrder
      <3>3. CASE Cardinality(down[q]) # 1
        <4>1. Cardinality(down[p]) < Cardinality(down[q]) BY <2>1, <2>3, <3>1, <3>3
        <4> QED BY <2>1, <4>1
      <3> QED BY <3>2, <3>3
    <2> QED BY <1>4, <2>4
  <1>7. ASSUME above # {}
        PROVE  /\ PackageOf(c, f) \in above
               /\ \A q \in above : Before_(PackageOf(c, f), q)
    <2> DEFINE best == CHOOSE p \in above : \A q \in above : Before_(p, q)
    <2>1. PackageOf(c, f) = best BY <1>1, <1>7
    <2>2. best \in above /\ \A q \in above : Before_(best, q)
      <3> HIDE DEF Before_
      <3> QED BY <1>6, <1>7
    <2> HIDE DEF best
    <2> QED BY <2>1, <2>2
  <1>8. ASSUME above # {}, NEW q \in above PROVE depth(q) <= depth(PackageOf(c, f))
    <2>1. Before_(PackageOf(c, f), q) /\ PackageOf(c, f) \in above BY <1>7, <1>8
    <2> QED BY <1>2, <2>1
  <1> QED BY <1>1, <1>7, <1>8 DEF above, depth

(* As sets.                                                                *)
LEMMA KeptSet ==
  ASSUME NEW A, NEW s \in Seq(A), NEW T
  PROVE  ToSet(Kept(s, T)) = ToSet(s) \cap T
  <1> DEFINE r == Kept(s, T)
  <1>1. r \in Seq(A \cap T) /\ \E at : Keeps(at, r, s, T) BY KeptIs
  <1> HIDE DEF r
  <1>2. PICK at : Keeps(at, r, s, T) BY <1>1
  <1>3. /\ at \in [1..Len(r) -> 1..Len(s)]
        /\ \A k \in 1..Len(r) : r[k] = s[at[k]] /\ s[at[k]] \in T
        /\ \A i \in 1..Len(s) : s[i] \in T => \E k \in 1..Len(r) : at[k] = i
    BY <1>2 DEF Keeps
  <1>4. DOMAIN r = 1..Len(r) /\ DOMAIN s = 1..Len(s) BY <1>1
  <1>5. ToSet(r) = { r[k] : k \in 1..Len(r) } /\ ToSet(s) = { s[k] : k \in 1..Len(s) }
    BY <1>4 DEF ToSet
  <1>6. ASSUME NEW e \in ToSet(r) PROVE e \in ToSet(s) \cap T BY <1>3, <1>5
  <1>7. ASSUME NEW e \in ToSet(s) \cap T PROVE e \in ToSet(r)
    <2>1. PICK i \in 1..Len(s) : e = s[i] BY <1>5
    <2>2. PICK k \in 1..Len(r) : at[k] = i BY <1>3, <2>1
    <2> QED BY <1>3, <1>5, <2>1, <2>2
  <1> QED BY <1>6, <1>7 DEF r

(* Each file is in one bucket, that of its package.                        *)
LEMMA BucketsPartition ==
  ASSUME NEW c, ArePackages(c), NEW A, NEW files \in Seq(A)
  PROVE  /\ \A f \in ToSet(files) :
              Cardinality({ i \in DOMAIN ResolvePackages(c, files) :
                              f \in ToSet(ResolvePackages(c, files)[i].files) }) = 1
         /\ \A i \in DOMAIN ResolvePackages(c, files) :
              \A f \in ToSet(ResolvePackages(c, files)[i].files) :
                ResolvePackages(c, files)[i].package = PackageOf(c, f)
  <1> DEFINE D == DOMAIN c.packages
             names == Sorted(D, <=)
             of(p) == Kept(files, { f \in ToSet(files) : PackageOf(c, f) = p })
             bucket(p) == [package |-> p, files |-> of(p)]
             tail == [i \in DOMAIN names |-> bucket(names[i])]
             all == <<bucket(0)>> \o tail
             full == { b \in ToSet(all) : b.files # <<>> }
             buckets == ResolvePackages(c, files)
  <1>1. buckets = IF D = {} THEN <<bucket(0)>> ELSE Kept(all, full)
    BY Zenon DEF ResolvePackages
  <1>2. IsFiniteSet(D) /\ D \subseteq Int /\ 0 \notin D BY DEF ArePackages
  <1>3. /\ Cardinality(D) \in Nat
        /\ names \in Seq(D) /\ Len(names) = Cardinality(D)
        /\ \A x \in D : \E k \in 1..Cardinality(D) : names[k] = x
        /\ \A i, k \in 1..Cardinality(D) : i < k => names[i] < names[k]
    <2> HIDE DEF D
    <2> QED BY <1>2, SortedNumbers
  <1>4. \A p : ToSet(of(p)) = { f \in ToSet(files) : PackageOf(c, f) = p }
    <2> SUFFICES ASSUME NEW p
                 PROVE  ToSet(of(p)) = { f \in ToSet(files) : PackageOf(c, f) = p }
      OBVIOUS
    <2> DEFINE T == { f \in ToSet(files) : PackageOf(c, f) = p }
    <2>1. T \subseteq ToSet(files) OBVIOUS
    <2> HIDE DEF T
    <2>2. ToSet(Kept(files, T)) = ToSet(files) \cap T BY KeptSet
    <2> QED BY <2>1, <2>2 DEF T
  <1>5. \A p : bucket(p).package = p /\ bucket(p).files = of(p) OBVIOUS
  <1>6. \A f : PackageOf(c, f) \in D \cup {0} BY DeepestPackage DEF AboveOf
  <1> HIDE DEF of, bucket, names, D
  <1> DEFINE m == Cardinality(D)
             P == D \cup {0}
  <1>7. CASE D = {}
    <2>1. buckets = <<bucket(0)>> BY <1>1, <1>7
    <2>2. DOMAIN buckets = {1} /\ buckets[1] = bucket(0) BY <2>1
    <2>3. \A f : PackageOf(c, f) = 0 BY <1>6, <1>7
    <2> HIDE DEF buckets
    <2>4. ASSUME NEW f \in ToSet(files)
          PROVE  Cardinality({ i \in DOMAIN buckets : f \in ToSet(buckets[i].files) }) = 1
      <3>1. f \in ToSet(buckets[1].files) BY <1>4, <1>5, <2>2, <2>3
      <3>2. { i \in DOMAIN buckets : f \in ToSet(buckets[i].files) } = {1} BY <2>2, <3>1
      <3> QED BY <3>2, FS_Singleton
    <2>5. \A i \in DOMAIN buckets : \A f \in ToSet(buckets[i].files) :
            buckets[i].package = PackageOf(c, f)
      BY <1>5, <2>2, <2>3
    <2> QED BY <2>4, <2>5 DEF buckets
  <1>8. CASE D # {}
    <2> DEFINE B == { bucket(p) : p \in P }
               one == <<bucket(0)>>
    <2>1. /\ tail \in [1..m -> B] /\ \A i \in 1..m : tail[i] = bucket(names[i])
      <3>1. DOMAIN names = 1..m /\ \A i \in 1..m : names[i] \in P BY <1>3
      <3> QED BY <3>1
    <2>2. bucket(0) \in B OBVIOUS
    <2> HIDE DEF B, tail, m
    <2>3. m \in Nat /\ tail \in Seq(B) /\ Len(tail) = m
      <3>1. m \in Nat BY <1>3 DEF m
      <3> QED BY <2>1, <3>1
    <2>4. one \in Seq(B) /\ Len(one) = 1 /\ one[1] = bucket(0) BY <2>2
    <2>5. /\ all \in Seq(B) /\ Len(all) = m + 1 /\ all[1] = bucket(0)
          /\ \A i \in 1..m : all[i + 1] = bucket(names[i])
      <3> HIDE DEF one
      <3>1. one \o tail \in Seq(B) /\ Len(one \o tail) = 1 + m
            /\ (one \o tail)[1] = bucket(0)
            /\ \A i \in 1..m : (one \o tail)[i + 1] = tail[i]
        <4>1. ASSUME NEW S, NEW s \in Seq(S), NEW t \in Seq(S), Len(s) = 1
              PROVE  /\ s \o t \in Seq(S) /\ Len(s \o t) = 1 + Len(t)
                     /\ (s \o t)[1] = s[1]
                     /\ \A i \in 1..Len(t) : (s \o t)[i + 1] = t[i]
          <5>1. Len(s) \in Nat /\ Len(t) \in Nat /\ 1 \in 1..Len(s) BY <4>1
          <5>2. s \o t \in Seq(S) /\ Len(s \o t) = Len(s) + Len(t) OBVIOUS
          <5>4. (s \o t)[1] = s[1]
            <6>1. 1 \in 1..Len(s) + Len(t) /\ 1 <= Len(s) BY <5>1
            <6> QED BY <6>1
          <5>3. ASSUME NEW i \in 1..Len(t) PROVE (s \o t)[i + 1] = t[i]
            <6>1. i + 1 \in 1..Len(s) + Len(t) /\ ~(i + 1 <= Len(s)) /\ i + 1 - Len(s) = i
              BY <4>1, <5>1
            <6> QED BY <6>1
          <5> QED BY <4>1, <5>2, <5>3, <5>4
        <4>2. one \o tail \in Seq(B) /\ Len(one \o tail) = 1 + Len(tail)
          BY ONLY <2>3, <2>4, <4>1
        <4>3. /\ (one \o tail)[1] = one[1]
              /\ \A i \in 1..Len(tail) : (one \o tail)[i + 1] = tail[i]
          BY ONLY <2>3, <2>4, <4>1
        <4> QED BY <2>3, <2>4, <4>2, <4>3
      <3> QED BY <2>1, <2>3, <3>1 DEF one
    <2> HIDE DEF all
    <2>6. \A i \in 1..m + 1 : i = 1 \/ (i - 1 \in 1..m /\ i = (i - 1) + 1) BY <2>3
    <2>7. 1 \in 1..m + 1 /\ \A i \in 1..m : i + 1 \in 1..m + 1 /\ i + 1 # 1 BY <2>3
    <2> DEFINE name(i) == IF i = 1 THEN 0 ELSE names[i - 1]
    <2>8. \A i \in 1..m + 1 : all[i] = bucket(name(i))
      <3> SUFFICES ASSUME NEW i \in 1..m + 1 PROVE all[i] = bucket(name(i)) OBVIOUS
      <3>1. CASE i = 1 BY <2>5, <3>1
      <3>2. CASE i # 1
        <4>1. i - 1 \in 1..m /\ i = (i - 1) + 1 BY <2>6, <3>2
        <4>2. all[(i - 1) + 1] = bucket(names[i - 1]) BY <2>5, <4>1
        <4> QED BY <3>2, <4>1, <4>2
      <3> QED BY <3>1, <3>2
    <2>9. \A p \in P : \E i \in 1..m + 1 : name(i) = p
      <3> SUFFICES ASSUME NEW p \in P PROVE \E i \in 1..m + 1 : name(i) = p OBVIOUS
      <3>1. CASE p = 0 BY <2>7, <3>1
      <3>2. CASE p # 0
        <4>1. PICK k \in 1..m : names[k] = p BY <1>3, <3>2 DEF m
        <4>2. k + 1 \in 1..m + 1 /\ k + 1 # 1 /\ (k + 1) - 1 = k BY <2>7
        <4> QED BY <4>1, <4>2
      <3> QED BY <3>1, <3>2
    <2>10. \A i, k \in 1..m + 1 : i < k => name(i) # name(k)
      <3> SUFFICES ASSUME NEW i \in 1..m + 1, NEW k \in 1..m + 1, i < k
                   PROVE  name(i) # name(k)
        OBVIOUS
      <3>1. k # 1 /\ k - 1 \in 1..m BY <2>3
      <3>2. names[k - 1] \in D /\ names[k - 1] \in Int /\ names[k - 1] # 0
        <4>1. \A o \in 1..m : names[o] \in D BY <1>3 DEF m
        <4>2. names[k - 1] \in D BY <3>1, <4>1
        <4> QED BY <1>2, <4>2
      <3>3. CASE i = 1 BY <3>1, <3>2, <3>3
      <3>4. CASE i # 1
        <4>1. i - 1 \in 1..m /\ i - 1 < k - 1 BY <2>3, <3>1, <3>4
        <4>2. names[i - 1] < names[k - 1] /\ names[i - 1] \in D
          BY <1>3, <3>1, <4>1 DEF m
        <4>3. names[i - 1] \in Int BY <1>2, <4>2
        <4>4. names[i - 1] # names[k - 1] BY <3>2, <4>2, <4>3
        <4> QED BY <3>1, <3>4, <4>4
      <3> QED BY <3>3, <3>4
    <2> HIDE DEF name
    <2>11. buckets = Kept(all, full) BY <1>1, <1>8
    <2>12. Kept(all, full) \in Seq(B \cap full) /\ \E at : Keeps(at, Kept(all, full), all, full)
      <3> HIDE DEF full
      <3> QED BY <2>5, KeptIs
    <2> HIDE DEF buckets
    <2>13. PICK at : Keeps(at, buckets, all, full) BY <2>11, <2>12
    <2> DEFINE l == Len(buckets)
    <2>14. /\ at \in [1..l -> 1..m + 1]
           /\ \A k \in 1..l : buckets[k] = all[at[k]]
           /\ \A i \in 1..m + 1 : all[i] \in full => \E k \in 1..l : at[k] = i
           /\ \A i, k \in 1..l : i < k => at[i] < at[k]
      BY <2>5, <2>13 DEF Keeps
    <2>15. DOMAIN buckets = 1..l /\ l \in Nat BY <2>11, <2>12
    <2>16. \A i \in 1..m + 1 : all[i] \in full <=> all[i].files # <<>>
      <3>1. \A i \in 1..m + 1 : all[i] \in ToSet(all) BY <2>5 DEF ToSet
      <3> QED BY <3>1
    <2> HIDE DEF full, l
    <2>17. \A k \in 1..l : /\ at[k] \in 1..m + 1
                           /\ buckets[k].package = name(at[k])
                           /\ ToSet(buckets[k].files) =
                                { f \in ToSet(files) : PackageOf(c, f) = name(at[k]) }
      BY <1>4, <1>5, <2>8, <2>14
    <2>18. ASSUME NEW f \in ToSet(files)
           PROVE  Cardinality({ i \in DOMAIN buckets : f \in ToSet(buckets[i].files) }) = 1
      <3>1. PICK i \in 1..m + 1 : name(i) = PackageOf(c, f) BY <1>6, <2>9
      <3>2. f \in ToSet(all[i].files) BY <1>4, <1>5, <2>8, <3>1
      <3>3. all[i].files # <<>>
        <4>1. ToSet(<<>>) = {} BY DEF ToSet
        <4> QED BY <3>2, <4>1
      <3>4. PICK k \in 1..l : at[k] = i BY <2>14, <2>16, <3>3
      <3>5. f \in ToSet(buckets[k].files) BY <2>17, <3>1, <3>4
      <3>6. ASSUME NEW o \in 1..l, f \in ToSet(buckets[o].files) PROVE o = k
        <4>1. name(at[o]) = name(i) BY <2>17, <3>1, <3>6
        <4>2. at[o] = i
          <5>1. at[o] \in 1..m + 1 BY <2>17
          <5>2. ~(at[o] < i) /\ ~(i < at[o]) BY <2>10, <4>1, <5>1
          <5> QED BY <2>3, <5>1, <5>2
        <4>3. ~(o < k) /\ ~(k < o)
          <5>1. o < k => at[o] < at[k] BY <2>14
          <5>2. k < o => at[k] < at[o] BY <2>14
          <5>3. at[o] = at[k] /\ at[o] \in Int BY <2>3, <3>4, <4>2
          <5> QED BY <5>1, <5>2, <5>3
        <4> QED BY <2>15, <4>3
      <3>7. { o \in DOMAIN buckets : f \in ToSet(buckets[o].files) } = {k}
        BY <2>15, <3>5, <3>6
      <3> QED BY <3>7, FS_Singleton
    <2>19. \A i \in DOMAIN buckets : \A f \in ToSet(buckets[i].files) :
             buckets[i].package = PackageOf(c, f)
      BY <2>15, <2>17
    <2> QED BY <2>18, <2>19 DEF buckets
  <1> QED BY <1>7, <1>8

(* The jobs of a lowered hook, as a set.                                   *)
LEMMA LoweredSet ==
  ASSUME NEW r, IsHook(r), NEW jobs, AreLowered(jobs, r)
  PROVE  AreNamed(ToSet(jobs))
  <1> DEFINE n == Len(jobs)
             S == ToSet(jobs)
  <1>1. n \in Nat /\ DOMAIN jobs = 1..n BY DEF AreLowered
  <1>2. S = { jobs[i] : i \in 1..n } BY <1>1 DEF ToSet
  <1>3. IsFiniteSet(S)
    <2>1. IsFiniteSet({ jobs[i] : i \in 1..n }) BY <1>1, FinitelyMany
    <2> QED BY <1>2, <2>1
  <1>4. DOMAIN r.jobs \subseteq Int /\ Order(r) \in Seq(Int)
    BY DEF IsHook, IsJobs, Order
  <1>5. \A name : PriorityOf(Order(r), name) \in Int
    <2>1. \A name : PriorityOf(Order(r), name) \in 0..Len(Order(r)) BY <1>4, PriorityIs
    <2> QED BY <1>4, <2>1
  <1>6. \A i \in 1..n : jobs[i].name \in Int /\ jobs[i].priority \in Int
    <2>1. \A i \in 1..n : /\ jobs[i].name \in DOMAIN r.jobs
                          /\ jobs[i].priority = PriorityOf(Order(r), jobs[i].name)
      BY DEF AreLowered, IsLowered
    <2> QED BY <1>4, <1>5, <2>1
  <1>7. \A i, k \in 1..n : jobs[i].name = jobs[k].name => i = k
    <2> SUFFICES ASSUME NEW i \in 1..n, NEW k \in 1..n, jobs[i].name = jobs[k].name, i # k
                 PROVE  FALSE
      OBVIOUS
    <2>1. i < k \/ k < i BY <1>1
    <2>2. \A a, b \in 1..n : a < b => jobs[a].name # jobs[b].name BY DEF AreLowered
    <2> QED BY <2>1, <2>2
  <1> HIDE DEF n, S
  <1>8. \A x, y \in S : x.name = y.name => x = y BY <1>2, <1>7
  <1>9. \A x \in S : x.name \in Int /\ x.priority \in Int BY <1>2, <1>6
  <1> QED BY <1>3, <1>8, <1>9 DEF AreNamed, S

(* A hook that both levels have runs the package's jobs and those of the   *)
(* root that the package does not replace.                                 *)
LEMMA MergedJobs ==
  ASSUME NEW base, NEW over, AreNamed(ToSet(base.jobs)), AreNamed(ToSet(over.jobs)),
         over.jobs \in Seq(ToSet(over.jobs))
  PROVE  \A j \in ToSet(over.jobs) \cup ToSet(base.jobs) :
           j \in ToSet(MergeHooks(base, over).jobs) \/
             (j \in ToSet(base.jobs) /\ \E k \in ToSet(over.jobs) : k.name = j.name)
  <1> DEFINE names == { over.jobs[i].name : i \in DOMAIN over.jobs }
             O == ToSet(over.jobs)
             R == ToSet(base.jobs)
             S == { j \in R : j.name \notin names } \cup O
             merged == MergeHooks(base, over).jobs
  <1>1. merged = Sorted(S, Before)
    <2> DEFINE sorted == Sorted(S, Before)
    <2> HIDE DEF S, sorted
    <2>1. \A a, b, c, d, e, f : [name |-> a, parallel |-> b, fail_fast |-> c,
            parallel_limit |-> d, stash_untracked |-> e, explicit |-> f,
            jobs |-> sorted].jobs = sorted
      OBVIOUS
    <2> QED BY <2>1, Zenon DEF MergeHooks, S, sorted
  <1>2. names = { k.name : k \in O } BY DEF ToSet
  <1> HIDE DEF names, O, R, merged
  <1>3. AreNamed(O) /\ AreNamed(R) BY DEF O, R
  <1>4. AreNamed(S)
    <2>1. IsFiniteSet(S)
      <3>1. { j \in R : j.name \notin names } \subseteq R OBVIOUS
      <3>2. IsFiniteSet({ j \in R : j.name \notin names })
        BY <1>3, <3>1, FS_Subset DEF AreNamed
      <3> QED BY <1>3, <3>2, FS_Union DEF AreNamed
    <2>2. \A x \in S : x.name \in Int /\ x.priority \in Int BY <1>3 DEF AreNamed
    <2>3. \A x, y \in S : x.name = y.name => x = y BY <1>2, <1>3 DEF AreNamed
    <2> HIDE DEF S
    <2> QED BY <2>1, <2>2, <2>3 DEF AreNamed
  <1>5. S \subseteq ToSet(merged)
    <2> HIDE DEF S
    <2>1. /\ Cardinality(S) \in Nat /\ merged \in Seq(S) /\ Len(merged) = Cardinality(S)
          /\ \A x \in S : \E k \in 1..Cardinality(S) : merged[k] = x
      BY <1>1, <1>4, SortedJobs
    <2>2. DOMAIN merged = 1..Cardinality(S) BY <2>1
    <2> QED BY <2>1, <2>2 DEF ToSet
  <1>6. ASSUME NEW j \in O \cup R
        PROVE  j \in ToSet(merged) \/ (j \in R /\ \E k \in O : k.name = j.name)
    <2>1. CASE j \in S BY <1>5, <2>1
    <2>2. CASE j \notin S BY <1>2, <2>2
    <2> QED BY <2>1, <2>2
  <1> QED BY <1>6 DEF O, R, merged

(* Every staged file falls to one package, the deepest above it, or to the *)
(* root, and a package's hook leaves out no job of its own and none of the *)
(* root's but those it replaces: for any packages and any files.           *)
THEOREM FilesFallToPackages == Spec => []PackagesPartition
  <1>1. PInv => PackagesPartition
    <2> SUFFICES ASSUME PInv, pc = "selecting" PROVE PackagesPartition
      BY DEF PackagesPartition
    <2> DEFINE staged == call.git.staged
               buckets == ResolvePackages(config, staged)
               path(p) == config.packages[p].path
               none == [jobs |-> <<>>]
    <2>1. IsLoaded /\ IsRawConfig(raw) /\ call.git \in Listing
      BY DEF PInv, PlanningOK
    <2>2. /\ DOMAIN config.hooks = DOMAIN raw.hooks
          /\ \A h \in DOMAIN raw.hooks : /\ IsHook(raw.hooks[h])
                                         /\ AreLowered(config.hooks[h].jobs, raw.hooks[h])
          /\ DOMAIN config.packages = DOMAIN raw.packages
          /\ \A p \in DOMAIN raw.packages :
               /\ config.packages[p].path = raw.packages[p].path
               /\ DOMAIN config.packages[p].hooks = DOMAIN raw.packages[p].hooks
               /\ \A h \in DOMAIN raw.packages[p].hooks :
                    /\ IsHook(raw.packages[p].hooks[h])
                    /\ AreLowered(config.packages[p].hooks[h].jobs, raw.packages[p].hooks[h])
      BY <2>1, LoadedIs
    <2>3. ArePackages(config)
      <3>1. /\ IsFiniteSet(DOMAIN raw.packages) /\ DOMAIN raw.packages \subseteq Int \ {0}
            /\ \A p \in DOMAIN raw.packages : raw.packages[p].path \in Seq(STRING)
        BY <2>1 DEF IsRawConfig, IsPackage
      <3>2. \A p \in DOMAIN raw.packages : Len(raw.packages[p].path) \in Nat BY <3>1
      <3> QED BY <2>2, <3>1, <3>2 DEF ArePackages
    <2>4. staged \in Seq(DOMAIN Bytes) BY <2>1 DEF Listing
    <2>5. /\ \A f \in ToSet(staged) :
               Cardinality({ i \in DOMAIN buckets : f \in ToSet(buckets[i].files) }) = 1
          /\ \A i \in DOMAIN buckets : \A f \in ToSet(buckets[i].files) :
               buckets[i].package = PackageOf(config, f)
      BY <2>3, <2>4, BucketsPartition
    <2> HIDE DEF buckets, staged
    <2> DEFINE above(f) == { p \in DOMAIN config.packages : IsPrefix(path(p), f) }
    <2>6. ASSUME NEW i \in DOMAIN buckets, NEW f \in ToSet(buckets[i].files)
          PROVE  LET p == buckets[i].package
                 IN  IF p = 0 THEN above(f) = {}
                     ELSE p \in above(f) /\ \A q \in above(f) : Len(path(q)) <= Len(path(p))
      <3> DEFINE p == buckets[i].package
      <3>1. p = PackageOf(config, f) BY <2>5
      <3>2. above(f) = AboveOf(config, f) BY DEF AboveOf
      <3>3. /\ above(f) = {} => p = 0
            /\ above(f) # {} => /\ p \in above(f)
                                /\ \A q \in above(f) : Len(path(q)) <= Len(path(p))
        BY <2>3, <3>1, <3>2, DeepestPackage
      <3>4. 0 \notin above(f) BY <2>3 DEF ArePackages
      <3> HIDE DEF p, above
      <3>5. IF p = 0 THEN above(f) = {}
            ELSE p \in above(f) /\ \A q \in above(f) : Len(path(q)) <= Len(path(p))
        BY <3>3, <3>4
      <3> QED BY <3>5 DEF p
    <2>7. ASSUME NEW p \in DOMAIN config.packages
          PROVE  LET hook == HookForMatch(config, p, call.hook)
                     own == Get(config.packages[p].hooks, call.hook, none)
                     root == Get(config.hooks, call.hook, none)
                 IN  hook # None =>
                       \A j \in ToSet(own.jobs) \cup ToSet(root.jobs) :
                         j \in ToSet(hook.jobs) \/
                           (j \in ToSet(root.jobs)
                             /\ \E k \in ToSet(own.jobs) : k.name = j.name)
      <3> DEFINE h == call.hook
                 hooks == config.packages[p].hooks
                 hook == HookForMatch(config, p, h)
                 own == Get(hooks, h, none)
                 root == Get(config.hooks, h, none)
                 Right == \A j \in ToSet(own.jobs) \cup ToSet(root.jobs) :
                            j \in ToSet(hook.jobs) \/
                              (j \in ToSet(root.jobs)
                                /\ \E k \in ToSet(own.jobs) : k.name = j.name)
      <3> SUFFICES ASSUME hook # None PROVE Right OBVIOUS
      <3>1. p # 0 /\ p \in DOMAIN raw.packages BY <2>2, <2>3 DEF ArePackages
      <3>2. h \in DOMAIN hooks =>
              /\ own = hooks[h] /\ AreNamed(ToSet(own.jobs))
              /\ own.jobs \in Seq(ToSet(own.jobs))
        <4> SUFFICES ASSUME h \in DOMAIN hooks
                     PROVE  /\ own = hooks[h] /\ AreNamed(ToSet(own.jobs))
                            /\ own.jobs \in Seq(ToSet(own.jobs))
          OBVIOUS
        <4>1. own = hooks[h] BY DEF Get
        <4>2. IsHook(raw.packages[p].hooks[h])
              /\ AreLowered(hooks[h].jobs, raw.packages[p].hooks[h])
          BY <2>2, <3>1
        <4>3. AreNamed(ToSet(hooks[h].jobs)) BY <4>2, LoweredSet
        <4>4. hooks[h].jobs \in Seq(ToSet(hooks[h].jobs)) BY <4>2 DEF AreLowered
        <4> HIDE DEF own
        <4> QED BY <4>1, <4>3, <4>4
      <3>3. h \in DOMAIN config.hooks =>
              root = config.hooks[h] /\ AreNamed(ToSet(root.jobs))
        <4> SUFFICES ASSUME h \in DOMAIN config.hooks
                     PROVE  root = config.hooks[h] /\ AreNamed(ToSet(root.jobs))
          OBVIOUS
        <4>1. root = config.hooks[h] BY DEF Get
        <4>2. IsHook(raw.hooks[h]) /\ AreLowered(config.hooks[h].jobs, raw.hooks[h])
          BY <2>2
        <4>3. AreNamed(ToSet(config.hooks[h].jobs)) BY <4>2, LoweredSet
        <4> HIDE DEF root
        <4> QED BY <4>1, <4>3
      <3>4. /\ h \notin DOMAIN hooks => own = none
            /\ h \notin DOMAIN config.hooks => root = none
        BY DEF Get
      <3>5. ToSet(none.jobs) = {}
        <4>1. none.jobs = <<>> OBVIOUS
        <4> QED BY <4>1 DEF ToSet
      <3>6. hook = CASE h \notin DOMAIN hooks \cup DOMAIN config.hooks -> None
                     [] h \in DOMAIN hooks \cap DOMAIN config.hooks ->
                          MergeHooks(config.hooks[h], hooks[h])
                     [] OTHER -> Laid(hooks, config.hooks)[h]
        <4>1. (IF p = 0 THEN None ELSE hooks) = hooks BY <3>1
        <4> QED BY <4>1, Zenon DEF HookForMatch
      <3> HIDE DEF hook, own, root, hooks, none
      <3>7. CASE h \in DOMAIN hooks /\ h \in DOMAIN config.hooks
        <4>1. hook = MergeHooks(config.hooks[h], hooks[h]) BY <3>6, <3>7
        <4>2. hook = MergeHooks(root, own) BY <3>2, <3>3, <3>7, <4>1
        <4>3. \A j \in ToSet(own.jobs) \cup ToSet(root.jobs) :
                j \in ToSet(MergeHooks(root, own).jobs) \/
                  (j \in ToSet(root.jobs) /\ \E k \in ToSet(own.jobs) : k.name = j.name)
          BY <3>2, <3>3, <3>7, MergedJobs
        <4> QED BY <4>2, <4>3
      <3>8. CASE h \in DOMAIN hooks /\ h \notin DOMAIN config.hooks
        <4>1. hook = Laid(hooks, config.hooks)[h] BY <3>6, <3>8
        <4>2. hook = own BY <3>2, <3>8, <4>1 DEF Laid
        <4> QED BY <3>4, <3>5, <3>8, <4>2
      <3>9. CASE h \notin DOMAIN hooks /\ h \in DOMAIN config.hooks
        <4>1. hook = Laid(hooks, config.hooks)[h] BY <3>6, <3>9
        <4>2. hook = root BY <3>3, <3>9, <4>1 DEF Laid
        <4> QED BY <3>4, <3>5, <3>9, <4>2
      <3>10. CASE h \notin DOMAIN hooks /\ h \notin DOMAIN config.hooks
        BY <3>4, <3>5, <3>10
      <3> QED BY <3>7, <3>8, <3>9, <3>10
    <2> HIDE DEF none, path
    <2> QED BY <2>5, <2>6, <2>7, Zenon DEF PackagesPartition, buckets, staged, path, none
  <1> QED BY <1>1, PlanningInvariance, PTL
=============================================================================
