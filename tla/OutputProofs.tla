---------------------------- MODULE OutputProofs ----------------------------
(***************************************************************************)
(* Theorems about module Output, for any jobs, whatever their commands     *)
(* write, and channels of any capacity.                                    *)
(***************************************************************************)
EXTENDS Output, FiniteSetTheorems, SequenceTheorems,
        WellFoundedInduction, TLAPS

Label == {"idle", "hit", "start", "spawn", "wait", "drain", "finish", "close",
          "diagnose", "done", "error"}

(* The events that a job can be the author of.                             *)
Event ==
  [job : Job \cup {0},
   is : {"started", "line", "finished", "diagnostic", "hit", "summary"},
   cmd : Nat, stream : {"out", "err", "ok", "failed", "aborted"}, n : Nat]

Count == [Stream -> Nat]

MainType ==
  /\ hook \in [parallel : BOOLEAN, fail_fast : BOOLEAN]
  /\ main \in {"running", "replaying", "closing", "returned", "error"}
  /\ replay \in [job : Job \cup {0}, cmd : Nat, at : {"start", "lines", "over"}, left : Count]
  /\ main = "replaying" => replay.job \in Job
  /\ joined \subseteq Job /\ cancel \in BOOLEAN /\ failed \subseteq Job

TaskType ==
  /\ pc \in [Job -> Label] /\ cmd \in [Job -> Nat]
  /\ exit \in [Job -> {"ok", "failed", "aborted"}]
  /\ child \in [Job -> {"none", "running", "exited", "killed"}]
  /\ unread \in [Job -> Count] /\ reader \in [Job -> [Stream -> BOOLEAN]]

CaptureType ==
  /\ local \in [Job -> Seq(Event)] /\ held \in [Job -> Seq(Event)]
  /\ tee \in [Job -> BOOLEAN] /\ captured \in [Job -> Seq(Event)]

TerminalType ==
  /\ queue \in Seq(Event) /\ printed \in [Job -> Seq(Event)] /\ summary \in BOOLEAN

TypeOK == MainType /\ TaskType /\ CaptureType /\ TerminalType

-----------------------------------------------------------------------------

(* What has left the tee of a job, in its order, and with it what is still *)
(* in the local channel: all that the job has said.                        *)
Passed(j) == printed[j] \o queue \o held[j]
SaidSoFar(j) == Said(Passed(j), j) \o local[j]

Tells(said, kind, c) == \E i \in DOMAIN said : said[i].is = kind /\ said[i].cmd = c

TellsLine(said, c, s, n) ==
  \E i \in DOMAIN said : /\ said[i].is = "line" /\ said[i].cmd = c
                         /\ said[i].stream = s /\ said[i].n = n

(* Where a run is: before its command c, within it, with k lines of a      *)
(* stream told, or at its end.                                             *)
Before(j, said, c) ==
  /\ c \in DOMAIN Work[j].commands
  /\ \A i \in DOMAIN said : said[i].cmd < c
  /\ c = 1 \/ Tells(said, "finished", c - 1)

Within(j, said, c) ==
  /\ c \in DOMAIN Work[j].commands
  /\ \A i \in DOMAIN said : said[i].cmd <= c
  /\ Tells(said, "started", c) /\ ~Tells(said, "finished", c)

Told(said, c, s, k) == \A n \in Nat : TellsLine(said, c, s, n) <=> n \in 1..k

AtEnd(said) == said # <<>> /\ said[Len(said)].is = "finished"

Lines(j, c) == Work[j].commands[c]

(* How far a task has come with its run.                                   *)
TaskInv(j) ==
  LET said == SaidSoFar(j)
  IN  /\ pc[j] = "idle" => said = <<>> /\ cmd[j] = 1
      /\ pc[j] = "start" => Before(j, said, cmd[j])
      /\ pc[j] = "spawn" =>
           Within(j, said, cmd[j]) /\ \A s \in Stream : Told(said, cmd[j], s, 0)
      /\ pc[j] \in {"wait", "drain", "finish"} => Within(j, said, cmd[j])
      /\ \A s \in Stream : reader[j][s] =>
           /\ Within(j, said, cmd[j])
           /\ unread[j][s] <= Lines(j, cmd[j])[s]
           /\ Told(said, cmd[j], s, Lines(j, cmd[j])[s] - unread[j][s])
      /\ \A s \in Stream :
           ~reader[j][s] /\ pc[j] \in {"drain", "finish"} /\ exit[j] # "aborted" =>
             Told(said, cmd[j], s, Lines(j, cmd[j])[s])
      /\ pc[j] \in {"close", "diagnose", "done"} => AtEnd(said)

(* Where the readers are, and the tee.                                     *)
ReaderInv(j) ==
  /\ \A s \in Stream : reader[j][s] =>
       /\ pc[j] \in {"wait", "drain", "error"}
       /\ pc[j] = "drain" => child[j] = "exited" /\ exit[j] # "aborted"
       /\ pc[j] = "error" => child[j] = "killed"
  /\ pc[j] = "wait" => child[j] = "running" /\ \A s \in Stream : reader[j][s]

TeeInv(j) ==
  /\ ~tee[j] => local[j] = <<>> /\ held[j] = <<>>
  /\ tee[j] => hook.parallel
  /\ hook.parallel /\ (TaskHolds(j) \/ \E s \in Stream : reader[j][s]) => tee[j]
  /\ pc[j] \in {"idle", "hit", "diagnose", "done"} => ~tee[j]
  /\ pc[j] = "hit" => hook.parallel
  /\ pc[j] = "close" => hook.parallel
  /\ \A i \in DOMAIN local[j] : OfRun(local[j][i], j)
  /\ held[j] # <<>> => Len(held[j]) = 1 /\ OfRun(held[j][1], j)

ReplayInv(j) ==
  LET said == SaidSoFar(j)
      c == replay.cmd
  IN  pc[j] = "hit" =>
        IF main = "replaying" /\ replay.job = j
        THEN /\ replay.at = "start" => Before(j, said, c)
             /\ replay.at = "lines" =>
                  /\ Within(j, said, c)
                  /\ \A s \in Stream : /\ replay.left[s] <= Lines(j, c)[s]
                                       /\ Told(said, c, s, Lines(j, c)[s] - replay.left[s])
             /\ replay.at = "over" => AtEnd(said)
        ELSE AtEnd(said)

CaptureInv(j) ==
  hook.parallel /\ pc[j] # "hit" => captured[j] = Said(Passed(j), j)

JobInv(j) ==
  /\ IsRun(j, SaidSoFar(j))
  /\ TaskInv(j) /\ ReaderInv(j) /\ TeeInv(j) /\ ReplayInv(j) /\ CaptureInv(j)

MainInv ==
  /\ main = "replaying" => pc[replay.job] = "hit"
  /\ main \in {"closing", "returned"} =>
       summary \/ \E i \in DOMAIN queue : queue[i] = Summary
  /\ main = "returned" => WriterEnded
  /\ \A i \in DOMAIN queue : queue[i] = Summary \/ queue[i].job \in Job

IInv == TypeOK /\ MainInv /\ \A j \in Job : JobInv(j)

-----------------------------------------------------------------------------
(* Counting the events of a run.                                           *)

LEMMA LeastNatural ==
  ASSUME NEW T, T \subseteq Nat, T # {}
  PROVE  \E x \in T : \A y \in T : x <= y
  <1> DEFINE Less == {e \in Nat \X Nat : e[1] < e[2]}
  <1>1. IsWellFoundedOn(Less, Nat)
    BY NatLessThanWellFounded DEF OpToRel
  <1>2. \E x \in T : \A y \in T : <<y, x>> \notin Less
    <2> HIDE DEF Less
    <2> QED BY <1>1, WFMin
  <1>3. PICK x \in T : \A y \in T : <<y, x>> \notin Less
    BY <1>2
  <1>4. ASSUME NEW y \in T PROVE x <= y
    <2>1. x \in Nat /\ y \in Nat /\ ~(y < x)
      BY <1>3
    <2> QED BY <2>1
  <1> QED BY <1>4

LEMMA RankFacts ==
  ASSUME NEW events, NEW j, NEW i \in Nat
  PROVE  /\ Rank(events, j, i) \in Nat
         /\ Rank(events, j, 0) = 0
         /\ Rank(events, j, i + 1) =
              IF OfRun(events[i + 1], j) THEN Rank(events, j, i) + 1
                                         ELSE Rank(events, j, i)
  <1> DEFINE R(k) == { h \in 1..k : OfRun(events[h], j) }
  <1>1. ASSUME NEW k \in Nat PROVE IsFiniteSet(R(k)) /\ Cardinality(R(k)) \in Nat
    <2>1. R(k) \in SUBSET (1..k) /\ 1 \in Int /\ k \in Int OBVIOUS
    <2> HIDE DEF R
    <2>2. IsFiniteSet(R(k)) BY <2>1, FS_Interval, FS_Subset
    <2> QED BY <2>2, FS_CardinalityType
  <1>2. R(0) = {} OBVIOUS
  <1>3. OfRun(events[i + 1], j) => R(i + 1) = R(i) \cup {i + 1} /\ i + 1 \notin R(i)
    OBVIOUS
  <1>4. ASSUME ~OfRun(events[i + 1], j) PROVE R(i + 1) = R(i)
    <2>1. \A h \in 1..(i + 1) : h = i + 1 \/ h \in 1..i OBVIOUS
    <2> QED BY <1>4, <2>1
  <1>5. Cardinality(R(0)) = 0 BY <1>2, FS_EmptySet
  <1>6. OfRun(events[i + 1], j) => Cardinality(R(i + 1)) = Cardinality(R(i)) + 1
    BY <1>1, <1>3, FS_AddElement
  <1>7. ~OfRun(events[i + 1], j) => Cardinality(R(i + 1)) = Cardinality(R(i))
    BY <1>4
  <1>8. \A k \in Nat : Rank(events, j, k) = Cardinality(R(k)) BY DEF Rank
  <1>9. i + 1 \in Nat /\ 0 \in Nat OBVIOUS
  <1> HIDE DEF R
  <1> QED BY <1>1, <1>5, <1>6, <1>7, <1>8, <1>9

LEMMA RankMonotone ==
  ASSUME NEW events, NEW j, NEW i \in Nat, NEW k \in Nat
  PROVE  /\ i <= k => Rank(events, j, i) <= Rank(events, j, k)
         /\ i < k /\ OfRun(events[k], j) => Rank(events, j, i) < Rank(events, j, k)
  <1> DEFINE R(n) == { h \in 1..n : OfRun(events[h], j) }
  <1>1. ASSUME NEW m \in Nat, NEW n \in Nat, m <= n
        PROVE  Cardinality(R(m)) <= Cardinality(R(n))
    <2>1. R(m) \in SUBSET R(n) BY <1>1
    <2>2. R(n) \in SUBSET (1..n) /\ 1 \in Int /\ n \in Int OBVIOUS
    <2> HIDE DEF R
    <2>3. IsFiniteSet(R(n)) BY <2>2, FS_Interval, FS_Subset
    <2> QED BY <2>1, <2>3, FS_Subset
  <1>2. \A n \in Nat : Rank(events, j, n) = Cardinality(R(n)) BY DEF Rank
  <1>3. CASE i < k /\ OfRun(events[k], j)
    <2>1. k - 1 \in Nat /\ i <= k - 1 /\ k = (k - 1) + 1 BY <1>3
    <2>2. Rank(events, j, i) <= Rank(events, j, k - 1) BY <1>1, <1>2, <2>1
    <2>3. Rank(events, j, k) = Rank(events, j, k - 1) + 1
      BY <1>3, <2>1, RankFacts
    <2>4. Rank(events, j, i) \in Nat /\ Rank(events, j, k - 1) \in Nat
      BY <2>1, RankFacts
    <2> HIDE DEF R
    <2> QED BY <1>1, <1>2, <1>3, <2>2, <2>3, <2>4
  <1>4. CASE ~(i < k /\ OfRun(events[k], j)) BY <1>1, <1>2, <1>4
  <1> QED BY <1>3, <1>4

LEMMA RankOnto ==
  ASSUME NEW events, NEW j, NEW n \in Nat, NEW k \in 1..Rank(events, j, n)
  PROVE  \E i \in 1..n : OfRun(events[i], j) /\ Rank(events, j, i) = k
  <1> DEFINE T == { i \in 0..n : k <= Rank(events, j, i) }
  <1>0. \A i \in Nat : Rank(events, j, i) \in Nat BY RankFacts
  <1>1. n \in T BY <1>0
  <1>2. \E i \in T : \A h \in T : i <= h
    <2>1. T \subseteq Nat /\ T # {} BY <1>1
    <2> HIDE DEF T
    <2> QED BY <2>1, LeastNatural
  <1>e. PICK i \in T : \A h \in T : i <= h BY <1>2
  <1>3. i # 0 BY RankFacts, <1>0
  <1>4. i - 1 \in Nat /\ i = (i - 1) + 1 /\ i \in 1..n /\ i - 1 \in 0..n BY <1>3
  <1>5. i - 1 \notin T BY <1>e, <1>4
  <1>6. Rank(events, j, i - 1) < k BY <1>0, <1>4, <1>5
  <1>7. Rank(events, j, i) = IF OfRun(events[i], j) THEN Rank(events, j, i - 1) + 1
                                                  ELSE Rank(events, j, i - 1)
    BY <1>4, RankFacts
  <1>8. k <= Rank(events, j, i) OBVIOUS
  <1>9. Rank(events, j, i - 1) \in Nat /\ k \in Nat BY <1>0, <1>4
  <1> QED BY <1>4, <1>6, <1>7, <1>8, <1>9

LEMMA SaidFacts ==
  ASSUME NEW events \in Seq(Event), NEW j
  PROVE  /\ Said(events, j) \in Seq(Event)
         /\ Len(Said(events, j)) = Rank(events, j, Len(events))
         /\ \A k \in 1..Len(Said(events, j)) : \E i \in 1..Len(events) :
              /\ OfRun(events[i], j) /\ Rank(events, j, i) = k
              /\ Said(events, j)[k] = events[i]
         /\ \A i \in 1..Len(events) : OfRun(events[i], j) =>
              /\ Rank(events, j, i) \in 1..Len(Said(events, j))
              /\ Said(events, j)[Rank(events, j, i)] = events[i]
  <1> DEFINE n == Len(events)
             r == Rank(events, j, n)
             At(k) == CHOOSE i \in DOMAIN events :
                        OfRun(events[i], j) /\ Rank(events, j, i) = k
  <1>1. n \in Nat /\ DOMAIN events = 1..n /\ r \in Nat BY RankFacts
  <1>2. ASSUME NEW k \in 1..r
        PROVE  At(k) \in 1..n /\ OfRun(events[At(k)], j) /\ Rank(events, j, At(k)) = k
    <2> HIDE DEF n
    <2>1. \E i \in 1..n : OfRun(events[i], j) /\ Rank(events, j, i) = k
      BY <1>1, RankOnto
    <2> QED BY <1>1, <2>1
  <1>3. Said(events, j) = [k \in 1..r |-> events[At(k)]] BY DEF Said
  <1> HIDE DEF n, r, At
  <1>4. ASSUME NEW k \in 1..r PROVE events[At(k)] \in Event
    BY <1>1, <1>2, ElementOfSeq DEF n
  <1>5. Said(events, j) \in Seq(Event) /\ Len(Said(events, j)) = r
    BY <1>1, <1>3, <1>4
  <1>6. \A k \in 1..r : Said(events, j)[k] = events[At(k)] BY <1>3
  <1>7. ASSUME NEW i \in 1..n, OfRun(events[i], j)
        PROVE  Rank(events, j, i) \in 1..r /\ events[At(Rank(events, j, i))] = events[i]
    <2>1. i \in Nat /\ 0 \in Nat /\ 0 < i /\ i <= n BY <1>1
    <2>2. Rank(events, j, 0) = 0 /\ Rank(events, j, i) \in Nat BY <2>1, RankFacts
    <2>3. Rank(events, j, 0) < Rank(events, j, i) /\ Rank(events, j, i) <= r
      BY <1>1, <1>7, <2>1, RankMonotone DEF r
    <2>4. Rank(events, j, i) \in 1..r BY <1>1, <2>2, <2>3
    <2> DEFINE h == At(Rank(events, j, i))
    <2>5. h \in 1..n /\ OfRun(events[h], j) /\ Rank(events, j, h) = Rank(events, j, i)
      BY <1>2, <2>4
    <2> HIDE DEF h
    <2>6. h = i
      <3>1. h \in Nat BY <1>1, <2>5
      <3>2. h < i => Rank(events, j, h) < Rank(events, j, i)
        BY <1>7, <2>1, <3>1, RankMonotone
      <3>3. i < h => Rank(events, j, i) < Rank(events, j, h)
        BY <2>1, <2>5, <3>1, RankMonotone
      <3> QED BY <2>1, <2>2, <2>5, <3>1, <3>2, <3>3
    <2> QED BY <2>4, <2>6 DEF h
  <1>8. ASSUME NEW k \in 1..r
        PROVE  \E i \in 1..n : /\ OfRun(events[i], j) /\ Rank(events, j, i) = k
                               /\ Said(events, j)[k] = events[i]
    BY <1>2, <1>6
  <1>9. ASSUME NEW i \in 1..n, OfRun(events[i], j)
        PROVE  /\ Rank(events, j, i) \in 1..r
               /\ Said(events, j)[Rank(events, j, i)] = events[i]
    BY <1>6, <1>7, <1>9
  <1> QED BY <1>5, <1>8, <1>9 DEF n, r

LEMMA SaidElement ==
  ASSUME NEW events \in Seq(Event), NEW j, NEW k \in 1..Len(Said(events, j))
  PROVE  \E i \in 1..Len(events) : /\ OfRun(events[i], j) /\ Rank(events, j, i) = k
                                   /\ Said(events, j)[k] = events[i]
  BY SaidFacts

LEMMA SaidPlace ==
  ASSUME NEW events \in Seq(Event), NEW j, NEW i \in 1..Len(events),
         OfRun(events[i], j)
  PROVE  /\ Rank(events, j, i) \in 1..Len(Said(events, j))
         /\ Said(events, j)[Rank(events, j, i)] = events[i]
  BY SaidFacts

LEMMA SaidType ==
  ASSUME NEW events \in Seq(Event), NEW j
  PROVE  Said(events, j) \in Seq(Event) /\ Len(Said(events, j)) = Rank(events, j, Len(events))
  BY SaidFacts

(* There is only one sequence of the events of a job in their order.       *)
LEMMA SaidUnique ==
  ASSUME NEW events \in Seq(Event), NEW j, NEW said \in Seq(Event),
         Len(said) = Rank(events, j, Len(events)),
         \A i \in 1..Len(events) :
           OfRun(events[i], j) => said[Rank(events, j, i)] = events[i]
  PROVE  said = Said(events, j)
  <1>1. \A k \in 1..Len(said) : said[k] = Said(events, j)[k]
    BY SaidElement, SaidType
  <1> QED BY <1>1, SaidType, SeqEqual

LEMMA RankWithin ==
  ASSUME NEW s, NEW t, NEW j, NEW n \in Nat, \A h \in 1..n : t[h] = s[h]
  PROVE  Rank(t, j, n) = Rank(s, j, n)
  <1>1. { h \in 1..n : OfRun(t[h], j) } = { h \in 1..n : OfRun(s[h], j) } OBVIOUS
  <1> QED BY <1>1 DEF Rank

(* One more event at the end.                                              *)
LEMMA SaidAppend ==
  ASSUME NEW events \in Seq(Event), NEW j, NEW e \in Event
  PROVE  Said(Append(events, e), j) =
           IF OfRun(e, j) THEN Append(Said(events, j), e) ELSE Said(events, j)
  <1> DEFINE n == Len(events)
             more == Append(events, e)
             said == IF OfRun(e, j) THEN Append(Said(events, j), e) ELSE Said(events, j)
  <1>1. /\ n \in Nat /\ more \in Seq(Event) /\ Len(more) = n + 1 /\ more[n + 1] = e
        /\ \A i \in 1..n : more[i] = events[i]
    OBVIOUS
  <1>2. Said(events, j) \in Seq(Event) /\ Len(Said(events, j)) = Rank(events, j, n)
    BY SaidType
  <1>3. ASSUME NEW i \in 0..n PROVE Rank(more, j, i) = Rank(events, j, i)
    <2> HIDE DEF more
    <2> QED BY <1>1, RankWithin
  <1>4. /\ Rank(more, j, n) = Rank(events, j, n) /\ Rank(events, j, n) \in Nat
        /\ Rank(more, j, n + 1) = IF OfRun(e, j) THEN Rank(events, j, n) + 1
                                                ELSE Rank(events, j, n)
    <2> HIDE DEF more, n
    <2>1. n \in 0..n BY <1>1
    <2> QED BY <1>1, <1>3, <2>1, RankFacts
  <1>5. said \in Seq(Event) /\ Len(said) = Rank(more, j, Len(more))
    BY <1>1, <1>2, <1>4
  <1>6. ASSUME NEW i \in 1..Len(more), OfRun(more[i], j)
        PROVE  said[Rank(more, j, i)] = more[i]
    <2>1. CASE i \in 1..n
      <3>1. OfRun(events[i], j) /\ Rank(more, j, i) = Rank(events, j, i)
        BY <1>1, <1>3, <1>6, <2>1
      <3>2. /\ Rank(events, j, i) \in 1..Len(Said(events, j))
            /\ Said(events, j)[Rank(events, j, i)] = events[i]
        BY <2>1, <3>1, SaidPlace
      <3> QED BY <1>1, <1>2, <2>1, <3>1, <3>2
    <2>2. CASE i = n + 1 BY <1>1, <1>2, <1>4, <1>6, <2>2
    <2>3. i \in 1..n \/ i = n + 1 BY <1>1
    <2> QED BY <2>1, <2>2, <2>3
  <1> HIDE DEF said, more, n
  <1>7. said = Said(more, j) BY <1>1, <1>5, <1>6, SaidUnique
  <1> QED BY <1>7 DEF said, more

LEMMA RankBeyond ==
  ASSUME NEW a \in Seq(Event), NEW b \in Seq(Event), NEW j, NEW e \in Event, ~OfRun(e, j),
         NEW n \in Len(a)..(Len(a) + Len(b))
  PROVE  Rank(a \o <<e>> \o b, j, n + 1) = Rank(a \o b, j, n)
  <1> DEFINE s == a \o b
             t == a \o <<e>> \o b
             R == { h \in 1..n : OfRun(s[h], j) }
             T == { h \in 1..(n + 1) : OfRun(t[h], j) }
             f == [h \in R |-> IF h <= Len(a) THEN h ELSE h + 1]
  <1>1. /\ n \in Nat /\ Len(a) \in Nat /\ Len(b) \in Nat
        /\ \A h \in 1..Len(a) : s[h] = a[h] /\ t[h] = a[h]
        /\ t[Len(a) + 1] = e
        /\ \A h \in (Len(a) + 1)..(Len(a) + Len(b)) : s[h] = t[h + 1]
    OBVIOUS
  <1> HIDE DEF s, t
  <1>2. ASSUME NEW h \in R PROVE f[h] \in T BY <1>1
  <1>3. ASSUME NEW h \in R, NEW g \in R, f[h] = f[g] PROVE h = g BY <1>1, <1>3
  <1>4. ASSUME NEW h \in T PROVE \E g \in R : f[g] = h
    <2>1. CASE h <= Len(a) BY <1>1, <2>1
    <2>2. CASE h > Len(a)
      <3>1. h # Len(a) + 1 BY <1>1
      <3>2. h - 1 \in R BY <1>1, <2>2, <3>1
      <3>3. f[h - 1] = h BY <1>1, <2>2, <3>1, <3>2
      <3> QED BY <3>2, <3>3
    <2> QED BY <1>1, <2>1, <2>2
  <1>5. R \in SUBSET (1..n) /\ 1 \in Int /\ n \in Int BY <1>1
  <1>6. f \in [R -> T] BY <1>2
  <1> HIDE DEF R, T, f
  <1>7. IsFiniteSet(R) BY <1>5, FS_Interval, FS_Subset
  <1>8. f \in Bijection(R, T)
    <2>1. f \in Injection(R, T) BY <1>3, <1>6 DEF Injection, IsInjective
    <2>2. f \in Surjection(R, T) BY <1>4, <1>6 DEF Surjection
    <2> QED BY <2>1, <2>2 DEF Bijection
  <1>9. Cardinality(T) = Cardinality(R)
    BY <1>7, <1>8, FS_Bijection DEF ExistsBijection
  <1> QED BY <1>9 DEF Rank, R, T, s, t

(* One more event somewhere, which is not the job's.                       *)
LEMMA SaidInsert ==
  ASSUME NEW a \in Seq(Event), NEW b \in Seq(Event), NEW j, NEW e \in Event, ~OfRun(e, j)
  PROVE  Said(a \o <<e>> \o b, j) = Said(a \o b, j)
  <1> DEFINE s == a \o b
             t == a \o <<e>> \o b
  <1>1. /\ s \in Seq(Event) /\ t \in Seq(Event) /\ Len(a) \in Nat /\ Len(b) \in Nat
        /\ Len(s) = Len(a) + Len(b) /\ Len(t) = Len(s) + 1
        /\ \A h \in 1..Len(a) : s[h] = t[h]
        /\ t[Len(a) + 1] = e
        /\ \A h \in (Len(a) + 1)..(Len(a) + Len(b)) : s[h] = t[h + 1]
    OBVIOUS
  <1>2. \A n \in Len(a)..(Len(a) + Len(b)) : Rank(t, j, n + 1) = Rank(s, j, n)
    BY RankBeyond
  <1> HIDE DEF s, t
  <1>3. ASSUME NEW n \in 1..Len(a) PROVE Rank(t, j, n) = Rank(s, j, n)
    <2>1. n \in Nat /\ \A h \in 1..n : t[h] = s[h] BY <1>1
    <2> QED BY <2>1, RankWithin
  <1>4. /\ Said(t, j) \in Seq(Event) /\ Len(Said(t, j)) = Rank(s, j, Len(s))
    <2>1. Len(s) \in Len(a)..(Len(a) + Len(b)) BY <1>1
    <2>2. Rank(t, j, Len(t)) = Rank(s, j, Len(s)) BY <1>1, <1>2, <2>1
    <2> QED BY <1>1, <2>2, SaidType
  <1>5. ASSUME NEW i \in 1..Len(s), OfRun(s[i], j)
        PROVE  Said(t, j)[Rank(s, j, i)] = s[i]
    <2>1. CASE i <= Len(a)
      <3>1. i \in 1..Len(t) /\ i \in 1..Len(a) /\ t[i] = s[i] BY <1>1, <2>1
      <3>2. OfRun(t[i], j) /\ Rank(t, j, i) = Rank(s, j, i) BY <1>3, <1>5, <3>1
      <3>3. Said(t, j)[Rank(t, j, i)] = t[i] BY <1>1, <3>1, <3>2, SaidPlace
      <3> QED BY <3>1, <3>2, <3>3
    <2>2. CASE i > Len(a)
      <3>1. /\ i + 1 \in 1..Len(t) /\ i \in (Len(a) + 1)..(Len(a) + Len(b))
            /\ i \in Len(a)..(Len(a) + Len(b)) /\ t[i + 1] = s[i]
        BY <1>1, <2>2
      <3>2. OfRun(t[i + 1], j) /\ Rank(t, j, i + 1) = Rank(s, j, i)
        BY <1>2, <1>5, <3>1
      <3>3. /\ OfRun(t[i + 1], j) /\ i + 1 \in 1..Len(t) /\ t \in Seq(Event)
            /\ Rank(t, j, i + 1) = Rank(s, j, i) /\ t[i + 1] = s[i]
        BY <1>1, <3>1, <3>2
      <3>4. Said(t, j)[Rank(t, j, i + 1)] = t[i + 1] BY <3>3, SaidPlace
      <3> QED BY <3>3, <3>4
    <2> QED BY <1>1, <2>1, <2>2
  <1>6. Said(t, j) = Said(s, j) BY <1>1, <1>4, <1>5, SaidUnique
  <1> QED BY <1>6 DEF s, t

(* What is said first is the beginning of all that is said.                *)
LEMMA SaidPrefix ==
  ASSUME NEW a \in Seq(Event), NEW b \in Seq(Event), NEW j
  PROVE  /\ Len(Said(a, j)) <= Len(Said(a \o b, j))
         /\ \A k \in 1..Len(Said(a, j)) : Said(a, j)[k] = Said(a \o b, j)[k]
  <1> DEFINE s == a \o b
  <1>1. /\ s \in Seq(Event) /\ Len(a) \in Nat /\ Len(s) \in Nat /\ Len(a) <= Len(s)
        /\ \A h \in 1..Len(a) : s[h] = a[h]
    OBVIOUS
  <1> HIDE DEF s
  <1>2. \A n \in 0..Len(a) : Rank(s, j, n) = Rank(a, j, n) BY <1>1, RankWithin
  <1>3. Rank(a, j, Len(a)) <= Rank(s, j, Len(s)) BY <1>1, <1>2, RankMonotone
  <1>4. ASSUME NEW k \in 1..Len(Said(a, j)) PROVE Said(a, j)[k] = Said(s, j)[k]
    <2>1. PICK i \in 1..Len(a) : /\ OfRun(a[i], j) /\ Rank(a, j, i) = k
                                 /\ Said(a, j)[k] = a[i]
      BY SaidElement
    <2>2. i \in 1..Len(s) /\ i \in 0..Len(a) /\ s[i] = a[i] BY <1>1
    <2>3. OfRun(s[i], j) /\ Rank(s, j, i) = k BY <1>2, <2>1, <2>2
    <2> QED BY <1>1, <2>1, <2>2, <2>3, SaidPlace
  <1> QED BY <1>1, <1>3, <1>4, SaidType DEF s

-----------------------------------------------------------------------------
(* How a run grows.                                                        *)

LEMMA Appended ==
  ASSUME NEW S, NEW s \in Seq(S), NEW e \in S
  PROVE  /\ Append(s, e) \in Seq(S)
         /\ Len(Append(s, e)) = Len(s) + 1 /\ Len(s) \in Nat
         /\ DOMAIN s = 1..Len(s) /\ DOMAIN Append(s, e) = 1..(Len(s) + 1)
         /\ \A i \in 1..Len(s) : Append(s, e)[i] = s[i]
         /\ Append(s, e)[Len(s) + 1] = e
  OBVIOUS

LEMMA EventFacts ==
  ASSUME NEW e \in Event
  PROVE  /\ e.cmd \in Nat /\ e.n \in Nat
         /\ e.is \in {"started", "line", "finished", "diagnostic", "hit", "summary"}
         /\ e.stream \in {"out", "err", "ok", "failed", "aborted"}
  BY DEF Event

LEMMA WorkFacts ==
  ASSUME NEW j \in Job
  PROVE  /\ Work[j].commands \in Seq(Count)
         /\ DOMAIN Work[j].commands = 1..Len(Work[j].commands)
         /\ Len(Work[j].commands) \in Nat /\ 1 \in DOMAIN Work[j].commands
         /\ \A c \in DOMAIN Work[j].commands :
              Lines(j, c) \in Count /\ c \in Nat /\ \A s \in Stream : Lines(j, c)[s] \in Nat
  BY WorkAssumption DEF Lines, Count

(* What an event follows is settled by what comes before it.               *)
LEMMA FollowsWithin ==
  ASSUME NEW j, NEW s, NEW t, NEW k \in Nat, \A i \in 1..k : t[i] = s[i], k # 0,
         Follows(j, s, k)
  PROVE  Follows(j, t, k)
  <1>1. t[k] = s[k] /\ \A i \in 1..(k - 1) : t[i] = s[i] OBVIOUS
  <1> QED BY <1>1 DEF Follows

LEMMA RunAppend ==
  ASSUME NEW j \in Job, NEW said \in Seq(Event), NEW e \in Event, IsRun(j, said),
         e.cmd \in DOMAIN Work[j].commands,
         e.is = "line" => e.n \in 1..Lines(j, e.cmd)[e.stream],
         Follows(j, Append(said, e), Len(said) + 1),
         \A i \in 1..Len(said) : Precedes(said[i], e)
  PROVE  IsRun(j, Append(said, e))
  <1> DEFINE more == Append(said, e)
             n == Len(said)
  <1>1. /\ n \in Nat /\ DOMAIN said = 1..n /\ DOMAIN more = 1..(n + 1)
        /\ \A i \in 1..n : more[i] = said[i]
        /\ more[n + 1] = e
    BY Appended
  <1>2. Follows(j, more, n + 1) /\ \A i \in 1..n : Precedes(said[i], e) OBVIOUS
  <1> HIDE DEF more, n
  <1>3. ASSUME NEW k \in 1..(n + 1)
        PROVE  /\ more[k].cmd \in DOMAIN Work[j].commands
               /\ more[k].is = "line" =>
                    more[k].n \in 1..Work[j].commands[more[k].cmd][more[k].stream]
               /\ Follows(j, more, k)
               /\ \A i \in 1..(k - 1) : Precedes(more[i], more[k])
    <2>1. CASE k = n + 1 BY <1>1, <1>2, <2>1 DEF Lines
    <2>2. CASE k # n + 1
      <3>1. k \in 1..n /\ k \in Nat /\ k # 0 /\ \A i \in 1..k : i \in 1..n /\ more[i] = said[i]
        BY <1>1, <2>2
      <3>2. Follows(j, said, k) BY <1>1, <3>1 DEF IsRun
      <3>3. Follows(j, more, k) BY <3>1, <3>2, FollowsWithin
      <3>4. \A i \in 1..(k - 1) : i \in 1..k BY <3>1
      <3>5. \A i \in 1..(k - 1) : Precedes(said[i], said[k]) BY <1>1, <3>1 DEF IsRun
      <3> QED BY <1>1, <3>1, <3>3, <3>4, <3>5 DEF IsRun
    <2> QED BY <2>1, <2>2
  <1>4. IsRun(j, more) BY <1>1, <1>3 DEF IsRun
  <1> QED BY <1>4 DEF more

(* The beginning of a run is one.                                          *)
LEMMA RunPrefix ==
  ASSUME NEW j \in Job, NEW said \in Seq(Event), NEW part \in Seq(Event),
         IsRun(j, said), Len(part) <= Len(said),
         \A k \in 1..Len(part) : part[k] = said[k]
  PROVE  IsRun(j, part)
  <1>1. ASSUME NEW k \in 1..Len(part)
        PROVE  /\ part[k].cmd \in DOMAIN Work[j].commands
               /\ part[k].is = "line" =>
                    part[k].n \in 1..Work[j].commands[part[k].cmd][part[k].stream]
               /\ Follows(j, part, k)
               /\ \A i \in 1..(k - 1) : Precedes(part[i], part[k])
    <2>1. /\ k \in Nat /\ k # 0 /\ k \in DOMAIN said
          /\ \A i \in 1..k : i \in 1..Len(part) /\ part[i] = said[i]
      OBVIOUS
    <2>2. Follows(j, said, k) BY <2>1 DEF IsRun
    <2>3. Follows(j, part, k) BY <2>1, <2>2, FollowsWithin
    <2>4. \A i \in 1..(k - 1) : i \in 1..k BY <2>1
    <2>5. \A i \in 1..(k - 1) : Precedes(said[i], said[k]) BY <2>1 DEF IsRun
    <2> QED BY <2>1, <2>3, <2>4, <2>5 DEF IsRun
  <1>2. DOMAIN part = 1..Len(part) OBVIOUS
  <1> QED BY <1>1, <1>2 DEF IsRun

(* What has been told of a run that has grown by an event.                 *)
LEMMA ToldAppend ==
  ASSUME NEW said \in Seq(Event), NEW e \in Event
  PROVE  /\ \A kind, c : Tells(Append(said, e), kind, c) <=>
                           Tells(said, kind, c) \/ (e.is = kind /\ e.cmd = c)
         /\ \A c, s, n : TellsLine(Append(said, e), c, s, n) <=>
                           \/ TellsLine(said, c, s, n)
                           \/ e.is = "line" /\ e.cmd = c /\ e.stream = s /\ e.n = n
  <1> DEFINE more == Append(said, e)
             m == Len(said)
  <1>1. /\ m \in Nat /\ DOMAIN said = 1..m /\ DOMAIN more = 1..(m + 1)
        /\ \A i \in 1..m : more[i] = said[i]
        /\ more[m + 1] = e
    BY Appended
  <1> HIDE DEF more, m
  <1>2. \A i \in DOMAIN more : i \in DOMAIN said \/ i = m + 1 BY <1>1
  <1>3. \A i \in DOMAIN said : i \in DOMAIN more BY <1>1
  <1>4. m + 1 \in DOMAIN more BY <1>1
  <1>5. ASSUME NEW kind, NEW c
        PROVE  Tells(more, kind, c) <=> Tells(said, kind, c) \/ (e.is = kind /\ e.cmd = c)
    BY <1>1, <1>2, <1>3, <1>4 DEF Tells
  <1>6. ASSUME NEW c, NEW s, NEW n
        PROVE  TellsLine(more, c, s, n) <=>
                 \/ TellsLine(said, c, s, n)
                 \/ e.is = "line" /\ e.cmd = c /\ e.stream = s /\ e.n = n
    BY <1>1, <1>2, <1>3, <1>4 DEF TellsLine
  <1> QED BY <1>5, <1>6 DEF more

LEMMA EventsOfRuns ==
  ASSUME NEW j \in Job, NEW c \in Nat, NEW s \in Stream, NEW n \in Nat,
         NEW how \in {"ok", "failed", "aborted"}
  PROVE  /\ Started(j, c) \in Event /\ OfRun(Started(j, c), j)
         /\ Line(j, c, s, n) \in Event /\ OfRun(Line(j, c, s, n), j)
         /\ Finished(j, c, how) \in Event /\ OfRun(Finished(j, c, how), j)
  BY DEF Started, Line, Finished, Ev, Event, OfRun, Stream

LEMMA StartedGrows ==
  ASSUME NEW j \in Job, NEW said \in Seq(Event), NEW c, IsRun(j, said), Before(j, said, c)
  PROVE  LET more == Append(said, Started(j, c))
         IN  /\ IsRun(j, more) /\ Within(j, more, c)
             /\ \A s \in Stream : Told(more, c, s, 0)
  <1> DEFINE e == Started(j, c)
             more == Append(said, e)
             m == Len(said)
  <1>1. c \in Nat /\ c \in DOMAIN Work[j].commands BY WorkFacts DEF Before
  <1>2. e \in Event /\ e.is = "started" /\ e.cmd = c /\ e.job = j
    BY <1>1 DEF Started, Ev, Event
  <1> HIDE DEF e
  <1>3. /\ m \in Nat /\ DOMAIN said = 1..m /\ DOMAIN more = 1..(m + 1)
        /\ \A i \in 1..m : more[i] = said[i]
        /\ more[m + 1] = e
    BY <1>2, Appended
  <1>4. \A i \in 1..m : said[i] \in Event /\ said[i].cmd \in Nat /\ said[i].cmd < c
    BY <1>3, EventFacts, ElementOfSeq DEF Before
  <1>5. \A i \in 1..m : Precedes(said[i], e) BY <1>1, <1>2, <1>4 DEF Precedes
  <1>6. Follows(j, more, m + 1)
    <2>1. c = 1 \/ \E i \in 1..((m + 1) - 1) : more[i].is = "finished" /\ more[i].cmd = c - 1
      BY <1>3 DEF Before, Tells
    <2> HIDE DEF more, m
    <2> QED BY <1>2, <1>3, <2>1 DEF Follows
  <1>7. IsRun(j, more)
    <2> HIDE DEF more
    <2>1. IsRun(j, Append(said, e))
      BY <1>1, <1>2, <1>5, <1>6, RunAppend DEF more
    <2> QED BY <2>1 DEF more
  <1>8. \A i \in DOMAIN more : more[i].cmd <= c
    BY <1>1, <1>2, <1>3, <1>4
  <1>9. Tells(more, "started", c) /\ ~Tells(more, "finished", c)
    <2>1. ~Tells(said, "finished", c) BY <1>1, <1>3, <1>4 DEF Tells
    <2> QED BY <1>2, <2>1, ToldAppend
  <1>10. ASSUME NEW s \in Stream PROVE Told(more, c, s, 0)
    <2>1. \A n : ~TellsLine(said, c, s, n) BY <1>1, <1>3, <1>4 DEF TellsLine
    <2>2. \A n : ~TellsLine(more, c, s, n) BY <1>2, <2>1, ToldAppend
    <2> QED BY <2>2 DEF Told
  <1> HIDE DEF more
  <1>11. Within(j, more, c) BY <1>1, <1>8, <1>9 DEF Within
  <1> QED BY <1>7, <1>10, <1>11 DEF more, e

LEMMA LineGrows ==
  ASSUME NEW j \in Job, NEW said \in Seq(Event), NEW c, NEW s \in Stream, NEW k \in Nat,
         IsRun(j, said), Within(j, said, c), k < Lines(j, c)[s], Told(said, c, s, k)
  PROVE  LET more == Append(said, Line(j, c, s, k + 1))
         IN  /\ IsRun(j, more) /\ Within(j, more, c)
             /\ Told(more, c, s, k + 1)
             /\ \A t \in Stream \ {s}, n \in Nat : Told(said, c, t, n) => Told(more, c, t, n)
  <1> DEFINE e == Line(j, c, s, k + 1)
             more == Append(said, e)
             m == Len(said)
  <1>1. c \in Nat /\ c \in DOMAIN Work[j].commands /\ Lines(j, c)[s] \in Nat
    BY WorkFacts DEF Within
  <1>2. /\ e \in Event /\ e.is = "line" /\ e.cmd = c /\ e.job = j /\ e.stream = s
        /\ e.n = k + 1
    BY <1>1 DEF Line, Ev, Event, Stream
  <1> HIDE DEF e
  <1>3. /\ m \in Nat /\ DOMAIN said = 1..m /\ DOMAIN more = 1..(m + 1)
        /\ \A i \in 1..m : more[i] = said[i]
        /\ more[m + 1] = e
    BY <1>2, Appended
  <1>4. \A i \in 1..m : /\ said[i] \in Event /\ said[i].cmd \in Nat /\ said[i].n \in Nat
                        /\ said[i].cmd <= c
    BY <1>3, EventFacts, ElementOfSeq DEF Within
  <1>5. ASSUME NEW i \in 1..m PROVE Precedes(said[i], e)
    <2>1. said[i].cmd = c => said[i].is # "finished"
      BY <1>3 DEF Within, Tells
    <2>2. said[i].cmd = c /\ said[i].is = "line" /\ said[i].stream = s => said[i].n < k + 1
      <3> SUFFICES ASSUME said[i].cmd = c, said[i].is = "line", said[i].stream = s
                   PROVE  said[i].n < k + 1
        OBVIOUS
      <3>1. TellsLine(said, c, s, said[i].n) BY <1>3 DEF TellsLine
      <3>2. said[i].n \in 1..k BY <1>4, <3>1 DEF Told
      <3> QED BY <3>2
    <2> QED BY <1>2, <1>4, <2>1, <2>2 DEF Precedes
  <1>6. Follows(j, more, m + 1)
    <2>1. \E i \in 1..((m + 1) - 1) : more[i].is = "started" /\ more[i].cmd = c
      BY <1>3 DEF Within, Tells
    <2>2. k # 0 => \E i \in 1..((m + 1) - 1) :
                     /\ more[i].is = "line" /\ more[i].cmd = c
                     /\ more[i].stream = s /\ more[i].n = (k + 1) - 1
      <3> SUFFICES ASSUME k # 0
                   PROVE  \E i \in 1..m : /\ more[i].is = "line" /\ more[i].cmd = c
                                          /\ more[i].stream = s /\ more[i].n = k
        BY <1>3
      <3>1. TellsLine(said, c, s, k) BY DEF Told
      <3> QED BY <1>3, <3>1 DEF TellsLine
    <2> HIDE DEF more, m
    <2> QED BY <1>2, <1>3, <2>1, <2>2 DEF Follows
  <1>7. IsRun(j, more)
    <2>1. e.n \in 1..Lines(j, e.cmd)[e.stream] BY <1>1, <1>2
    <2>2. IsRun(j, Append(said, e))
      <3> HIDE DEF more
      <3> QED BY <1>1, <1>2, <1>5, <1>6, <2>1, RunAppend DEF more
    <2> QED BY <2>2
  <1>8. \A i \in DOMAIN more : more[i].cmd <= c
    BY <1>1, <1>2, <1>3, <1>4
  <1>9. Tells(more, "started", c) /\ ~Tells(more, "finished", c)
    BY <1>2, ToldAppend DEF Within
  <1>10. Told(more, c, s, k + 1)
    <2>1. \A n \in Nat : n \in 1..(k + 1) <=> n \in 1..k \/ n = k + 1 OBVIOUS
    <2>2. \A n \in Nat : TellsLine(more, c, s, n) <=> TellsLine(said, c, s, n) \/ n = k + 1
      BY <1>2, ToldAppend
    <2> HIDE DEF more
    <2> QED BY <2>1, <2>2 DEF Told
  <1>11. ASSUME NEW t \in Stream \ {s}, NEW n \in Nat, Told(said, c, t, n)
         PROVE  Told(more, c, t, n)
    <2>1. \A i : TellsLine(more, c, t, i) <=> TellsLine(said, c, t, i)
      BY <1>2, ToldAppend
    <2> HIDE DEF more
    <2> QED BY <1>11, <2>1 DEF Told
  <1> HIDE DEF more
  <1>12. Within(j, more, c) BY <1>1, <1>8, <1>9 DEF Within
  <1> QED BY <1>7, <1>10, <1>11, <1>12 DEF more, e

LEMMA FinishedGrows ==
  ASSUME NEW j \in Job, NEW said \in Seq(Event), NEW c,
         NEW how \in {"ok", "failed", "aborted"}, IsRun(j, said), Within(j, said, c),
         how # "aborted" => \A s \in Stream : Told(said, c, s, Lines(j, c)[s])
  PROVE  LET more == Append(said, Finished(j, c, how))
         IN  /\ IsRun(j, more) /\ AtEnd(more)
             /\ c < Len(Work[j].commands) => Before(j, more, c + 1)
  <1> DEFINE e == Finished(j, c, how)
             more == Append(said, e)
             m == Len(said)
  <1>1. /\ c \in Nat /\ c \in DOMAIN Work[j].commands
        /\ \A s \in Stream : Lines(j, c)[s] \in Nat
        /\ Len(Work[j].commands) \in Nat
        /\ DOMAIN Work[j].commands = 1..Len(Work[j].commands)
    BY WorkFacts DEF Within
  <1>2. e \in Event /\ e.is = "finished" /\ e.cmd = c /\ e.job = j /\ e.stream = how
    BY <1>1 DEF Finished, Ev, Event
  <1> HIDE DEF e
  <1>3. /\ m \in Nat /\ DOMAIN said = 1..m /\ DOMAIN more = 1..(m + 1)
        /\ \A i \in 1..m : more[i] = said[i]
        /\ more[m + 1] = e /\ Len(more) = m + 1 /\ more \in Seq(Event)
    BY <1>2, Appended
  <1>4. \A i \in 1..m : /\ said[i] \in Event /\ said[i].cmd \in Nat
                        /\ said[i].cmd <= c
    BY <1>3, EventFacts, ElementOfSeq DEF Within
  <1>5. ASSUME NEW i \in 1..m PROVE Precedes(said[i], e)
    <2>1. said[i].cmd = c => said[i].is # "finished"
      BY <1>3 DEF Within, Tells
    <2> QED BY <1>2, <1>4, <2>1 DEF Precedes
  <1>6. Follows(j, more, m + 1)
    <2>1. \E i \in 1..((m + 1) - 1) : more[i].is = "started" /\ more[i].cmd = c
      BY <1>3 DEF Within, Tells
    <2>2. ASSUME how # "aborted", NEW s \in Stream, NEW n \in 1..Work[j].commands[c][s]
          PROVE  \E i \in 1..((m + 1) - 1) :
                   /\ more[i].is = "line" /\ more[i].cmd = c
                   /\ more[i].stream = s /\ more[i].n = n
      <3>1. Told(said, c, s, Lines(j, c)[s]) BY <2>2
      <3>2. n \in Nat /\ n \in 1..Lines(j, c)[s] BY <1>1 DEF Lines
      <3>3. TellsLine(said, c, s, n) BY <3>1, <3>2 DEF Told
      <3> QED BY <1>3, <3>3 DEF TellsLine
    <2> HIDE DEF more, m
    <2> QED BY <1>2, <1>3, <2>1, <2>2 DEF Follows
  <1>7. IsRun(j, more)
    <2>1. IsRun(j, Append(said, e))
      <3> HIDE DEF more
      <3> QED BY <1>1, <1>2, <1>5, <1>6, RunAppend DEF more
    <2> QED BY <2>1
  <1>8. ASSUME c < Len(Work[j].commands) PROVE Before(j, more, c + 1)
    <2>1. c + 1 \in DOMAIN Work[j].commands /\ (c + 1) - 1 = c BY <1>1, <1>8
    <2>2. \A i \in DOMAIN more : more[i].cmd < c + 1
      BY <1>1, <1>2, <1>3, <1>4
    <2>3. Tells(more, "finished", c) BY <1>2, ToldAppend
    <2> HIDE DEF more
    <2> QED BY <2>1, <2>2, <2>3 DEF Before
  <1>9. AtEnd(more) BY <1>2, <1>3 DEF AtEnd
  <1> QED BY <1>7, <1>8, <1>9 DEF e

-----------------------------------------------------------------------------
(* How events move from a job to the terminal.                             *)

LEMMA InTheMiddle ==
  ASSUME NEW p \in Seq(Event), NEW q \in Seq(Event), NEW h \in Seq(Event), NEW e \in Event
  PROVE  p \o Append(q, e) \o h = (p \o q) \o <<e>> \o h
  <1>1. /\ p \o Append(q, e) \o h \in Seq(Event) /\ (p \o q) \o <<e>> \o h \in Seq(Event)
        /\ Len(p \o Append(q, e) \o h) = Len((p \o q) \o <<e>> \o h)
        /\ \A i \in 1..Len(p \o Append(q, e) \o h) :
             (p \o Append(q, e) \o h)[i] = ((p \o q) \o <<e>> \o h)[i]
    OBVIOUS
  <1> QED BY <1>1, SeqEqual

LEMMA AtTheEnd ==
  ASSUME NEW p \in Seq(Event), NEW q \in Seq(Event), NEW e \in Event
  PROVE  p \o Append(q, e) \o << >> = Append(p \o q \o << >>, e)
  OBVIOUS

LEMMA OneMore ==
  ASSUME NEW p \in Seq(Event), NEW q \in Seq(Event), NEW e \in Event
  PROVE  p \o q \o <<e>> = Append(p \o q \o << >>, e)
  OBVIOUS

LEMMA HeadFirst ==
  ASSUME NEW q \in Seq(Event), q # << >>
  PROVE  q = <<Head(q)>> \o Tail(q) /\ Head(q) \in Event /\ Tail(q) \in Seq(Event)
  <1>1. /\ Head(q) \in Event /\ Tail(q) \in Seq(Event) /\ Len(Tail(q)) = Len(q) - 1
        /\ Len(q) \in Nat \ {0} /\ Head(q) = q[1]
        /\ \A i \in 1..(Len(q) - 1) : Tail(q)[i] = q[i + 1]
    OBVIOUS
  <1> DEFINE e == Head(q)
             t == Tail(q)
  <1> HIDE DEF e, t
  <1>2. /\ e \in Event /\ t \in Seq(Event) /\ Len(t) = Len(q) - 1
        /\ Len(q) \in Nat \ {0} /\ e = q[1]
        /\ \A i \in 1..(Len(q) - 1) : t[i] = q[i + 1]
    BY <1>1 DEF e, t
  <1>3. /\ <<e>> \o t \in Seq(Event) /\ Len(<<e>> \o t) = Len(q)
        /\ \A i \in 1..Len(q) : (<<e>> \o t)[i] = q[i]
    BY <1>2
  <1>4. q = <<e>> \o t BY <1>3, SeqEqual
  <1> QED BY <1>2, <1>4 DEF e, t

(* The head of a sequence moves to the end of the one before it.           *)
LEMMA HeadMoves ==
  ASSUME NEW p \in Seq(Event), NEW q \in Seq(Event), q # << >>
  PROVE  Append(p, Head(q)) \o Tail(q) = p \o q
  <1> DEFINE e == Head(q)
             t == Tail(q)
  <1>1. q = <<e>> \o t /\ e \in Event /\ t \in Seq(Event) BY HeadFirst
  <1> HIDE DEF e, t
  <1>2. <<e>> \in Seq(Event) BY <1>1
  <1>3. (p \o <<e>>) \o t = p \o (<<e>> \o t) BY <1>1, <1>2, ConcatAssociative
  <1>4. Append(p, e) = p \o <<e>> BY <1>1
  <1>5. Append(p, e) \o t = p \o q BY <1>1, <1>3, <1>4
  <1> QED BY <1>5 DEF e, t

(* What the job has said of what is written, sent and held.                *)
LEMMA SentOther ==
  ASSUME NEW p \in Seq(Event), NEW q \in Seq(Event), NEW h \in Seq(Event),
         NEW e \in Event, NEW j, ~OfRun(e, j)
  PROVE  Said(p \o Append(q, e) \o h, j) = Said(p \o q \o h, j)
  <1> DEFINE a == p \o q
  <1>1. a \in Seq(Event) OBVIOUS
  <1>2. p \o Append(q, e) \o h = a \o <<e>> \o h BY InTheMiddle
  <1> HIDE DEF a
  <1>3. Said(a \o <<e>> \o h, j) = Said(a \o h, j) BY <1>1, SaidInsert
  <1> QED BY <1>2, <1>3 DEF a

LEMMA SentOwn ==
  ASSUME NEW p \in Seq(Event), NEW q \in Seq(Event), NEW e \in Event, NEW j, OfRun(e, j)
  PROVE  Said(p \o Append(q, e) \o << >>, j) = Append(Said(p \o q \o << >>, j), e)
  <1> DEFINE a == p \o q \o << >>
  <1>1. a \in Seq(Event) OBVIOUS
  <1>2. p \o Append(q, e) \o << >> = Append(a, e) BY AtTheEnd
  <1> HIDE DEF a
  <1>3. Said(Append(a, e), j) = Append(Said(a, j), e) BY <1>1, SaidAppend
  <1> QED BY <1>2, <1>3 DEF a

LEMMA HeldOwn ==
  ASSUME NEW p \in Seq(Event), NEW q \in Seq(Event), NEW e \in Event, NEW j, OfRun(e, j)
  PROVE  Said(p \o q \o <<e>>, j) = Append(Said(p \o q \o << >>, j), e)
  <1> DEFINE a == p \o q \o << >>
  <1>1. a \in Seq(Event) OBVIOUS
  <1>2. p \o q \o <<e>> = Append(a, e) BY OneMore
  <1> HIDE DEF a
  <1>3. Said(Append(a, e), j) = Append(Said(a, j), e) BY <1>1, SaidAppend
  <1> QED BY <1>2, <1>3 DEF a

LEMMA WrittenOther ==
  ASSUME NEW p \in Seq(Event), NEW q \in Seq(Event), NEW h \in Seq(Event),
         q # << >>, NEW j, ~OfRun(Head(q), j)
  PROVE  Said(p \o Tail(q) \o h, j) = Said(p \o q \o h, j)
  <1> DEFINE e == Head(q)
             t == Tail(q)
  <1>1. /\ q = <<e>> \o t /\ e \in Event /\ t \in Seq(Event) /\ ~OfRun(e, j)
    BY HeadFirst
  <1> HIDE DEF e, t
  <1>2. t \o h \in Seq(Event) /\ <<e>> \in Seq(Event) /\ p \o <<e>> \in Seq(Event)
    BY <1>1
  <1>3. Said(p \o <<e>> \o (t \o h), j) = Said(p \o (t \o h), j)
    <2> DEFINE b == t \o h
    <2>1. b \in Seq(Event) BY <1>2
    <2> HIDE DEF b
    <2>2. Said(p \o <<e>> \o b, j) = Said(p \o b, j) BY <1>1, <2>1, SaidInsert
    <2> QED BY <2>2 DEF b
  <1>4. p \o t \o h = p \o (t \o h) BY <1>1, ConcatAssociative
  <1>5. (p \o <<e>>) \o t = p \o q BY <1>1, <1>2, ConcatAssociative
  <1>6. ((p \o <<e>>) \o t) \o h = (p \o <<e>>) \o (t \o h)
    BY <1>1, <1>2, ConcatAssociative
  <1>7. Said(p \o t \o h, j) = Said(p \o q \o h, j) BY <1>3, <1>4, <1>5, <1>6
  <1> QED BY <1>7 DEF t

LEMMA PassedType ==
  ASSUME TypeOK, NEW j \in Job
  PROVE  /\ Passed(j) \in Seq(Event) /\ Said(Passed(j), j) \in Seq(Event)
         /\ SaidSoFar(j) \in Seq(Event)
         /\ printed[j] \in Seq(Event) /\ queue \in Seq(Event) /\ held[j] \in Seq(Event)
         /\ local[j] \in Seq(Event) /\ captured[j] \in Seq(Event)
  <1>1. /\ printed[j] \in Seq(Event) /\ queue \in Seq(Event) /\ held[j] \in Seq(Event)
        /\ local[j] \in Seq(Event) /\ captured[j] \in Seq(Event)
    BY DEF TypeOK, TerminalType, CaptureType
  <1>2. Passed(j) \in Seq(Event) BY <1>1 DEF Passed
  <1>3. Said(Passed(j), j) \in Seq(Event) BY <1>2, SaidType
  <1> QED BY <1>1, <1>2, <1>3 DEF SaidSoFar

(* An event is sent that is not of the job's run.                          *)
LEMMA SendsOther ==
  ASSUME TypeOK, NEW e \in Event, queue' = Append(queue, e), NEW j \in Job,
         ~OfRun(e, j), printed'[j] = printed[j], held'[j] = held[j]
  PROVE  Said(Passed(j), j)' = Said(Passed(j), j)
  <1> DEFINE p == printed[j]
             h == held[j]
  <1>1. p \in Seq(Event) /\ queue \in Seq(Event) /\ h \in Seq(Event)
    BY PassedType
  <1>2. Passed(j)' = p \o Append(queue, e) \o h /\ Passed(j) = p \o queue \o h
    BY DEF Passed
  <1> HIDE DEF p, h
  <1>3. Said(p \o Append(queue, e) \o h, j) = Said(p \o queue \o h, j)
    BY <1>1, SentOther
  <1>4. Said(Passed(j)', j) = Said(Passed(j), j) BY <1>2, <1>3
  <1> QED BY <1>4

(* A job whose tee has nothing sends an event of its run.                  *)
LEMMA Sends ==
  ASSUME TypeOK, NEW j \in Job, NEW e \in Event, OfRun(e, j), held[j] = << >>,
         queue' = Append(queue, e), printed'[j] = printed[j], held'[j] = held[j]
  PROVE  Said(Passed(j), j)' = Append(Said(Passed(j), j), e)
  <1> DEFINE p == printed[j]
  <1>1. p \in Seq(Event) /\ queue \in Seq(Event) /\ << >> \in Seq(Event)
    BY PassedType
  <1>2. Passed(j)' = p \o Append(queue, e) \o << >> /\ Passed(j) = p \o queue \o << >>
    BY DEF Passed
  <1> HIDE DEF p
  <1>3. Said(p \o Append(queue, e) \o << >>, j) = Append(Said(p \o queue \o << >>, j), e)
    BY <1>1, SentOwn
  <1>4. Said(Passed(j)', j) = Append(Said(Passed(j), j), e) BY <1>2, <1>3
  <1> QED BY <1>4

LEMMA SentBeforeLocal ==
  ASSUME TypeOK, NEW j \in Job, NEW e \in Event, local[j] = << >>, local'[j] = << >>,
         Said(Passed(j), j)' = Append(Said(Passed(j), j), e)
  PROVE  SaidSoFar(j)' = Append(SaidSoFar(j), e)
  BY PassedType DEF SaidSoFar

(* The tee takes an event from the local channel.                          *)
LEMMA Receives ==
  ASSUME TypeOK, NEW j \in Job, held[j] = << >>, local[j] # << >>,
         OfRun(Head(local[j]), j), held'[j] = <<Head(local[j])>>,
         local'[j] = Tail(local[j]), UNCHANGED <<queue, printed>>
  PROVE  /\ Said(Passed(j), j)' = Append(Said(Passed(j), j), Head(local[j]))
         /\ SaidSoFar(j)' = SaidSoFar(j)
  <1> DEFINE p == printed[j]
             l == local[j]
             said == Said(Passed(j), j)
  <1>1. /\ p \in Seq(Event) /\ queue \in Seq(Event) /\ l \in Seq(Event)
        /\ said \in Seq(Event) /\ << >> \in Seq(Event)
        /\ l # << >> /\ OfRun(Head(l), j) /\ Head(l) \in Event
    BY PassedType
  <1>2. /\ Passed(j)' = p \o queue \o <<Head(l)>> /\ Passed(j) = p \o queue \o << >>
        /\ SaidSoFar(j) = said \o l
        /\ SaidSoFar(j)' = Said(Passed(j)', j) \o Tail(l)
    BY DEF Passed, SaidSoFar
  <1>3. said = Said(Passed(j), j) OBVIOUS
  <1>4. Head(l) = Head(local[j]) OBVIOUS
  <1> HIDE DEF p, l, said
  <1>5. Said(p \o queue \o <<Head(l)>>, j) = Append(Said(p \o queue \o << >>, j), Head(l))
    <2> DEFINE e == Head(l)
    <2>1. e \in Event /\ OfRun(e, j) /\ p \in Seq(Event) /\ queue \in Seq(Event)
      BY <1>1
    <2> HIDE DEF e
    <2>2. Said(p \o queue \o <<e>>, j) = Append(Said(p \o queue \o << >>, j), e)
      BY ONLY <2>1, HeldOwn
    <2> QED BY <2>2 DEF e
  <1>6. Append(said, Head(l)) \o Tail(l) = said \o l BY <1>1, HeadMoves
  <1>7. Said(Passed(j)', j) = Append(said, Head(l)) BY <1>2, <1>3, <1>5
  <1>8. SaidSoFar(j)' = SaidSoFar(j) BY <1>2, <1>6, <1>7
  <1> QED BY <1>3, <1>4, <1>7, <1>8

(* The tee forwards the event that it holds.                               *)
LEMMA Forwards ==
  ASSUME TypeOK, NEW k \in Job, Len(held[k]) = 1, OfRun(held[k][1], k),
         queue' = Append(queue, held[k][1]), held' = [held EXCEPT ![k] = << >>],
         UNCHANGED printed, NEW j \in Job
  PROVE  Said(Passed(j), j)' = Said(Passed(j), j)
  <1>1. /\ \A i \in Job : printed[i] \in Seq(Event) /\ held[i] \in Seq(Event)
        /\ queue \in Seq(Event) /\ held \in [Job -> Seq(Event)]
    BY PassedType DEF TypeOK, CaptureType
  <1>2. held[k] = <<held[k][1]>> /\ held[k][1] \in Event
    <2> DEFINE h == held[k]
    <2>1. h \in Seq(Event) /\ Len(h) = 1 BY <1>1
    <2> HIDE DEF h
    <2>2. h = <<h[1]>> /\ h[1] \in Event BY <2>1
    <2> QED BY <2>2 DEF h
  <1>3. CASE j = k
    <2> DEFINE e == held[k][1]
               p == printed[j]
    <2>1. held'[j] = << >> BY <1>1, <1>3
    <2>2. Passed(j)' = p \o Append(queue, e) \o << >> BY <2>1 DEF Passed
    <2>3. Passed(j) = p \o queue \o <<e>> BY <1>2, <1>3 DEF Passed
    <2>4. e \in Event /\ p \in Seq(Event) BY <1>1, <1>2
    <2> HIDE DEF e, p
    <2>5. p \o Append(queue, e) \o << >> = p \o queue \o <<e>>
      BY <1>1, <2>4, AtTheEnd, OneMore
    <2>6. Passed(j)' = Passed(j) BY <2>2, <2>3, <2>5
    <2> QED BY <2>6
  <1>4. CASE j # k
    <2>1. held'[j] = held[j] /\ ~OfRun(held[k][1], j)
      BY <1>1, <1>4 DEF OfRun
    <2> QED BY <1>2, <2>1, SendsOther
  <1> QED BY <1>3, <1>4

(* The writer writes the first event of the channel.                       *)
LEMMA Writes ==
  ASSUME TypeOK, queue # << >>, queue' = Tail(queue), UNCHANGED held,
         \/ UNCHANGED printed /\ Head(queue) = Summary
         \/ /\ Head(queue).job \in Job
            /\ printed' = [printed EXCEPT ![Head(queue).job] = Append(@, Head(queue))],
         NEW j \in Job
  PROVE  Said(Passed(j), j)' = Said(Passed(j), j)
  <1> DEFINE p == printed[j]
             h == held[j]
  <1>1. /\ p \in Seq(Event) /\ h \in Seq(Event) /\ queue \in Seq(Event)
        /\ printed \in [Job -> Seq(Event)]
    BY PassedType DEF TypeOK, TerminalType
  <1>2. Passed(j) = p \o queue \o h /\ Passed(j)' = printed'[j] \o Tail(queue) \o h
    BY DEF Passed
  <1>3. CASE printed'[j] = p /\ ~OfRun(Head(queue), j)
    <2> HIDE DEF p, h
    <2>1. Said(p \o Tail(queue) \o h, j) = Said(p \o queue \o h, j)
      BY <1>1, <1>3, WrittenOther
    <2>2. Said(Passed(j)', j) = Said(Passed(j), j) BY <1>2, <1>3, <2>1
    <2> QED BY <2>2
  <1>4. CASE printed'[j] = Append(p, Head(queue))
    <2> HIDE DEF p, h
    <2>1. Append(p, Head(queue)) \o Tail(queue) = p \o queue BY <1>1, HeadMoves
    <2>2. Passed(j)' = Passed(j) BY <1>2, <1>4, <2>1
    <2> QED BY <2>2
  <1>5. \/ printed'[j] = p /\ ~OfRun(Head(queue), j)
        \/ printed'[j] = Append(p, Head(queue))
    <2>1. CASE UNCHANGED printed /\ Head(queue) = Summary
      BY <2>1 DEF Summary, Ev, OfRun
    <2>2. CASE /\ Head(queue).job \in Job
               /\ printed' = [printed EXCEPT ![Head(queue).job] = Append(@, Head(queue))]
      BY <1>1, <2>2 DEF OfRun
    <2> QED BY <2>1, <2>2
  <1> QED BY <1>3, <1>4, <1>5

-----------------------------------------------------------------------------
(* What the steps have in common.                                          *)

LEMMA Quiet ==
  ASSUME UNCHANGED <<printed, queue, held, local>>, NEW j
  PROVE  Said(Passed(j), j)' = Said(Passed(j), j) /\ SaidSoFar(j)' = SaidSoFar(j)
  BY DEF Passed, SaidSoFar

LEMMA Invisible ==
  ASSUME NEW j, local'[j] = local[j], Said(Passed(j), j)' = Said(Passed(j), j)
  PROVE  SaidSoFar(j)' = SaidSoFar(j)
  BY DEF SaidSoFar

(* A step of somebody else.                                                *)
JobSame(j) ==
  /\ pc'[j] = pc[j] /\ cmd'[j] = cmd[j] /\ exit'[j] = exit[j] /\ child'[j] = child[j]
  /\ unread'[j] = unread[j] /\ reader'[j] = reader[j] /\ local'[j] = local[j]
  /\ held'[j] = held[j] /\ tee'[j] = tee[j] /\ captured'[j] = captured[j]
  /\ hook' = hook

ReplaySame(j) ==
  \/ UNCHANGED <<main, replay>>
  \/ /\ ~(main = "replaying" /\ replay.job = j)
     /\ ~(main' = "replaying" /\ replay'.job = j)

LEMMA JobKeeps ==
  ASSUME NEW j \in Job, JobInv(j), JobSame(j), ReplaySame(j),
         Said(Passed(j), j)' = Said(Passed(j), j)
  PROVE  JobInv(j)'
  <1>1. SaidSoFar(j)' = SaidSoFar(j) BY Invisible DEF JobSame
  <1>2. IsRun(j, SaidSoFar(j))' BY <1>1 DEF JobInv
  <1>3. TaskInv(j)' BY <1>1 DEF JobInv, TaskInv, JobSame
  <1>4. ReaderInv(j)' BY DEF JobInv, ReaderInv, JobSame
  <1>5. TeeInv(j)' BY DEF JobInv, TeeInv, JobSame, TaskHolds
  <1>6. ReplayInv(j)' BY <1>1 DEF JobInv, ReplayInv, JobSame, ReplaySame
  <1>7. CaptureInv(j)' BY DEF JobInv, CaptureInv, JobSame
  <1> QED BY <1>2, <1>3, <1>4, <1>5, <1>6, <1>7 DEF JobInv

LEMMA Enqueued ==
  ASSUME TypeOK, NEW e \in Event, queue' = Append(queue, e)
  PROVE  /\ queue' \in Seq(Event)
         /\ \A i \in DOMAIN queue' : queue'[i] = e \/ \E h \in DOMAIN queue : queue'[i] = queue[h]
         /\ \A h \in DOMAIN queue : h \in DOMAIN queue' /\ queue'[h] = queue[h]
         /\ \E i \in DOMAIN queue' : queue'[i] = e
  <1>1. queue \in Seq(Event) BY DEF TypeOK, TerminalType
  <1>2. /\ queue' \in Seq(Event) /\ Len(queue) \in Nat
        /\ DOMAIN queue = 1..Len(queue) /\ DOMAIN queue' = 1..(Len(queue) + 1)
        /\ \A i \in 1..Len(queue) : queue'[i] = queue[i]
        /\ queue'[Len(queue) + 1] = e
    BY <1>1, Appended
  <1>3. \A i \in DOMAIN queue' : i \in DOMAIN queue \/ i = Len(queue) + 1 BY <1>2
  <1> QED BY <1>2, <1>3

LEMMA MainKeeps ==
  ASSUME TypeOK, MainInv, UNCHANGED <<main, replay, summary>>, main # "returned",
         main = "replaying" => pc'[replay.job] = "hit",
         \/ queue' = queue
         \/ \E e \in Event : e.job \in Job /\ queue' = Append(queue, e)
  PROVE  MainInv'
  <1>1. /\ \A i \in DOMAIN queue' : queue'[i] = Summary \/ queue'[i].job \in Job
        /\ (\E i \in DOMAIN queue : queue[i] = Summary) =>
             \E i \in DOMAIN queue' : queue'[i] = Summary
    <2>1. CASE queue' = queue BY <2>1 DEF MainInv
    <2>2. ASSUME NEW e \in Event, e.job \in Job, queue' = Append(queue, e)
          PROVE  <1>1!:
      BY <2>2, Enqueued DEF MainInv
    <2> QED BY <2>1, <2>2
  <1> QED BY <1>1 DEF MainInv

(* What a task, or a reader, says.                                         *)
LEMMA Emits ==
  ASSUME TypeOK, NEW j \in Job, TeeInv(j), NEW e \in Event, OfRun(e, j), Emit(j, e),
         hook.parallel => tee[j], UNCHANGED <<printed, held>>
  PROVE  /\ local' \in [Job -> Seq(Event)] /\ queue' \in Seq(Event)
         /\ \A i \in DOMAIN local'[j] : OfRun(local'[j][i], j)
         /\ ~tee[j] => local'[j] = << >>
         /\ \A k \in Job \ {j} : local'[k] = local[k] /\ Said(Passed(k), k)' = Said(Passed(k), k)
         /\ SaidSoFar(j)' = Append(SaidSoFar(j), e)
         /\ hook.parallel => Said(Passed(j), j)' = Said(Passed(j), j)
         /\ queue' = queue \/ \E f \in Event : f.job \in Job /\ queue' = Append(queue, f)
  <1>1. /\ local \in [Job -> Seq(Event)] /\ queue \in Seq(Event) /\ local[j] \in Seq(Event)
        /\ Said(Passed(j), j) \in Seq(Event)
    BY PassedType DEF TypeOK, CaptureType
  <1>2. e.job = j BY DEF OfRun
  <1>3. CASE hook.parallel
    <2>1. local' = [local EXCEPT ![j] = Append(@, e)] /\ queue' = queue
      BY <1>3 DEF Emit
    <2>2. local'[j] = Append(local[j], e) /\ \A k \in Job \ {j} : local'[k] = local[k]
      BY <1>1, <2>1
    <2>3. local'[j] \in Seq(Event) BY <1>1, <2>2
    <2>4. local' \in [Job -> Seq(Event)]
      <3>1. \A k \in Job : local'[k] \in Seq(Event) BY <1>1, <2>2, <2>3
      <3> QED BY <1>1, <2>1, <3>1
    <2>5. \A i \in DOMAIN local'[j] : OfRun(local'[j][i], j)
      BY <1>1, <2>2, Appended DEF TeeInv
    <2>6. \A k \in Job : Said(Passed(k), k)' = Said(Passed(k), k) BY <2>1 DEF Passed
    <2>7. SaidSoFar(j)' = Append(SaidSoFar(j), e)
      <3> DEFINE s == Said(Passed(j), j)
                 l == local[j]
      <3>1. SaidSoFar(j)' = s \o Append(l, e) /\ SaidSoFar(j) = s \o l
        BY <2>2, <2>6 DEF SaidSoFar
      <3>2. s \in Seq(Event) /\ l \in Seq(Event) BY <1>1
      <3> HIDE DEF s, l
      <3>3. s \o Append(l, e) = Append(s \o l, e) BY <3>2
      <3> QED BY <3>1, <3>3
    <2> QED BY <1>1, <1>3, <2>1, <2>2, <2>4, <2>5, <2>6, <2>7
  <1>4. CASE ~hook.parallel
    <2>1. queue' = Append(queue, e) /\ local' = local BY <1>4 DEF Emit, Send
    <2>2. ~tee[j] /\ local[j] = << >> /\ held[j] = << >> BY <1>4 DEF TeeInv
    <2>3. queue' \in Seq(Event) BY <1>1, <2>1
    <2>4. Said(Passed(j), j)' = Append(Said(Passed(j), j), e) BY <2>1, <2>2, Sends
    <2>5. SaidSoFar(j)' = Append(SaidSoFar(j), e)
      BY <2>1, <2>2, <2>4, SentBeforeLocal
    <2>6. ASSUME NEW k \in Job \ {j} PROVE Said(Passed(k), k)' = Said(Passed(k), k)
      <3>1. ~OfRun(e, k) BY <1>2 DEF OfRun
      <3> QED BY <2>1, <3>1, SendsOther
    <2> QED BY <1>1, <1>2, <1>4, <2>1, <2>2, <2>3, <2>5, <2>6
  <1> QED BY <1>3, <1>4 DEF TypeOK, MainType

-----------------------------------------------------------------------------
(* The steps.                                                              *)

LEMMA CommandNow ==
  ASSUME TypeOK, NEW j \in Job
  PROVE  /\ pc[j] \in Label /\ cmd[j] \in Nat /\ exit[j] \in {"ok", "failed", "aborted"}
         /\ unread[j] \in Count
         /\ \A s \in Stream : unread[j][s] \in Nat /\ reader[j][s] \in BOOLEAN
         /\ tee[j] \in BOOLEAN /\ hook.parallel \in BOOLEAN
  BY DEF TypeOK, TaskType, CaptureType, MainType, Count

(* A step of the task of a job, of its readers or of its tee.              *)
LEMMA OnlyOfJob ==
  ASSUME IInv, NEW j \in Job, Running, TypeOK', JobInv(j)',
         UNCHANGED <<hook, main, replay, summary>>,
         pc[j] = "hit" => pc'[j] = "hit",
         \A k \in Job \ {j} : JobSame(k) /\ Said(Passed(k), k)' = Said(Passed(k), k),
         queue' = queue \/ \E f \in Event : f.job \in Job /\ queue' = Append(queue, f)
  PROVE  IInv'
  <1>1. TypeOK /\ MainInv /\ \A k \in Job : JobInv(k) BY DEF IInv
  <1>2. main = "replaying" => pc'[replay.job] = "hit"
    BY <1>1 DEF MainInv, TypeOK, MainType, JobSame
  <1>3. MainInv' BY <1>1, <1>2, MainKeeps DEF Running
  <1>4. ASSUME NEW k \in Job, k # j PROVE JobInv(k)'
    BY <1>1, <1>4, JobKeeps DEF ReplaySame
  <1> QED BY <1>3, <1>4 DEF IInv

LEMMA StartStep == ASSUME IInv, NEW j \in Job, Start(j) PROVE IInv'
  <1>1. /\ pc[j] = "idle" /\ pc' = [pc EXCEPT ![j] = "start"] /\ main = "running"
        /\ tee' = [tee EXCEPT ![j] = hook.parallel]
        /\ UNCHANGED <<hook, main, replay, joined, cancel, failed, cmd, exit, child,
                       unread, reader, local, held, captured, queue, printed, summary>>
    BY DEF Start, Goto, terminal
  <1>2. TypeOK /\ MainInv /\ \A k \in Job : JobInv(k) BY DEF IInv
  <1>3. TypeOK'
    BY <1>1, <1>2 DEF TypeOK, MainType, TaskType, CaptureType, TerminalType, Label
  <1>4. MainInv' BY <1>1, <1>2, MainKeeps
  <1>5. ASSUME NEW k \in Job, k # j PROVE JobInv(k)'
    <2>1. JobSame(k) BY <1>1, <1>2, <1>5 DEF JobSame, TypeOK, TaskType, CaptureType
    <2> QED BY <1>1, <1>2, <2>1, Quiet, JobKeeps DEF ReplaySame
  <1>6. JobInv(j)'
    <2>1. Said(Passed(j), j)' = Said(Passed(j), j) /\ SaidSoFar(j)' = SaidSoFar(j)
      BY <1>1, Quiet
    <2>2. pc'[j] = "start" /\ tee'[j] = hook.parallel
      BY <1>1, <1>2 DEF TypeOK, TaskType, CaptureType
    <2>3. IsRun(j, SaidSoFar(j)) /\ SaidSoFar(j) = << >> /\ cmd[j] = 1
      BY <1>1, <1>2 DEF JobInv, TaskInv
    <2>4. \A s \in Stream : ~reader[j][s] BY <1>1, <1>2 DEF JobInv, ReaderInv
    <2>5. Before(j, << >>, 1) BY WorkFacts DEF Before
    <2>6. TaskInv(j)' BY <1>1, <2>1, <2>2, <2>3, <2>4, <2>5 DEF TaskInv
    <2>7. ReaderInv(j)' BY <1>1, <2>2, <2>4 DEF ReaderInv
    <2>8. TeeInv(j)' BY <1>1, <1>2, <2>2 DEF TeeInv, JobInv
    <2>9. ReplayInv(j)' BY <2>2 DEF ReplayInv
    <2>10. CaptureInv(j)' BY <1>1, <1>2, <2>1 DEF CaptureInv, JobInv
    <2> QED BY <2>1, <2>3, <2>6, <2>7, <2>8, <2>9, <2>10 DEF JobInv
  <1> QED BY <1>3, <1>4, <1>5, <1>6 DEF IInv

LEMMA CommandStartedStep ==
  ASSUME IInv, NEW j \in Job, Running, CommandStarted(j) PROVE IInv'
  <1> DEFINE e == Started(j, cmd[j])
  <1>1. /\ pc[j] = "start" /\ pc' = [pc EXCEPT ![j] = "spawn"] /\ Emit(j, e)
        /\ UNCHANGED <<hook, main, replay, joined, cancel, failed, cmd, exit, child,
                       unread, reader, held, tee, captured, printed, summary>>
    BY DEF CommandStarted, Goto, terminal
  <1>2. TypeOK /\ MainInv /\ \A k \in Job : JobInv(k) BY DEF IInv
  <1>3. e \in Event /\ OfRun(e, j)
    <2>1. cmd[j] \in Nat BY <1>2, CommandNow
    <2> QED BY <2>1 DEF Started, Ev, Event, OfRun
  <1>4. hook.parallel => tee[j] BY <1>1, <1>2 DEF JobInv, TeeInv, TaskHolds
  <1> HIDE DEF e
  <1>5. /\ local' \in [Job -> Seq(Event)] /\ queue' \in Seq(Event)
        /\ \A i \in DOMAIN local'[j] : OfRun(local'[j][i], j)
        /\ ~tee[j] => local'[j] = << >>
        /\ \A k \in Job \ {j} : local'[k] = local[k] /\ Said(Passed(k), k)' = Said(Passed(k), k)
        /\ SaidSoFar(j)' = Append(SaidSoFar(j), e)
        /\ hook.parallel => Said(Passed(j), j)' = Said(Passed(j), j)
        /\ queue' = queue \/ \E f \in Event : f.job \in Job /\ queue' = Append(queue, f)
    BY <1>1, <1>2, <1>3, <1>4, Emits DEF JobInv
  <1>6. TypeOK'
    BY <1>1, <1>2, <1>5 DEF TypeOK, MainType, TaskType, CaptureType, TerminalType, Label
  <1>7. \A k \in Job \ {j} : JobSame(k)
    BY <1>1, <1>2, <1>5 DEF JobSame, TypeOK, TaskType
  <1>8. JobInv(j)'
    <2>1. pc'[j] = "spawn" BY <1>1, <1>2 DEF TypeOK, TaskType
    <2>2. IsRun(j, SaidSoFar(j)) /\ Before(j, SaidSoFar(j), cmd[j])
      BY <1>1, <1>2 DEF JobInv, TaskInv
    <2>3. SaidSoFar(j) \in Seq(Event) BY <1>2, PassedType
    <2>4. /\ IsRun(j, SaidSoFar(j)') /\ Within(j, SaidSoFar(j)', cmd[j])
          /\ \A s \in Stream : Told(SaidSoFar(j)', cmd[j], s, 0)
      BY <1>5, <2>2, <2>3, StartedGrows DEF e
    <2>5. \A s \in Stream : ~reader[j][s] BY <1>1, <1>2 DEF JobInv, ReaderInv
    <2>6. TaskInv(j)' BY <1>1, <2>1, <2>4, <2>5 DEF TaskInv
    <2>7. ReaderInv(j)' BY <1>1, <2>1, <2>5 DEF ReaderInv
    <2>8. TeeInv(j)' BY <1>1, <1>2, <1>4, <1>5, <2>1, <2>5 DEF TeeInv, JobInv, TaskHolds
    <2>9. ReplayInv(j)' BY <2>1 DEF ReplayInv
    <2>10. CaptureInv(j)' BY <1>1, <1>2, <1>5, <2>1 DEF CaptureInv, JobInv
    <2> QED BY <2>4, <2>6, <2>7, <2>8, <2>9, <2>10 DEF JobInv
  <1> QED BY <1>1, <1>5, <1>6, <1>7, <1>8, OnlyOfJob

LEMMA SpawnStep ==
  ASSUME IInv, NEW j \in Job, Running, Spawn(j) PROVE IInv'
  <1>1. /\ pc[j] = "spawn" /\ pc' = [pc EXCEPT ![j] = "wait"]
        /\ child' = [child EXCEPT ![j] = "running"]
        /\ unread' = [unread EXCEPT ![j] = Work[j].commands[cmd[j]]]
        /\ reader' = [reader EXCEPT ![j] = [s \in Stream |-> TRUE]]
        /\ UNCHANGED <<hook, main, replay, joined, cancel, failed, cmd, exit,
                       local, held, tee, captured, queue, printed, summary>>
    BY DEF Spawn, Goto, terminal, capture
  <1>2. TypeOK /\ MainInv /\ \A k \in Job : JobInv(k) BY DEF IInv
  <1>3. /\ Within(j, SaidSoFar(j), cmd[j]) /\ \A s \in Stream : Told(SaidSoFar(j), cmd[j], s, 0)
        /\ IsRun(j, SaidSoFar(j)) /\ \A s \in Stream : ~reader[j][s]
    BY <1>1, <1>2 DEF JobInv, TaskInv, ReaderInv
  <1>4. /\ Work[j].commands[cmd[j]] = Lines(j, cmd[j]) /\ Lines(j, cmd[j]) \in Count
        /\ \A s \in Stream : Lines(j, cmd[j])[s] \in Nat
    BY <1>3, WorkFacts DEF Within, Lines
  <1>5. /\ pc'[j] = "wait" /\ child'[j] = "running" /\ unread'[j] = Lines(j, cmd[j])
        /\ reader'[j] = [s \in Stream |-> TRUE]
        /\ \A k \in Job \ {j} : JobSame(k)
    BY <1>1, <1>2, <1>4 DEF JobSame, TypeOK, TaskType
  <1>6. TypeOK'
    BY <1>1, <1>2, <1>4 DEF TypeOK, MainType, TaskType, CaptureType, TerminalType, Label
  <1>7. \A k \in Job : Said(Passed(k), k)' = Said(Passed(k), k) /\ SaidSoFar(k)' = SaidSoFar(k)
    BY <1>1, Quiet
  <1>8. JobInv(j)'
    <2>1. ASSUME NEW s \in Stream
          PROVE  unread'[j][s] <= Lines(j, cmd[j])[s] /\ Lines(j, cmd[j])[s] - unread'[j][s] = 0
      BY <1>4, <1>5
    <2>2. TaskInv(j)' BY <1>1, <1>3, <1>5, <1>7, <2>1 DEF TaskInv
    <2>3. ReaderInv(j)' BY <1>1, <1>5 DEF ReaderInv
    <2>4. TeeInv(j)' BY <1>1, <1>2, <1>5 DEF TeeInv, JobInv, TaskHolds
    <2>5. ReplayInv(j)' BY <1>5 DEF ReplayInv
    <2>6. CaptureInv(j)' BY <1>1, <1>2, <1>7 DEF CaptureInv, JobInv
    <2> QED BY <1>3, <1>7, <2>2, <2>3, <2>4, <2>5, <2>6 DEF JobInv
  <1> QED BY <1>1, <1>5, <1>6, <1>7, <1>8, OnlyOfJob

LEMMA ReadLineStep ==
  ASSUME IInv, NEW j \in Job, NEW s \in Stream, Running, ReadLine(j, s) PROVE IInv'
  <1> DEFINE k == Work[j].commands[cmd[j]][s] - unread[j][s]
             e == Line(j, cmd[j], s, k + 1)
  <1>1. /\ reader[j][s] /\ unread[j][s] > 0 /\ Emit(j, e)
        /\ unread' = [unread EXCEPT ![j][s] = @ - 1]
        /\ UNCHANGED <<hook, main, replay, joined, cancel, failed, pc, cmd, exit, child,
                       reader, held, tee, captured, printed, summary>>
    BY DEF ReadLine, terminal
  <1>2. TypeOK /\ MainInv /\ \A i \in Job : JobInv(i) BY DEF IInv
  <1>3. /\ Within(j, SaidSoFar(j), cmd[j]) /\ IsRun(j, SaidSoFar(j))
        /\ unread[j][s] <= Lines(j, cmd[j])[s]
        /\ Told(SaidSoFar(j), cmd[j], s, Lines(j, cmd[j])[s] - unread[j][s])
        /\ pc[j] \in {"wait", "drain", "error"}
    BY <1>1, <1>2 DEF JobInv, TaskInv, ReaderInv
  <1>4. /\ \A t \in Stream : Lines(j, cmd[j])[t] \in Nat /\ unread[j][t] \in Nat
        /\ cmd[j] \in Nat /\ unread[j] \in Count
    BY <1>2, <1>3, WorkFacts, CommandNow DEF Within
  <1>5. /\ k \in Nat /\ k < Lines(j, cmd[j])[s] /\ k = Lines(j, cmd[j])[s] - unread[j][s]
        /\ unread[j][s] - 1 \in Nat
    BY <1>1, <1>3, <1>4 DEF Lines
  <1>6. e \in Event /\ OfRun(e, j)
    <2> HIDE DEF k
    <2> QED BY <1>4, <1>5, EventsOfRuns
  <1>7. hook.parallel => tee[j] BY <1>1, <1>2 DEF JobInv, TeeInv
  <1>8. e = Line(j, cmd[j], s, k + 1) OBVIOUS
  <1> HIDE DEF e, k
  <1>9. /\ local' \in [Job -> Seq(Event)] /\ queue' \in Seq(Event)
        /\ \A i \in DOMAIN local'[j] : OfRun(local'[j][i], j)
        /\ ~tee[j] => local'[j] = << >>
        /\ \A i \in Job \ {j} : local'[i] = local[i] /\ Said(Passed(i), i)' = Said(Passed(i), i)
        /\ SaidSoFar(j)' = Append(SaidSoFar(j), e)
        /\ hook.parallel => Said(Passed(j), j)' = Said(Passed(j), j)
        /\ queue' = queue \/ \E f \in Event : f.job \in Job /\ queue' = Append(queue, f)
    BY <1>1, <1>2, <1>6, <1>7, Emits DEF JobInv
  <1>10. /\ unread' \in [Job -> Count] /\ unread'[j] \in Count
         /\ unread'[j][s] = unread[j][s] - 1
         /\ \A t \in Stream \ {s} : unread'[j][t] = unread[j][t]
         /\ \A i \in Job \ {j} : unread'[i] = unread[i]
    <2>1. unread \in [Job -> Count] BY <1>2 DEF TypeOK, TaskType
    <2>2. unread' = [unread EXCEPT ![j] = [unread[j] EXCEPT ![s] = @ - 1]]
      BY <1>1, <2>1
    <2>3. [unread[j] EXCEPT ![s] = @ - 1] \in Count BY <1>4, <1>5 DEF Count
    <2>4. unread'[j] = [unread[j] EXCEPT ![s] = @ - 1] BY <2>1, <2>2
    <2> QED BY <1>4, <2>1, <2>2, <2>3, <2>4 DEF Count
  <1>11. TypeOK'
    BY <1>1, <1>2, <1>9, <1>10 DEF TypeOK, MainType, TaskType, CaptureType, TerminalType
  <1>12. \A i \in Job \ {j} : JobSame(i) BY <1>1, <1>9, <1>10 DEF JobSame
  <1>13. JobInv(j)'
    <2>1. SaidSoFar(j) \in Seq(Event) BY <1>2, PassedType
    <2>2. /\ IsRun(j, SaidSoFar(j)') /\ Within(j, SaidSoFar(j)', cmd[j])
          /\ Told(SaidSoFar(j)', cmd[j], s, k + 1)
          /\ \A t \in Stream \ {s}, n \in Nat :
               Told(SaidSoFar(j), cmd[j], t, n) => Told(SaidSoFar(j)', cmd[j], t, n)
      BY <1>3, <1>5, <1>8, <1>9, <2>1, LineGrows
    <2>3. ASSUME NEW t \in Stream, reader[j][t]
          PROVE  /\ unread'[j][t] <= Lines(j, cmd[j])[t]
                 /\ Told(SaidSoFar(j)', cmd[j], t, Lines(j, cmd[j])[t] - unread'[j][t])
      <3>1. CASE t = s
        <4>1. k + 1 = Lines(j, cmd[j])[s] - unread'[j][s] /\ unread'[j][s] <= Lines(j, cmd[j])[s]
          BY <1>3, <1>4, <1>5, <1>10
        <4> QED BY <2>2, <3>1, <4>1
      <3>2. CASE t # s
        <4>1. /\ unread[j][t] <= Lines(j, cmd[j])[t]
              /\ Told(SaidSoFar(j), cmd[j], t, Lines(j, cmd[j])[t] - unread[j][t])
          BY <1>2, <2>3 DEF JobInv, TaskInv
        <4>2. Lines(j, cmd[j])[t] - unread[j][t] \in Nat BY <1>4, <4>1
        <4> QED BY <1>10, <2>2, <3>2, <4>1, <4>2
      <3> QED BY <3>1, <3>2
    <2>4. ASSUME NEW t \in Stream, ~reader[j][t], pc[j] \in {"drain", "finish"},
                 exit[j] # "aborted"
          PROVE  Told(SaidSoFar(j)', cmd[j], t, Lines(j, cmd[j])[t])
      <3>1. t # s BY <1>1, <2>4
      <3>2. Told(SaidSoFar(j), cmd[j], t, Lines(j, cmd[j])[t])
        BY <1>2, <2>4 DEF JobInv, TaskInv
      <3> QED BY <1>4, <2>2, <3>1, <3>2
    <2>5. TaskInv(j)' BY <1>1, <1>3, <2>2, <2>3, <2>4 DEF TaskInv
    <2>6. ReaderInv(j)' BY <1>1, <1>2 DEF ReaderInv, JobInv
    <2>7. TeeInv(j)' BY <1>1, <1>2, <1>3, <1>7, <1>9 DEF TeeInv, JobInv, TaskHolds
    <2>8. ReplayInv(j)' BY <1>1, <1>3 DEF ReplayInv
    <2>9. CaptureInv(j)' BY <1>1, <1>2, <1>9 DEF CaptureInv, JobInv
    <2> QED BY <2>2, <2>5, <2>6, <2>7, <2>8, <2>9 DEF JobInv
  <1> QED BY <1>1, <1>3, <1>9, <1>11, <1>12, <1>13, OnlyOfJob

(* A step of a task or a reader that says nothing: the tee's is the same.  *)
LEMMA SaysNothing ==
  ASSUME IInv, NEW j \in Job, Running, TaskType', pc[j] # "hit", pc'[j] # "hit",
         UNCHANGED <<hook, main, replay, joined, cancel, failed, capture, queue, terminal>>,
         \A k \in Job \ {j} :
           /\ pc'[k] = pc[k] /\ cmd'[k] = cmd[k] /\ exit'[k] = exit[k]
           /\ child'[k] = child[k] /\ unread'[k] = unread[k] /\ reader'[k] = reader[k],
         SaidSoFar(j)' = SaidSoFar(j) => TaskInv(j)',
         ReaderInv(j)',
         TaskHolds(j)' \/ (\E s \in Stream : reader'[j][s]) => tee[j] \/ ~hook.parallel,
         pc'[j] \in {"idle", "diagnose", "done"} => ~tee[j],
         pc'[j] = "close" => hook.parallel
  PROVE  IInv'
  <1>1. TypeOK /\ MainInv /\ \A k \in Job : JobInv(k) BY DEF IInv
  <1>2. UNCHANGED <<local, held, tee, captured, printed, summary>> BY DEF capture, terminal
  <1>3. \A k \in Job : Said(Passed(k), k)' = Said(Passed(k), k) /\ SaidSoFar(k)' = SaidSoFar(k)
    BY <1>2, Quiet
  <1>4. TypeOK' BY <1>1, <1>2 DEF TypeOK, MainType, CaptureType, TerminalType
  <1>5. \A k \in Job \ {j} : JobSame(k) BY <1>2 DEF JobSame
  <1>6. JobInv(j)'
    <2>1. IsRun(j, SaidSoFar(j))' /\ TaskInv(j)' BY <1>1, <1>3 DEF JobInv
    <2>2. TeeInv(j)' BY <1>1, <1>2 DEF JobInv, TeeInv
    <2>3. ReplayInv(j)' BY DEF ReplayInv
    <2>4. CaptureInv(j)' BY <1>1, <1>2, <1>3 DEF JobInv, CaptureInv
    <2> QED BY <2>1, <2>2, <2>3, <2>4 DEF JobInv
  <1> QED BY <1>2, <1>3, <1>4, <1>5, <1>6, OnlyOfJob

LEMMA ReadEndStep ==
  ASSUME IInv, NEW j \in Job, NEW s \in Stream, Running, ReadEnd(j, s) PROVE IInv'
  <1>1. /\ reader[j][s]
        /\ child[j] = "killed" \/ (child[j] = "exited" /\ unread[j][s] = 0)
        /\ reader' = [reader EXCEPT ![j][s] = FALSE]
        /\ unread' = [unread EXCEPT ![j][s] = 0]
        /\ UNCHANGED <<hook, main, replay, joined, cancel, failed, pc, cmd, exit, child,
                       capture, queue, terminal>>
    BY DEF ReadEnd
  <1>2. TypeOK /\ JobInv(j) BY DEF IInv
  <1>3. /\ reader \in [Job -> [Stream -> BOOLEAN]] /\ unread \in [Job -> Count]
        /\ reader[j] \in [Stream -> BOOLEAN] /\ unread[j] \in [Stream -> Nat]
    BY <1>2 DEF TypeOK, TaskType, Count
  <1>4. /\ reader'[j] = [reader[j] EXCEPT ![s] = FALSE]
        /\ unread'[j] = [unread[j] EXCEPT ![s] = 0]
        /\ \A k \in Job \ {j} : reader'[k] = reader[k] /\ unread'[k] = unread[k]
        /\ reader' \in [Job -> [Stream -> BOOLEAN]] /\ unread' \in [Job -> Count]
    BY <1>1, <1>3 DEF Count
  <1>5. /\ ~reader'[j][s] /\ unread'[j][s] = 0
        /\ \A t \in Stream \ {s} : reader'[j][t] = reader[j][t] /\ unread'[j][t] = unread[j][t]
    BY <1>3, <1>4
  <1>6. TaskType' BY <1>1, <1>2, <1>4 DEF TypeOK, TaskType
  <1>7. /\ pc[j] \in {"drain", "error"} /\ (pc[j] = "drain" => child[j] = "exited")
        /\ Within(j, SaidSoFar(j), cmd[j])
        /\ Told(SaidSoFar(j), cmd[j], s, Lines(j, cmd[j])[s] - unread[j][s])
    BY <1>1, <1>2 DEF JobInv, ReaderInv, TaskInv
  <1>8. Lines(j, cmd[j])[s] \in Nat BY <1>7, WorkFacts DEF Within
  <1>9. ASSUME SaidSoFar(j)' = SaidSoFar(j) PROVE TaskInv(j)'
    <2>1. ASSUME NEW t \in Stream, ~reader'[j][t], pc[j] \in {"drain", "finish"},
                 exit[j] # "aborted"
          PROVE  Told(SaidSoFar(j), cmd[j], t, Lines(j, cmd[j])[t])
      <3>1. CASE t = s
        <4>1. unread[j][s] = 0 BY <1>1, <1>7, <2>1
        <4>2. Lines(j, cmd[j])[s] - unread[j][s] = Lines(j, cmd[j])[s] BY <1>8, <4>1
        <4> QED BY <1>7, <3>1, <4>2
      <3>2. CASE t # s BY <1>2, <1>5, <2>1, <3>2 DEF JobInv, TaskInv
      <3> QED BY <3>1, <3>2
    <2>2. ASSUME NEW t \in Stream, reader'[j][t]
          PROVE  /\ unread'[j][t] <= Lines(j, cmd[j])[t]
                 /\ Told(SaidSoFar(j), cmd[j], t, Lines(j, cmd[j])[t] - unread'[j][t])
      BY <1>2, <1>5, <2>2 DEF JobInv, TaskInv
    <2> QED BY <1>1, <1>7, <1>9, <2>1, <2>2 DEF TaskInv
  <1>10. ReaderInv(j)' BY <1>1, <1>2, <1>5, <1>7 DEF JobInv, ReaderInv
  <1>11. tee[j] \/ ~hook.parallel BY <1>1, <1>2 DEF JobInv, TeeInv
  <1> QED BY <1>1, <1>4, <1>6, <1>7, <1>9, <1>10, <1>11, SaysNothing

LEMMA ChildExitsStep ==
  ASSUME IInv, NEW j \in Job, Running, ChildExits(j) PROVE IInv'
  <1>1. PICK how \in {"ok", "failed"} : exit' = [exit EXCEPT ![j] = how]
    BY DEF ChildExits
  <1>2. /\ pc[j] = "wait" /\ pc' = [pc EXCEPT ![j] = "drain"]
        /\ child' = [child EXCEPT ![j] = "exited"]
        /\ UNCHANGED <<hook, main, replay, joined, cancel, failed, cmd, unread, reader,
                       capture, queue, terminal>>
    BY DEF ChildExits, Goto
  <1>3. TypeOK /\ JobInv(j) BY DEF IInv
  <1>4. /\ pc'[j] = "drain" /\ exit'[j] = how /\ child'[j] = "exited"
        /\ \A k \in Job \ {j} :
             pc'[k] = pc[k] /\ exit'[k] = exit[k] /\ child'[k] = child[k]
    BY <1>1, <1>2, <1>3 DEF TypeOK, TaskType
  <1>5. TaskType' BY <1>1, <1>2, <1>3 DEF TypeOK, TaskType, Label
  <1>6. \A s \in Stream : reader[j][s] BY <1>2, <1>3 DEF JobInv, ReaderInv
  <1>7. SaidSoFar(j)' = SaidSoFar(j) => TaskInv(j)'
    BY <1>2, <1>3, <1>4, <1>6 DEF JobInv, TaskInv
  <1>8. ReaderInv(j)' BY <1>1, <1>2, <1>4 DEF ReaderInv
  <1>9. tee[j] \/ ~hook.parallel BY <1>2, <1>3 DEF JobInv, TeeInv, TaskHolds
  <1> QED BY <1>2, <1>4, <1>5, <1>7, <1>8, <1>9, SaysNothing

LEMMA ChildAbortedStep ==
  ASSUME IInv, NEW j \in Job, Running, ChildAborted(j) PROVE IInv'
  <1>1. /\ pc[j] = "wait" /\ pc' = [pc EXCEPT ![j] = "drain"]
        /\ exit' = [exit EXCEPT ![j] = "aborted"]
        /\ child' = [child EXCEPT ![j] = "killed"]
        /\ reader' = [reader EXCEPT ![j] = [s \in Stream |-> FALSE]]
        /\ unread' = [unread EXCEPT ![j] = Nothing]
        /\ UNCHANGED <<hook, main, replay, joined, cancel, failed, cmd, capture, queue,
                       terminal>>
    BY DEF ChildAborted, Goto
  <1>2. TypeOK /\ JobInv(j) BY DEF IInv
  <1>3. /\ pc'[j] = "drain" /\ exit'[j] = "aborted" /\ child'[j] = "killed"
        /\ reader'[j] = [s \in Stream |-> FALSE]
        /\ \A k \in Job \ {j} :
             /\ pc'[k] = pc[k] /\ exit'[k] = exit[k] /\ child'[k] = child[k]
             /\ reader'[k] = reader[k] /\ unread'[k] = unread[k]
    BY <1>1, <1>2 DEF TypeOK, TaskType
  <1>4. TaskType' BY <1>1, <1>2 DEF TypeOK, TaskType, Label, Count, Nothing
  <1>5. \A s \in Stream : ~reader'[j][s] BY <1>3
  <1>6. SaidSoFar(j)' = SaidSoFar(j) => TaskInv(j)'
    BY <1>1, <1>2, <1>3, <1>5 DEF JobInv, TaskInv
  <1>7. ReaderInv(j)' BY <1>3, <1>5 DEF ReaderInv
  <1>8. tee[j] \/ ~hook.parallel BY <1>1, <1>2 DEF JobInv, TeeInv, TaskHolds
  <1> QED BY <1>1, <1>3, <1>4, <1>6, <1>7, <1>8, SaysNothing

LEMMA DrainReadersStep ==
  ASSUME IInv, NEW j \in Job, Running, DrainReaders(j) PROVE IInv'
  <1>1. /\ pc[j] = "drain" /\ pc' = [pc EXCEPT ![j] = "finish"]
        /\ \A s \in Stream : ~reader[j][s]
        /\ UNCHANGED <<hook, main, replay, joined, cancel, failed, cmd, exit, child,
                       unread, reader, capture, queue, terminal>>
    BY DEF DrainReaders, Goto, Drained
  <1>2. TypeOK /\ JobInv(j) BY DEF IInv
  <1>3. pc'[j] = "finish" /\ \A k \in Job \ {j} : pc'[k] = pc[k]
    BY <1>1, <1>2 DEF TypeOK, TaskType
  <1>4. TaskType' BY <1>1, <1>2 DEF TypeOK, TaskType, Label
  <1>5. SaidSoFar(j)' = SaidSoFar(j) => TaskInv(j)'
    BY <1>1, <1>2, <1>3 DEF JobInv, TaskInv
  <1>6. ReaderInv(j)' BY <1>1, <1>3 DEF ReaderInv
  <1>7. tee[j] \/ ~hook.parallel BY <1>1, <1>2 DEF JobInv, TeeInv, TaskHolds
  <1> QED BY <1>1, <1>3, <1>4, <1>5, <1>6, <1>7, SaysNothing

LEMMA TaskFailsStep ==
  ASSUME IInv, NEW j \in Job, Running, TaskFails(j) PROVE IInv'
  <1>1. /\ pc[j] \in {"start", "spawn", "wait", "diagnose"}
        /\ pc' = [pc EXCEPT ![j] = "error"]
        /\ child' = [child EXCEPT ![j] = IF pc[j] = "wait" THEN "killed" ELSE @]
        /\ UNCHANGED <<hook, main, replay, joined, cancel, failed, cmd, exit, unread,
                       reader, capture, queue, terminal>>
    BY DEF TaskFails, Goto
  <1>2. TypeOK /\ JobInv(j) BY DEF IInv
  <1>3. /\ pc'[j] = "error" /\ (pc[j] = "wait" => child'[j] = "killed")
        /\ \A k \in Job \ {j} : pc'[k] = pc[k] /\ child'[k] = child[k]
    BY <1>1, <1>2 DEF TypeOK, TaskType
  <1>4. TaskType' BY <1>1, <1>2 DEF TypeOK, TaskType, Label
  <1>5. SaidSoFar(j)' = SaidSoFar(j) => TaskInv(j)'
    BY <1>1, <1>2, <1>3 DEF JobInv, TaskInv
  <1>6. ReaderInv(j)' BY <1>1, <1>2, <1>3 DEF JobInv, ReaderInv
  <1>7. (\E s \in Stream : reader'[j][s]) => tee[j] \/ ~hook.parallel
    BY <1>1, <1>2 DEF JobInv, TeeInv
  <1>8. ~TaskHolds(j)' BY <1>3 DEF TaskHolds
  <1> QED BY <1>1, <1>3, <1>4, <1>5, <1>6, <1>7, <1>8, SaysNothing

LEMMA CapturedStep ==
  ASSUME IInv, NEW j \in Job, Running, Captured(j) PROVE IInv'
  <1>1. /\ pc[j] = "close" /\ ~tee[j] /\ pc' = [pc EXCEPT ![j] = "diagnose"]
        /\ UNCHANGED <<hook, main, replay, joined, cancel, failed, cmd, exit, child,
                       unread, reader, capture, queue, terminal>>
    BY DEF Captured, Goto
  <1>2. TypeOK /\ JobInv(j) BY DEF IInv
  <1>3. pc'[j] = "diagnose" /\ \A k \in Job \ {j} : pc'[k] = pc[k]
    BY <1>1, <1>2 DEF TypeOK, TaskType
  <1>4. TaskType' BY <1>1, <1>2 DEF TypeOK, TaskType, Label
  <1>5. \A s \in Stream : ~reader[j][s] BY <1>1, <1>2 DEF JobInv, ReaderInv
  <1>6. SaidSoFar(j)' = SaidSoFar(j) => TaskInv(j)'
    BY <1>1, <1>2, <1>3, <1>5 DEF JobInv, TaskInv
  <1>7. ReaderInv(j)' BY <1>1, <1>3, <1>5 DEF ReaderInv
  <1>8. ~TaskHolds(j)' BY <1>3 DEF TaskHolds
  <1> QED BY <1>1, <1>3, <1>4, <1>5, <1>6, <1>7, <1>8, SaysNothing

LEMMA CommandFinishedStep ==
  ASSUME IInv, NEW j \in Job, Running, CommandFinished(j) PROVE IInv'
  <1> DEFINE e == Finished(j, cmd[j], exit[j])
             next == IF GoesOn(j) THEN "start" ELSE IF hook.parallel THEN "close" ELSE "diagnose"
  <1>1. /\ pc[j] = "finish" /\ Emit(j, e)
        /\ failed' = IF exit[j] = "ok" THEN failed ELSE failed \cup {j}
        /\ pc' = [pc EXCEPT ![j] = next]
        /\ GoesOn(j) => cmd' = [cmd EXCEPT ![j] = @ + 1]
        /\ ~GoesOn(j) => cmd' = cmd
        /\ UNCHANGED <<hook, main, replay, joined, cancel, exit, child, unread, reader,
                       held, tee, captured, printed, summary>>
    BY DEF CommandFinished, Goto, terminal
  <1>2. TypeOK /\ MainInv /\ \A k \in Job : JobInv(k) BY DEF IInv
  <1>3. /\ Within(j, SaidSoFar(j), cmd[j]) /\ IsRun(j, SaidSoFar(j))
        /\ \A s \in Stream : ~reader[j][s]
        /\ exit[j] # "aborted" =>
             \A s \in Stream : Told(SaidSoFar(j), cmd[j], s, Lines(j, cmd[j])[s])
    BY <1>1, <1>2 DEF JobInv, TaskInv, ReaderInv
  <1>4. cmd[j] \in Nat /\ exit[j] \in {"ok", "failed", "aborted"} BY <1>2, CommandNow
  <1>5. e \in Event /\ OfRun(e, j)
    BY <1>4 DEF Finished, Ev, Event, OfRun
  <1>6. hook.parallel => tee[j] BY <1>1, <1>2 DEF JobInv, TeeInv, TaskHolds
  <1>7. e = Finished(j, cmd[j], exit[j]) OBVIOUS
  <1>8. /\ GoesOn(j) => next = "start" /\ cmd[j] < Len(Work[j].commands)
        /\ ~GoesOn(j) => next = IF hook.parallel THEN "close" ELSE "diagnose"
    BY DEF GoesOn
  <1> HIDE DEF e, next
  <1>9. /\ local' \in [Job -> Seq(Event)] /\ queue' \in Seq(Event)
        /\ \A i \in DOMAIN local'[j] : OfRun(local'[j][i], j)
        /\ ~tee[j] => local'[j] = << >>
        /\ \A k \in Job \ {j} : local'[k] = local[k] /\ Said(Passed(k), k)' = Said(Passed(k), k)
        /\ SaidSoFar(j)' = Append(SaidSoFar(j), e)
        /\ hook.parallel => Said(Passed(j), j)' = Said(Passed(j), j)
        /\ queue' = queue \/ \E f \in Event : f.job \in Job /\ queue' = Append(queue, f)
    BY <1>1, <1>2, <1>5, <1>6, Emits DEF JobInv
  <1>10. /\ pc' \in [Job -> Label] /\ cmd' \in [Job -> Nat]
         /\ pc'[j] = next /\ (GoesOn(j) => cmd'[j] = cmd[j] + 1)
         /\ \A k \in Job \ {j} : pc'[k] = pc[k] /\ cmd'[k] = cmd[k]
    <2>1. pc \in [Job -> Label] /\ cmd \in [Job -> Nat] BY <1>2 DEF TypeOK, TaskType
    <2>2. next \in Label BY <1>8 DEF Label
    <2>3. CASE GoesOn(j) BY <1>1, <2>1, <2>2, <2>3
    <2>4. CASE ~GoesOn(j) BY <1>1, <2>1, <2>2, <2>4
    <2> QED BY <2>3, <2>4
  <1>11. TypeOK'
    BY <1>1, <1>2, <1>9, <1>10 DEF TypeOK, MainType, TaskType, CaptureType, TerminalType
  <1>12. \A k \in Job \ {j} : JobSame(k) BY <1>1, <1>9, <1>10 DEF JobSame
  <1>13. JobInv(j)'
    <2>1. SaidSoFar(j) \in Seq(Event) BY <1>2, PassedType
    <2>2. /\ IsRun(j, SaidSoFar(j)') /\ AtEnd(SaidSoFar(j)')
          /\ cmd[j] < Len(Work[j].commands) => Before(j, SaidSoFar(j)', cmd[j] + 1)
      BY <1>3, <1>4, <1>7, <1>9, <2>1, FinishedGrows
    <2>3. TaskInv(j)' BY <1>1, <1>3, <1>8, <1>10, <2>2 DEF TaskInv
    <2>4. ReaderInv(j)' BY <1>1, <1>3, <1>8, <1>10 DEF ReaderInv
    <2>5. TeeInv(j)' BY <1>1, <1>2, <1>3, <1>6, <1>8, <1>9, <1>10 DEF TeeInv, JobInv, TaskHolds
    <2>6. ReplayInv(j)' BY <1>8, <1>10 DEF ReplayInv
    <2>7. CaptureInv(j)' BY <1>1, <1>2, <1>9 DEF CaptureInv, JobInv
    <2> QED BY <2>2, <2>3, <2>4, <2>5, <2>6, <2>7 DEF JobInv
  <1> QED BY <1>1, <1>9, <1>11, <1>12, <1>13, OnlyOfJob

LEMMA DiagnoseStep ==
  ASSUME IInv, NEW j \in Job, Running, Diagnose(j) PROVE IInv'
  <1>1. /\ pc[j] = "diagnose" /\ pc' = [pc EXCEPT ![j] = "done"]
        /\ queue' = queue \/ queue' = Append(queue, Diagnostic(j))
        /\ UNCHANGED <<hook, main, replay, joined, cancel, failed, cmd, exit, child,
                       unread, reader, local, held, tee, captured, printed, summary>>
    BY DEF Diagnose, Goto, Send, capture, terminal
  <1>2. TypeOK /\ MainInv /\ \A k \in Job : JobInv(k) BY DEF IInv
  <1>3. /\ Diagnostic(j) \in Event /\ Diagnostic(j).job \in Job
        /\ \A k : ~OfRun(Diagnostic(j), k)
    BY DEF Diagnostic, Ev, Event, OfRun
  <1>4. queue' \in Seq(Event) BY <1>1, <1>2, <1>3, Enqueued DEF TypeOK, TerminalType
  <1>5. \A k \in Job : Said(Passed(k), k)' = Said(Passed(k), k)
    <2>1. CASE queue' = queue BY <1>1, <2>1, Quiet
    <2>2. CASE queue' = Append(queue, Diagnostic(j)) BY <1>1, <1>2, <1>3, <2>2, SendsOther
    <2> QED BY <1>1, <2>1, <2>2
  <1>6. pc'[j] = "done" /\ pc' \in [Job -> Label] /\ \A k \in Job \ {j} : pc'[k] = pc[k]
    BY <1>1, <1>2 DEF TypeOK, TaskType, Label
  <1>7. TypeOK'
    BY <1>1, <1>2, <1>4, <1>6 DEF TypeOK, MainType, TaskType, CaptureType, TerminalType
  <1>8. \A k \in Job \ {j} : JobSame(k) BY <1>1, <1>6 DEF JobSame
  <1>9. JobInv(j)'
    <2>1. SaidSoFar(j)' = SaidSoFar(j) BY <1>1, <1>5, Invisible
    <2>2. \A s \in Stream : ~reader[j][s] BY <1>1, <1>2 DEF JobInv, ReaderInv
    <2>3. IsRun(j, SaidSoFar(j))' /\ TaskInv(j)'
      BY <1>1, <1>2, <1>6, <2>1, <2>2 DEF JobInv, TaskInv
    <2>4. ReaderInv(j)' BY <1>1, <1>6, <2>2 DEF ReaderInv
    <2>5. TeeInv(j)' BY <1>1, <1>2, <1>6, <2>2 DEF JobInv, TeeInv, TaskHolds
    <2>6. ReplayInv(j)' BY <1>6 DEF ReplayInv
    <2>7. CaptureInv(j)' BY <1>1, <1>2, <1>5 DEF JobInv, CaptureInv
    <2> QED BY <2>3, <2>4, <2>5, <2>6, <2>7 DEF JobInv
  <1> QED BY <1>1, <1>3, <1>5, <1>7, <1>8, <1>9, OnlyOfJob

(* The tee takes an event, forwards one, or ends.                          *)
LEMMA TeeReceiveStep ==
  ASSUME IInv, NEW j \in Job, Running, TeeReceive(j) PROVE IInv'
  <1> DEFINE e == Head(local[j])
  <1>1. /\ tee[j] /\ held[j] = << >> /\ local[j] # << >>
        /\ held' = [held EXCEPT ![j] = <<e>>]
        /\ captured' = [captured EXCEPT ![j] = Append(@, e)]
        /\ local' = [local EXCEPT ![j] = Tail(@)]
        /\ UNCHANGED <<hook, main, replay, joined, cancel, failed, pc, cmd, exit, child,
                       unread, reader, tee, queue, printed, summary>>
    BY DEF TeeReceive, task, terminal
  <1>2. TypeOK /\ MainInv /\ \A k \in Job : JobInv(k) BY DEF IInv
  <1>3. /\ local \in [Job -> Seq(Event)] /\ held \in [Job -> Seq(Event)]
        /\ captured \in [Job -> Seq(Event)]
    BY <1>2 DEF TypeOK, CaptureType
  <1>4. /\ e \in Event /\ Tail(local[j]) \in Seq(Event) /\ e = local[j][1]
        /\ 1 \in DOMAIN local[j]
        /\ \A i \in DOMAIN Tail(local[j]) :
             i + 1 \in DOMAIN local[j] /\ Tail(local[j])[i] = local[j][i + 1]
    <2> DEFINE l == local[j]
    <2>1. l \in Seq(Event) /\ l # << >> BY <1>1, <1>3
    <2> HIDE DEF l
    <2>2. /\ Head(l) \in Event /\ Tail(l) \in Seq(Event) /\ Head(l) = l[1]
          /\ 1 \in DOMAIN l
          /\ \A i \in DOMAIN Tail(l) : i + 1 \in DOMAIN l /\ Tail(l)[i] = l[i + 1]
      BY <2>1
    <2> QED BY <2>2 DEF l
  <1>5. OfRun(e, j) /\ \A i \in DOMAIN Tail(local[j]) : OfRun(Tail(local[j])[i], j)
    BY <1>2, <1>4 DEF JobInv, TeeInv
  <1>6. /\ held'[j] = <<e>> /\ local'[j] = Tail(local[j])
        /\ captured'[j] = Append(captured[j], e)
        /\ \A k \in Job \ {j} : /\ held'[k] = held[k] /\ local'[k] = local[k]
                               /\ captured'[k] = captured[k]
    BY <1>1, <1>3
  <1>7. /\ local' \in [Job -> Seq(Event)] /\ held' \in [Job -> Seq(Event)]
        /\ captured' \in [Job -> Seq(Event)]
    <2>1. <<e>> \in Seq(Event) BY <1>4
    <2>2. Append(captured[j], e) \in Seq(Event) BY <1>3, <1>4, Appended
    <2> HIDE DEF e
    <2> QED BY <1>1, <1>3, <1>4, <2>1, <2>2
  <1>8. TypeOK' BY <1>1, <1>2, <1>7 DEF TypeOK, MainType, TaskType, CaptureType, TerminalType
  <1>9. /\ Said(Passed(j), j)' = Append(Said(Passed(j), j), e)
        /\ SaidSoFar(j)' = SaidSoFar(j)
    BY <1>1, <1>2, <1>5, <1>6, Receives
  <1>10. \A k \in Job \ {j} : JobSame(k) /\ Said(Passed(k), k)' = Said(Passed(k), k)
    BY <1>1, <1>6 DEF JobSame, Passed
  <1> HIDE DEF e
  <1>11. JobInv(j)'
    <2>1. TaskInv(j)' BY <1>1, <1>2, <1>9 DEF JobInv, TaskInv
    <2>2. ReaderInv(j)' BY <1>1, <1>2 DEF JobInv, ReaderInv
    <2>3. TeeInv(j)' BY <1>1, <1>2, <1>5, <1>6 DEF JobInv, TeeInv, TaskHolds
    <2>4. ReplayInv(j)' BY <1>1, <1>2, <1>9 DEF JobInv, ReplayInv
    <2>5. CaptureInv(j)' BY <1>1, <1>2, <1>6, <1>9 DEF JobInv, CaptureInv
    <2> QED BY <1>2, <1>9, <2>1, <2>2, <2>3, <2>4, <2>5 DEF JobInv
  <1> QED BY <1>1, <1>8, <1>10, <1>11, OnlyOfJob

LEMMA TeeForwardStep ==
  ASSUME IInv, NEW j \in Job, Running, TeeForward(j) PROVE IInv'
  <1> DEFINE e == held[j][1]
  <1>1. /\ held[j] # << >> /\ queue' = Append(queue, e)
        /\ held' = [held EXCEPT ![j] = << >>]
        /\ UNCHANGED <<hook, main, replay, joined, cancel, failed, pc, cmd, exit, child,
                       unread, reader, local, tee, captured, printed, summary>>
    BY DEF TeeForward, Forward, Send, task, terminal
  <1>2. TypeOK /\ MainInv /\ \A k \in Job : JobInv(k) BY DEF IInv
  <1>3. Len(held[j]) = 1 /\ OfRun(e, j) BY <1>1, <1>2 DEF JobInv, TeeInv
  <1>4. \A k \in Job : Said(Passed(k), k)' = Said(Passed(k), k)
    BY <1>1, <1>2, <1>3, Forwards
  <1>5. e \in Event
    <2>1. held[j] \in Seq(Event) /\ 1 \in 1..Len(held[j]) BY <1>2, <1>3, PassedType
    <2> QED BY <2>1, ElementOfSeq
  <1>6. e.job \in Job BY <1>3 DEF OfRun
  <1> HIDE DEF e
  <1>7. /\ held' \in [Job -> Seq(Event)] /\ held'[j] = << >>
        /\ \A k \in Job \ {j} : held'[k] = held[k]
    <2>1. held \in [Job -> Seq(Event)] /\ << >> \in Seq(Event)
      BY <1>2 DEF TypeOK, CaptureType
    <2> QED BY <1>1, <2>1
  <1>8. queue' \in Seq(Event) BY <1>1, <1>2, <1>5, Enqueued
  <1>9. TypeOK'
    BY <1>1, <1>2, <1>7, <1>8 DEF TypeOK, MainType, TaskType, CaptureType, TerminalType
  <1>10. \A k \in Job \ {j} : JobSame(k) BY <1>1, <1>7 DEF JobSame
  <1>11. JobInv(j)'
    <2>1. SaidSoFar(j)' = SaidSoFar(j) BY <1>1, <1>4, Invisible
    <2>2. TaskInv(j)' BY <1>1, <1>2, <2>1 DEF JobInv, TaskInv
    <2>3. ReaderInv(j)' BY <1>1, <1>2 DEF JobInv, ReaderInv
    <2>4. TeeInv(j)' BY <1>1, <1>2, <1>7 DEF JobInv, TeeInv, TaskHolds
    <2>5. ReplayInv(j)' BY <1>1, <1>2, <2>1 DEF JobInv, ReplayInv
    <2>6. CaptureInv(j)' BY <1>1, <1>2, <1>4 DEF JobInv, CaptureInv
    <2> QED BY <1>2, <2>1, <2>2, <2>3, <2>4, <2>5, <2>6 DEF JobInv
  <1> QED BY <1>1, <1>4, <1>5, <1>6, <1>9, <1>10, <1>11, OnlyOfJob

LEMMA TeeEndsStep ==
  ASSUME IInv, NEW j \in Job, Running, TeeEnds(j) PROVE IInv'
  <1>1. /\ held[j] = << >> /\ local[j] = << >> /\ ~TaskHolds(j)
        /\ \A s \in Stream : ~reader[j][s]
        /\ tee' = [tee EXCEPT ![j] = FALSE]
        /\ UNCHANGED <<hook, main, replay, joined, cancel, failed, pc, cmd, exit, child,
                       unread, reader, local, held, captured, queue, printed, summary>>
    BY DEF TeeEnds, task, terminal
  <1>2. TypeOK /\ MainInv /\ \A k \in Job : JobInv(k) BY DEF IInv
  <1>3. ~tee'[j] /\ tee' \in [Job -> BOOLEAN] /\ \A k \in Job \ {j} : tee'[k] = tee[k]
    BY <1>1, <1>2 DEF TypeOK, CaptureType
  <1>4. TypeOK' BY <1>1, <1>2, <1>3 DEF TypeOK, MainType, TaskType, CaptureType, TerminalType
  <1>5. \A k \in Job : Said(Passed(k), k)' = Said(Passed(k), k) /\ SaidSoFar(k)' = SaidSoFar(k)
    BY <1>1, Quiet
  <1>6. \A k \in Job \ {j} : JobSame(k) BY <1>1, <1>3 DEF JobSame
  <1>7. JobInv(j)'
    <2>1. TaskInv(j)' BY <1>1, <1>2, <1>5 DEF JobInv, TaskInv
    <2>2. ReaderInv(j)' BY <1>1, <1>2 DEF JobInv, ReaderInv
    <2>3. TeeInv(j)' BY <1>1, <1>2, <1>3 DEF JobInv, TeeInv, TaskHolds
    <2>4. ReplayInv(j)' BY <1>1, <1>2, <1>5 DEF JobInv, ReplayInv
    <2>5. CaptureInv(j)' BY <1>1, <1>2, <1>5 DEF JobInv, CaptureInv
    <2> QED BY <1>2, <1>5, <2>1, <2>2, <2>3, <2>4, <2>5 DEF JobInv
  <1> QED BY <1>1, <1>4, <1>5, <1>6, <1>7, OnlyOfJob

(* The scheduler's steps.                                                  *)
LEMMA HitStep == ASSUME IInv, NEW j \in Job, Hit(j) PROVE IInv'
  <1>1. /\ main = "running" /\ pc[j] = "idle" /\ hook.parallel
        /\ queue' = Append(queue, CacheHit(j))
        /\ main' = "replaying" /\ replay' = Beginning(j)
        /\ pc' = [pc EXCEPT ![j] = "hit"]
        /\ UNCHANGED <<hook, joined, cancel, failed, cmd, exit, child, unread, reader,
                       local, held, tee, captured, printed, summary>>
    BY DEF Hit, Send, Goto, capture, terminal
  <1>2. TypeOK /\ MainInv /\ \A k \in Job : JobInv(k) BY DEF IInv
  <1>3. /\ CacheHit(j) \in Event /\ CacheHit(j).job \in Job
        /\ \A k : ~OfRun(CacheHit(j), k)
    BY DEF CacheHit, Ev, Event, OfRun
  <1>4. /\ replay'.job = j /\ replay'.cmd = 1 /\ replay'.at = "start"
        /\ replay' \in [job : Job \cup {0}, cmd : Nat, at : {"start", "lines", "over"}, left : Count]
    BY <1>1 DEF Beginning, Nothing, Count
  <1>5. pc'[j] = "hit" /\ pc' \in [Job -> Label] /\ \A k \in Job \ {j} : pc'[k] = pc[k]
    BY <1>1, <1>2 DEF TypeOK, TaskType, Label
  <1>6. queue' \in Seq(Event) BY <1>1, <1>2, <1>3, Enqueued
  <1>7. TypeOK'
    BY <1>1, <1>2, <1>4, <1>5, <1>6 DEF TypeOK, MainType, TaskType, CaptureType, TerminalType
  <1>8. MainInv'
    <2>1. \A i \in DOMAIN queue' : queue'[i] = Summary \/ queue'[i].job \in Job
      BY <1>1, <1>2, <1>3, Enqueued DEF MainInv
    <2> QED BY <1>1, <1>4, <1>5, <2>1 DEF MainInv
  <1>9. \A k \in Job : Said(Passed(k), k)' = Said(Passed(k), k)
    BY <1>1, <1>2, <1>3, SendsOther
  <1>10. ASSUME NEW k \in Job, k # j PROVE JobInv(k)'
    <2>1. JobSame(k) BY <1>1, <1>5, <1>10 DEF JobSame
    <2>2. ReplaySame(k) BY <1>1, <1>4, <1>10 DEF ReplaySame
    <2> QED BY <1>2, <1>9, <2>1, <2>2, JobKeeps
  <1>11. JobInv(j)'
    <2>1. SaidSoFar(j)' = SaidSoFar(j) BY <1>1, <1>9, Invisible
    <2>2. SaidSoFar(j) = << >> /\ IsRun(j, SaidSoFar(j)) BY <1>1, <1>2 DEF JobInv, TaskInv
    <2>3. \A s \in Stream : ~reader[j][s] BY <1>1, <1>2 DEF JobInv, ReaderInv
    <2>4. TaskInv(j)' BY <1>1, <1>5, <2>3 DEF TaskInv
    <2>5. ReaderInv(j)' BY <1>1, <1>5, <2>3 DEF ReaderInv
    <2>6. TeeInv(j)' BY <1>1, <1>2, <1>5, <2>3 DEF JobInv, TeeInv, TaskHolds
    <2>7. Before(j, << >>, 1) BY WorkFacts DEF Before
    <2>8. ReplayInv(j)' BY <1>1, <1>4, <2>1, <2>2, <2>7 DEF ReplayInv
    <2>9. CaptureInv(j)' BY <1>5 DEF CaptureInv
    <2> QED BY <2>1, <2>2, <2>4, <2>5, <2>6, <2>8, <2>9 DEF JobInv
  <1> QED BY <1>7, <1>8, <1>10, <1>11 DEF IInv

(* A cached job has no tee, and nothing of it waits for one.               *)
LEMMA ReplaySaying ==
  ASSUME IInv, main = "replaying", NEW j \in Job, j = replay.job,
         NEW e \in Event, OfRun(e, j),
         queue' = Append(queue, e), UNCHANGED <<capture, terminal>>
  PROVE  SaidSoFar(j)' = Append(SaidSoFar(j), e)
  <1>1. TypeOK /\ pc[j] = "hit" /\ JobInv(j) BY DEF IInv, MainInv
  <1>2. UNCHANGED <<local, held, printed>> BY DEF capture, terminal
  <1>3. local[j] = << >> /\ held[j] = << >> BY <1>1 DEF JobInv, TeeInv
  <1>4. Said(Passed(j), j)' = Append(Said(Passed(j), j), e) BY <1>1, <1>2, <1>3, Sends
  <1> QED BY <1>1, <1>2, <1>3, <1>4, SentBeforeLocal

LEMMA ReplaySays ==
  ASSUME IInv, main = "replaying", NEW j \in Job, j = replay.job,
         NEW e \in Event, OfRun(e, j), queue' = Append(queue, e),
         UNCHANGED <<hook, main, joined, cancel, failed, task, capture, terminal>>,
         replay' \in [job : Job \cup {0}, cmd : Nat, at : {"start", "lines", "over"}, left : Count],
         replay'.job = j, IsRun(j, SaidSoFar(j)'), ReplayInv(j)'
  PROVE  IInv'
  <1>1. /\ TypeOK /\ MainInv /\ \A k \in Job : JobInv(k)
        /\ UNCHANGED <<hook, main, joined, cancel, failed, pc, cmd, exit, child, unread,
                       reader, local, held, tee, captured, printed, summary>>
    BY DEF IInv, task, capture, terminal
  <1>2. queue' \in Seq(Event) BY <1>1, Enqueued
  <1>3. TypeOK' BY <1>1, <1>2 DEF TypeOK, MainType, TaskType, CaptureType, TerminalType
  <1>4. MainInv'
    <2>1. e.job \in Job BY DEF OfRun
    <2>2. \A i \in DOMAIN queue' : queue'[i] = Summary \/ queue'[i].job \in Job
      BY <1>1, <2>1, Enqueued DEF MainInv
    <2> QED BY <1>1, <2>2 DEF MainInv
  <1>5. ASSUME NEW k \in Job, k # j PROVE JobInv(k)'
    <2>1. ~OfRun(e, k) BY <1>5 DEF OfRun
    <2>2. Said(Passed(k), k)' = Said(Passed(k), k) BY <1>1, <2>1, SendsOther
    <2>3. JobSame(k) /\ ReplaySame(k) BY <1>1, <1>5 DEF JobSame, ReplaySame
    <2> QED BY <1>1, <2>2, <2>3, JobKeeps
  <1>6. JobInv(j)'
    <2>1. pc[j] = "hit" BY <1>1 DEF MainInv
    <2>2. \A s \in Stream : ~reader[j][s] BY <1>1, <2>1 DEF JobInv, ReaderInv
    <2>3. TaskInv(j)' BY <1>1, <2>1, <2>2 DEF TaskInv
    <2>4. ReaderInv(j)' BY <1>1, <2>1, <2>2 DEF ReaderInv
    <2>5. TeeInv(j)' BY <1>1 DEF JobInv, TeeInv, TaskHolds
    <2>6. CaptureInv(j)' BY <1>1, <2>1 DEF CaptureInv
    <2> QED BY <2>3, <2>4, <2>5, <2>6 DEF JobInv
  <1> QED BY <1>3, <1>4, <1>5, <1>6 DEF IInv

LEMMA ReplayStep == ASSUME IInv, Replay PROVE IInv'
  <1> DEFINE c == replay.cmd
  <1>1. PICK j \in Job : j = replay.job /\ pc[j] = "hit"
    BY DEF Replay, IInv, TypeOK, MainType, MainInv
  <1>2. /\ main = "replaying"
        /\ UNCHANGED <<hook, cancel, failed, task, capture, terminal>>
    BY DEF Replay
  <1>3. TypeOK /\ MainInv /\ \A k \in Job : JobInv(k) BY DEF IInv
  <1>4. /\ replay \in [job : Job \cup {0}, cmd : Nat, at : {"start", "lines", "over"}, left : Count]
        /\ replay.left \in Count /\ c \in Nat
    BY <1>3 DEF TypeOK, MainType
  <1>5. /\ replay.at = "start" => Before(j, SaidSoFar(j), c)
        /\ replay.at = "lines" =>
             /\ Within(j, SaidSoFar(j), c)
             /\ \A s \in Stream :
                  /\ replay.left[s] <= Lines(j, c)[s]
                  /\ Told(SaidSoFar(j), c, s, Lines(j, c)[s] - replay.left[s])
        /\ replay.at = "over" => AtEnd(SaidSoFar(j))
        /\ IsRun(j, SaidSoFar(j)) /\ SaidSoFar(j) \in Seq(Event)
    BY <1>1, <1>2, <1>3, PassedType DEF JobInv, ReplayInv
  <1> HIDE DEF c
  <1>6. ASSUME ReplayStarted, UNCHANGED <<main, joined>> PROVE IInv'
    <2> DEFINE e == Started(j, c)
    <2>1. /\ replay.at = "start" /\ queue' = Append(queue, e)
          /\ replay' = [replay EXCEPT !.at = "lines", !.left = Work[j].commands[c]]
      BY <1>1, <1>6 DEF ReplayStarted, Send, c
    <2>2. /\ Work[j].commands[c] = Lines(j, c) /\ Lines(j, c) \in Count
          /\ \A s \in Stream : Lines(j, c)[s] \in Nat
      BY <1>5, <2>1, WorkFacts DEF Before, Lines
    <2>3. /\ replay' \in [job : Job \cup {0}, cmd : Nat, at : {"start", "lines", "over"}, left : Count]
          /\ replay'.job = j /\ replay'.at = "lines" /\ replay'.cmd = c
          /\ replay'.left = Lines(j, c)
      BY <1>1, <1>4, <2>1, <2>2 DEF c
    <2>4. e \in Event /\ OfRun(e, j) BY <1>4 DEF Started, Ev, Event, OfRun
    <2>5. e = Started(j, c) OBVIOUS
    <2> HIDE DEF e
    <2>6. SaidSoFar(j)' = Append(SaidSoFar(j), e)
      BY <1>1, <1>2, <2>1, <2>4, ReplaySaying
    <2>7. /\ IsRun(j, SaidSoFar(j)') /\ Within(j, SaidSoFar(j)', c)
          /\ \A s \in Stream : Told(SaidSoFar(j)', c, s, 0)
      BY <1>5, <2>1, <2>5, <2>6, StartedGrows
    <2>8. \A s \in Stream : /\ replay'.left[s] <= Lines(j, c)[s]
                            /\ Lines(j, c)[s] - replay'.left[s] = 0
      BY <2>2, <2>3
    <2>9. ReplayInv(j)' BY <1>2, <1>6, <2>3, <2>7, <2>8 DEF ReplayInv
    <2> QED BY <1>1, <1>2, <1>6, <2>1, <2>3, <2>4, <2>7, <2>9, ReplaySays
  <1>7. ASSUME NEW s \in Stream, ReplayLine(s), UNCHANGED <<main, joined>> PROVE IInv'
    <2> DEFINE k == Lines(j, c)[s] - replay.left[s]
               e == Line(j, c, s, k + 1)
    <2>1. /\ replay.at = "lines" /\ replay.left[s] > 0 /\ queue' = Append(queue, e)
          /\ replay' = [replay EXCEPT !.left[s] = @ - 1]
      BY <1>1, <1>7 DEF ReplayLine, Send, c, Lines
    <2>2. \A t \in Stream : Lines(j, c)[t] \in Nat /\ replay.left[t] \in Nat
      BY <1>4, <1>5, <2>1, WorkFacts DEF Within, Count
    <2>3. k \in Nat /\ k < Lines(j, c)[s] /\ replay.left[s] - 1 \in Nat
      BY <1>5, <2>1, <2>2
    <2>4. /\ replay' \in [job : Job \cup {0}, cmd : Nat, at : {"start", "lines", "over"}, left : Count]
          /\ replay'.job = j /\ replay'.at = "lines" /\ replay'.cmd = c
          /\ replay'.left[s] = replay.left[s] - 1
          /\ \A t \in Stream \ {s} : replay'.left[t] = replay.left[t]
      <3>1. replay' = [replay EXCEPT !.left = [replay.left EXCEPT ![s] = @ - 1]]
        BY <1>4, <2>1
      <3>2. /\ [replay.left EXCEPT ![s] = @ - 1] \in Count
            /\ [replay.left EXCEPT ![s] = @ - 1][s] = replay.left[s] - 1
            /\ \A t \in Stream \ {s} : [replay.left EXCEPT ![s] = @ - 1][t] = replay.left[t]
        BY <1>4, <2>2, <2>3 DEF Count
      <3> QED BY <1>1, <1>4, <2>1, <3>1, <3>2 DEF c
    <2>5. e \in Event /\ OfRun(e, j)
      <3> HIDE DEF k
      <3> QED BY <1>4, <2>3, EventsOfRuns
    <2>6. e = Line(j, c, s, k + 1) /\ Told(SaidSoFar(j), c, s, k)
      BY <1>5, <2>1
    <2>7. k = Lines(j, c)[s] - replay.left[s] OBVIOUS
    <2> HIDE DEF e, k
    <2>8. SaidSoFar(j)' = Append(SaidSoFar(j), e)
      BY <1>1, <1>2, <2>1, <2>5, ReplaySaying
    <2>9. /\ IsRun(j, SaidSoFar(j)') /\ Within(j, SaidSoFar(j)', c)
          /\ Told(SaidSoFar(j)', c, s, k + 1)
          /\ \A t \in Stream \ {s}, n \in Nat :
               Told(SaidSoFar(j), c, t, n) => Told(SaidSoFar(j)', c, t, n)
      BY <1>5, <2>1, <2>3, <2>6, <2>8, LineGrows
    <2>10. ASSUME NEW t \in Stream
           PROVE  /\ replay'.left[t] <= Lines(j, c)[t]
                  /\ Told(SaidSoFar(j)', c, t, Lines(j, c)[t] - replay'.left[t])
      <3>1. CASE t = s
        <4>1. /\ k + 1 = Lines(j, c)[s] - replay'.left[s] /\ replay'.left[s] <= Lines(j, c)[s]
          BY <1>5, <2>1, <2>2, <2>3, <2>4, <2>7
        <4> QED BY <2>9, <3>1, <4>1
      <3>2. CASE t # s
        <4>1. /\ replay.left[t] <= Lines(j, c)[t]
              /\ Told(SaidSoFar(j), c, t, Lines(j, c)[t] - replay.left[t])
          BY <1>5, <2>1
        <4>2. Lines(j, c)[t] - replay.left[t] \in Nat BY <2>2, <4>1
        <4> QED BY <2>4, <2>9, <3>2, <4>1, <4>2
      <3> QED BY <3>1, <3>2
    <2>11. ReplayInv(j)' BY <1>2, <1>7, <2>4, <2>9, <2>10 DEF ReplayInv
    <2> QED BY <1>1, <1>2, <1>7, <2>1, <2>4, <2>5, <2>9, <2>11, ReplaySays
  <1>8. ASSUME ReplayFinished, UNCHANGED <<main, joined>> PROVE IInv'
    <2> DEFINE e == Finished(j, c, "ok")
    <2>1. /\ replay.at = "lines" /\ replay.left = Nothing /\ queue' = Append(queue, e)
          /\ c < Len(Work[j].commands) => replay' = [replay EXCEPT !.at = "start", !.cmd = @ + 1]
          /\ ~(c < Len(Work[j].commands)) => replay' = [replay EXCEPT !.at = "over"]
      BY <1>1, <1>8 DEF ReplayFinished, Send, c
    <2>2. /\ replay' \in [job : Job \cup {0}, cmd : Nat, at : {"start", "lines", "over"}, left : Count]
          /\ replay'.job = j /\ replay'.at \in {"start", "over"}
          /\ replay'.at = "start" => replay'.cmd = c + 1 /\ c < Len(Work[j].commands)
      <3>1. CASE c < Len(Work[j].commands)
        <4>1. replay' = [replay EXCEPT !.at = "start", !.cmd = c + 1] /\ c + 1 \in Nat
          BY <1>4, <2>1, <3>1 DEF c
        <4>2. /\ replay' \in [job : Job \cup {0}, cmd : Nat, at : {"start", "lines", "over"}, left : Count]
              /\ replay'.job = replay.job /\ replay'.at = "start" /\ replay'.cmd = c + 1
          BY <1>4, <4>1
        <4> QED BY <1>1, <3>1, <4>2
      <3>2. CASE ~(c < Len(Work[j].commands)) BY <1>1, <1>4, <2>1, <3>2
      <3> QED BY <3>1, <3>2
    <2>3. e \in Event /\ OfRun(e, j) BY <1>4 DEF Finished, Ev, Event, OfRun
    <2>4. e = Finished(j, c, "ok") OBVIOUS
    <2> HIDE DEF e
    <2>5. ASSUME NEW s \in Stream PROVE Told(SaidSoFar(j), c, s, Lines(j, c)[s])
      <3>1. replay.left[s] = 0 BY <2>1 DEF Nothing
      <3>2. Lines(j, c)[s] \in Nat BY <1>5, <2>1, WorkFacts DEF Within
      <3>3. Lines(j, c)[s] - replay.left[s] = Lines(j, c)[s] BY <3>1, <3>2
      <3>4. Told(SaidSoFar(j), c, s, Lines(j, c)[s] - replay.left[s]) BY <1>5, <2>1
      <3> QED BY <3>3, <3>4
    <2>6. SaidSoFar(j)' = Append(SaidSoFar(j), e)
      BY <1>1, <1>2, <2>1, <2>3, ReplaySaying
    <2>7. /\ IsRun(j, SaidSoFar(j)') /\ AtEnd(SaidSoFar(j)')
          /\ c < Len(Work[j].commands) => Before(j, SaidSoFar(j)', c + 1)
      BY <1>5, <2>1, <2>4, <2>5, <2>6, FinishedGrows
    <2>8. ReplayInv(j)' BY <1>2, <1>8, <2>2, <2>7 DEF ReplayInv
    <2> QED BY <1>1, <1>2, <1>8, <2>1, <2>2, <2>3, <2>7, <2>8, ReplaySays
  <1>9. ASSUME replay.at = "over", main' = "running", joined' = joined \cup {replay.job},
               UNCHANGED <<replay, queue>>
        PROVE  IInv'
    <2>1. UNCHANGED <<hook, cancel, failed, pc, cmd, exit, child, unread, reader, local,
                      held, tee, captured, printed, summary>>
      BY <1>2 DEF task, capture, terminal
    <2>2. TypeOK'
      BY <1>1, <1>3, <1>9, <2>1 DEF TypeOK, MainType, TaskType, CaptureType, TerminalType
    <2>3. MainInv' BY <1>3, <1>9 DEF MainInv
    <2>4. \A k \in Job : Said(Passed(k), k)' = Said(Passed(k), k) /\ SaidSoFar(k)' = SaidSoFar(k)
      BY <1>9, <2>1, Quiet
    <2>5. ASSUME NEW k \in Job, k # j PROVE JobInv(k)'
      <3>1. JobSame(k) /\ ReplaySame(k) BY <1>1, <1>9, <2>1, <2>5 DEF JobSame, ReplaySame
      <3> QED BY <1>3, <2>4, <3>1, JobKeeps
    <2>6. JobInv(j)'
      <3>1. TaskInv(j)' BY <1>3, <2>1, <2>4 DEF JobInv, TaskInv
      <3>2. ReaderInv(j)' BY <1>3, <2>1 DEF JobInv, ReaderInv
      <3>3. TeeInv(j)' BY <1>3, <2>1 DEF JobInv, TeeInv, TaskHolds
      <3>4. ReplayInv(j)' BY <1>5, <1>9, <2>4 DEF ReplayInv
      <3>5. CaptureInv(j)' BY <1>3, <2>1, <2>4 DEF JobInv, CaptureInv
      <3> QED BY <1>5, <2>4, <3>1, <3>2, <3>3, <3>4, <3>5 DEF JobInv
    <2> QED BY <2>2, <2>3, <2>5, <2>6 DEF IInv
  <1> QED BY <1>6, <1>7, <1>8, <1>9 DEF Replay

LEMMA JoinStep == ASSUME IInv, NEW j \in Job, Join(j) PROVE IInv'
  <1>1. /\ main = "running" /\ main' \in {"running", "error"}
        /\ joined' = joined \cup {j} /\ cancel' \in BOOLEAN
        /\ UNCHANGED <<hook, replay, failed, pc, cmd, exit, child, unread, reader,
                       local, held, tee, captured, queue, printed, summary>>
    BY DEF Join, Taken, task, capture, terminal, IInv, TypeOK, MainType
  <1>2. TypeOK /\ MainInv /\ \A k \in Job : JobInv(k) BY DEF IInv
  <1>3. TypeOK' BY <1>1, <1>2 DEF TypeOK, MainType, TaskType, CaptureType, TerminalType
  <1>4. MainInv' BY <1>1, <1>2 DEF MainInv
  <1>5. ASSUME NEW k \in Job PROVE JobInv(k)'
    <2>1. Said(Passed(k), k)' = Said(Passed(k), k) BY <1>1, Quiet
    <2>2. JobSame(k) /\ ReplaySame(k) BY <1>1 DEF JobSame, ReplaySame
    <2> QED BY <1>2, <2>1, <2>2, JobKeeps
  <1> QED BY <1>3, <1>4, <1>5 DEF IInv

LEMMA SendSummaryStep == ASSUME IInv, SendSummary PROVE IInv'
  <1>1. /\ main = "running" /\ main' = "closing" /\ queue' = Append(queue, Summary)
        /\ UNCHANGED <<hook, replay, joined, cancel, failed, pc, cmd, exit, child, unread,
                       reader, local, held, tee, captured, printed, summary>>
    BY DEF SendSummary, Send, task, capture, terminal
  <1>2. TypeOK /\ MainInv /\ \A k \in Job : JobInv(k) BY DEF IInv
  <1>3. Summary \in Event /\ \A k : ~OfRun(Summary, k) BY DEF Summary, Ev, Event, OfRun
  <1>4. /\ queue' \in Seq(Event)
        /\ \A i \in DOMAIN queue' : queue'[i] = Summary \/ \E h \in DOMAIN queue : queue'[i] = queue[h]
        /\ \E i \in DOMAIN queue' : queue'[i] = Summary
    BY <1>1, <1>2, <1>3, Enqueued
  <1>5. TypeOK' BY <1>1, <1>2, <1>4 DEF TypeOK, MainType, TaskType, CaptureType, TerminalType
  <1>6. MainInv' BY <1>1, <1>2, <1>4 DEF MainInv
  <1>7. ASSUME NEW k \in Job PROVE JobInv(k)'
    <2>1. Said(Passed(k), k)' = Said(Passed(k), k) BY <1>1, <1>2, <1>3, SendsOther
    <2>2. JobSame(k) /\ ReplaySame(k) BY <1>1 DEF JobSame, ReplaySame
    <2> QED BY <1>2, <2>1, <2>2, JobKeeps
  <1> QED BY <1>5, <1>6, <1>7 DEF IInv

(* The writer's step.                                                      *)
LEMMA WriteStep == ASSUME IInv, Write PROVE IInv'
  <1> DEFINE e == Head(queue)
  <1>1. /\ Running /\ queue # << >> /\ queue' = Tail(queue)
        /\ IF e = Summary THEN summary' = TRUE /\ UNCHANGED printed
           ELSE /\ printed' = [printed EXCEPT ![e.job] = Append(@, e)]
                /\ UNCHANGED summary
        /\ UNCHANGED <<hook, main, replay, joined, cancel, failed, pc, cmd, exit, child,
                       unread, reader, local, held, tee, captured>>
    BY DEF Write, Running, task, capture
  <1>2. TypeOK /\ MainInv /\ \A k \in Job : JobInv(k) BY DEF IInv
  <1>3. /\ queue \in Seq(Event) /\ Tail(queue) \in Seq(Event) /\ e \in Event
        /\ 1 \in DOMAIN queue /\ e = queue[1]
        /\ \A i \in DOMAIN Tail(queue) :
             i + 1 \in DOMAIN queue /\ Tail(queue)[i] = queue[i + 1]
        /\ \A i \in DOMAIN queue : i = 1 \/ \E h \in DOMAIN Tail(queue) : i = h + 1
    <2>1. queue \in Seq(Event) BY <1>2 DEF TypeOK, TerminalType
    <2>2. /\ Tail(queue) \in Seq(Event) /\ e \in Event /\ e = queue[1]
          /\ Len(queue) \in Nat \ {0} /\ DOMAIN queue = 1..Len(queue)
          /\ DOMAIN Tail(queue) = 1..(Len(queue) - 1)
          /\ \A i \in 1..(Len(queue) - 1) : Tail(queue)[i] = queue[i + 1]
      BY <1>1, <2>1
    <2>3. \A i \in 1..Len(queue) : i = 1 \/ (i - 1 \in 1..(Len(queue) - 1) /\ i = (i - 1) + 1)
      BY <2>2
    <2>4. \A i \in DOMAIN queue : i = 1 \/ \E h \in DOMAIN Tail(queue) : i = h + 1
      BY <2>2, <2>3
    <2>5. \A i \in 1..(Len(queue) - 1) : i + 1 \in 1..Len(queue) BY <2>2
    <2>6. 1 \in DOMAIN queue BY <2>2
    <2> HIDE DEF e
    <2> QED BY <2>1, <2>2, <2>4, <2>5, <2>6
  <1> HIDE DEF e
  <1>4. e = Summary \/ e.job \in Job BY <1>2, <1>3 DEF MainInv
  <1>5. printed' \in [Job -> Seq(Event)]
    <2>1. printed \in [Job -> Seq(Event)] BY <1>2 DEF TypeOK, TerminalType
    <2>2. CASE e = Summary BY <1>1, <2>1, <2>2
    <2>3. CASE e # Summary
      <3>1. e.job \in Job /\ printed[e.job] \in Seq(Event) BY <1>4, <2>1, <2>3
      <3>2. Append(printed[e.job], e) \in Seq(Event) BY <1>3, <3>1, Appended
      <3> QED BY <1>1, <2>1, <2>3, <3>1, <3>2
    <2> QED BY <2>2, <2>3
  <1>6. TypeOK'
    BY <1>1, <1>2, <1>3, <1>5 DEF TypeOK, MainType, TaskType, CaptureType, TerminalType
  <1>7. MainInv'
    <2>1. \A i \in DOMAIN queue' : queue'[i] = Summary \/ queue'[i].job \in Job
      BY <1>1, <1>2, <1>3 DEF MainInv
    <2>2. ASSUME main' = "closing" PROVE summary' \/ \E i \in DOMAIN queue' : queue'[i] = Summary
      <3>1. CASE summary \/ e = Summary BY <1>1, <3>1
      <3>2. CASE ~summary /\ e # Summary
        <4>1. PICK i \in DOMAIN queue : queue[i] = Summary
          BY <1>1, <1>2, <2>2, <3>2 DEF MainInv
        <4>2. i # 1 BY <1>3, <3>2, <4>1
        <4>3. PICK h \in DOMAIN Tail(queue) : i = h + 1 BY <1>3, <4>2
        <4> QED BY <1>1, <1>3, <4>1, <4>3
      <3> QED BY <3>1, <3>2
    <2> QED BY <1>1, <1>2, <2>1, <2>2 DEF MainInv, Running
  <1>8. ASSUME NEW k \in Job PROVE JobInv(k)'
    <2>1. \/ UNCHANGED printed /\ Head(queue) = Summary
          \/ /\ Head(queue).job \in Job
             /\ printed' = [printed EXCEPT ![Head(queue).job] = Append(@, Head(queue))]
      BY <1>1, <1>4 DEF e
    <2>2. Said(Passed(k), k)' = Said(Passed(k), k) BY <1>1, <1>2, <2>1, Writes
    <2>3. JobSame(k) /\ ReplaySame(k) BY <1>1 DEF JobSame, ReplaySame
    <2> QED BY <1>2, <2>2, <2>3, JobKeeps
  <1> QED BY <1>6, <1>7, <1>8 DEF IInv

LEMMA ReturnStep == ASSUME IInv, Return PROVE IInv'
  <1>1. /\ main = "closing" /\ main' = "returned" /\ WriterEnded
        /\ UNCHANGED <<hook, replay, joined, cancel, failed, pc, cmd, exit, child, unread,
                       reader, local, held, tee, captured, queue, printed, summary>>
    BY DEF Return, task, capture, terminal
  <1>2. TypeOK /\ MainInv /\ \A k \in Job : JobInv(k) BY DEF IInv
  <1>3. TypeOK' BY <1>1, <1>2 DEF TypeOK, MainType, TaskType, CaptureType, TerminalType
  <1>4. MainInv' BY <1>1, <1>2 DEF MainInv, WriterEnded, Senders
  <1>5. ASSUME NEW k \in Job PROVE JobInv(k)'
    <2>1. Said(Passed(k), k)' = Said(Passed(k), k) BY <1>1, Quiet
    <2>2. JobSame(k) /\ ReplaySame(k) BY <1>1 DEF JobSame, ReplaySame
    <2> QED BY <1>2, <2>1, <2>2, JobKeeps
  <1> QED BY <1>3, <1>4, <1>5 DEF IInv

LEMMA UnchangedStep == ASSUME IInv, UNCHANGED vars PROVE IInv'
  <1>1. UNCHANGED <<hook, main, replay, joined, cancel, failed, pc, cmd, exit, child,
                    unread, reader, local, held, tee, captured, queue, printed, summary>>
    BY DEF vars, task, capture, terminal
  <1>2. TypeOK /\ MainInv /\ \A k \in Job : JobInv(k) BY DEF IInv
  <1>3. TypeOK' BY <1>1, <1>2 DEF TypeOK, MainType, TaskType, CaptureType, TerminalType
  <1>4. MainInv' BY <1>1, <1>2 DEF MainInv, WriterEnded, Senders
  <1>5. ASSUME NEW k \in Job PROVE JobInv(k)'
    <2>1. Said(Passed(k), k)' = Said(Passed(k), k) BY <1>1, Quiet
    <2>2. JobSame(k) /\ ReplaySame(k) BY <1>1 DEF JobSame, ReplaySame
    <2> QED BY <1>2, <2>1, <2>2, JobKeeps
  <1> QED BY <1>3, <1>4, <1>5 DEF IInv

-----------------------------------------------------------------------------
(* The invariant, and what follows from it.                                *)

LEMMA SaidNothing == ASSUME NEW j PROVE Said(<< >>, j) = << >>
  <1>1. Said(<< >>, j) \in Seq(Event) /\ Len(Said(<< >>, j)) = Rank(<< >>, j, 0)
    <2>1. << >> \in Seq(Event) /\ Len(<< >>) = 0 OBVIOUS
    <2> QED BY <2>1, SaidType
  <1>2. Rank(<< >>, j, 0) = 0
    <2>1. 0 \in Nat OBVIOUS
    <2> QED BY <2>1, RankFacts
  <1> QED BY <1>1, <1>2

LEMMA InitInv == Init => IInv
  <1> SUFFICES ASSUME Init PROVE IInv OBVIOUS
  <1>1. TypeOK
    <2>1. MainType BY DEF Init, MainType, Beginning, Nothing, Count
    <2>2. TaskType BY DEF Init, TaskType, Label, Count, Nothing
    <2>3. CaptureType BY DEF Init, CaptureType
    <2>4. TerminalType
      <3>1. << >> \in Seq(Event) OBVIOUS
      <3> QED BY <3>1 DEF Init, TerminalType
    <2> QED BY <2>1, <2>2, <2>3, <2>4 DEF TypeOK
  <1>2. MainInv BY DEF Init, MainInv
  <1>3. ASSUME NEW j \in Job PROVE JobInv(j)
    <2>1. /\ printed[j] = << >> /\ queue = << >> /\ held[j] = << >> /\ local[j] = << >>
          /\ pc[j] = "idle" /\ cmd[j] = 1 /\ ~tee[j] /\ captured[j] = << >>
          /\ \A s \in Stream : ~reader[j][s]
      BY DEF Init
    <2>2. Passed(j) = << >> BY <2>1 DEF Passed
    <2>3. Said(Passed(j), j) = << >> /\ SaidSoFar(j) = << >>
      BY <2>1, <2>2, SaidNothing DEF SaidSoFar
    <2>4. IsRun(j, << >>) BY DEF IsRun
    <2>5. TaskInv(j) BY <2>1, <2>3 DEF TaskInv
    <2>6. ReaderInv(j) BY <2>1 DEF ReaderInv
    <2>7. TeeInv(j) BY <2>1 DEF TeeInv, TaskHolds
    <2>8. ReplayInv(j) BY <2>1 DEF ReplayInv
    <2>9. CaptureInv(j) BY <2>1, <2>3 DEF CaptureInv
    <2> QED BY <2>3, <2>4, <2>5, <2>6, <2>7, <2>8, <2>9 DEF JobInv
  <1> QED BY <1>1, <1>2, <1>3 DEF IInv

LEMMA NextInv == IInv /\ [Next]_vars => IInv'
  <1> SUFFICES ASSUME IInv, [Next]_vars PROVE IInv' OBVIOUS
  <1>1. ASSUME NEW j \in Job, JobStep(j) PROVE IInv'
    BY <1>1, CommandStartedStep, SpawnStep, ChildExitsStep, ChildAbortedStep,
       DrainReadersStep, CommandFinishedStep, TaskFailsStep, CapturedStep, DiagnoseStep,
       ReadLineStep, ReadEndStep DEF JobStep
  <1>2. ASSUME NEW j \in Job, TeeStep(j) PROVE IInv'
    BY <1>2, TeeReceiveStep, TeeForwardStep, TeeEndsStep DEF TeeStep
  <1>3. CASE MainStep
    BY <1>3, ReplayStep, SendSummaryStep, ReturnStep, StartStep, HitStep, JoinStep
    DEF MainStep
  <1>4. CASE Write BY <1>4, WriteStep
  <1>5. CASE Ended \/ UNCHANGED vars BY <1>5, UnchangedStep DEF Ended
  <1> QED BY <1>1, <1>2, <1>3, <1>4, <1>5 DEF Next

(* The events of every job are where the invariant says.                   *)
THEOREM Invariance == Spec => []IInv
  BY InitInv, NextInv, PTL DEF Spec

(* Every variable has its type: what is captured, sent and printed are     *)
(* sequences of events, whatever the commands write (output.rs,            *)
(* executor.rs).                                                           *)
THEOREM TypeCorrect == Spec => []TypeOK
  <1>1. IInv => TypeOK BY DEF IInv
  <1> QED BY <1>1, Invariance, PTL

(* What the terminal shows of a job is, whatever the interleaving of its   *)
(* two readers, its tee, the other jobs and the writer, the beginning of a *)
(* run of its commands: nothing twice, nothing out of order, nothing after *)
(* its end, and no end without the whole of what came before (proc.rs      *)
(* 183-200, output.rs 3-7).                                                *)
THEOREM TranscriptsRun == Spec => []TranscriptsAreRuns
  <1>1. IInv => TranscriptsAreRuns
    <2> SUFFICES ASSUME IInv, NEW j \in Job PROVE IsRun(j, Said(printed[j], j))
      BY DEF TranscriptsAreRuns
    <2> DEFINE p == printed[j]
               h == held[j]
               r == queue \o h
               all == Said(p \o r, j)
               part == Said(p, j)
    <2>1. /\ p \in Seq(Event) /\ queue \in Seq(Event) /\ h \in Seq(Event)
          /\ local[j] \in Seq(Event)
      BY PassedType DEF IInv
    <2>2. r \in Seq(Event) /\ p \o r \in Seq(Event) BY <2>1
    <2>3. Passed(j) = p \o r
      <3>1. Passed(j) = (p \o queue) \o h BY DEF Passed
      <3> HIDE DEF p, h
      <3>2. (p \o queue) \o h = p \o (queue \o h) BY <2>1, ConcatAssociative
      <3> QED BY <3>1, <3>2
    <2>4. IsRun(j, all \o local[j]) BY <2>3 DEF IInv, JobInv, SaidSoFar
    <2> HIDE DEF p, h, r
    <2>5. part \in Seq(Event) /\ all \in Seq(Event) BY <2>1, <2>2, SaidType
    <2>6. Len(part) <= Len(all) /\ \A k \in 1..Len(part) : part[k] = all[k]
      BY <2>1, <2>2, SaidPrefix
    <2> HIDE DEF all, part
    <2>7. /\ all \o local[j] \in Seq(Event) /\ Len(part) <= Len(all \o local[j])
          /\ \A k \in 1..Len(part) : part[k] = (all \o local[j])[k]
      BY <2>1, <2>5, <2>6
    <2>8. IsRun(j, part) BY <2>4, <2>5, <2>7, RunPrefix
    <2> QED BY <2>8 DEF part, p
  <1> QED BY <1>1, Invariance, PTL

(* What the cache is given of a job that ran is, event for event, what the *)
(* terminal got or will get of it: the tee neither drops, repeats nor      *)
(* reorders, with channels of any capacity (executor.rs 306-335).          *)
THEOREM CaptureIsFaithful == Spec => []CaptureIsWhatIsPrinted
  <1>1. IInv => CaptureIsWhatIsPrinted
    BY DEF IInv, JobInv, CaptureInv, CaptureIsWhatIsPrinted, Passed
  <1> QED BY <1>1, Invariance, PTL

(* When run_hook_with_options returns, the summary and everything that the *)
(* jobs said is written, to the end of their last commands (executor.rs    *)
(* 118-132).                                                               *)
THEOREM ReportComplete == Spec => []ReportMeansPrinted
  <1>1. IInv => ReportMeansPrinted
    <2> SUFFICES ASSUME IInv, main = "returned"
                 PROVE  /\ queue = << >> /\ summary
                        /\ \A j \in Job :
                             /\ local[j] = << >> /\ held[j] = << >>
                             /\ pc[j] \in {"hit", "done"} =>
                                  /\ Said(printed[j], j) # << >>
                                  /\ Said(printed[j], j)[Len(Said(printed[j], j))].is = "finished"
      BY DEF ReportMeansPrinted
    <2>1. TypeOK /\ MainInv /\ \A j \in Job : JobInv(j) BY DEF IInv
    <2>2. queue = << >> /\ Senders = {} BY <2>1 DEF MainInv, WriterEnded
    <2>3. summary BY <2>1, <2>2 DEF MainInv
    <2>4. ASSUME NEW j \in Job
          PROVE  /\ local[j] = << >> /\ held[j] = << >>
                 /\ pc[j] \in {"hit", "done"} => AtEnd(Said(printed[j], j))
      <3>1. ~tee[j] BY <2>2 DEF Senders
      <3>2. local[j] = << >> /\ held[j] = << >> BY <2>1, <3>1 DEF JobInv, TeeInv
      <3>3. SaidSoFar(j) = Said(printed[j], j)
        <4> DEFINE p == printed[j]
        <4>1. p \in Seq(Event) BY <2>1, PassedType
        <4> HIDE DEF p
        <4>2. p \o << >> \o << >> = p BY <4>1
        <4>3. Said(p, j) \in Seq(Event) BY <4>1, SaidType
        <4>4. Said(p, j) \o << >> = Said(p, j) BY <4>3
        <4>5. SaidSoFar(j) = Said(p \o << >> \o << >>, j) \o << >>
          BY <2>2, <3>2 DEF SaidSoFar, Passed, p
        <4> QED BY <4>2, <4>4, <4>5 DEF p
      <3>4. pc[j] \in {"hit", "done"} => AtEnd(SaidSoFar(j))
        BY <2>1 DEF JobInv, TaskInv, ReplayInv
      <3> QED BY <3>2, <3>3, <3>4
    <2> QED BY <2>2, <2>3, <2>4 DEF AtEnd
  <1> QED BY <1>1, Invariance, PTL
=============================================================================
