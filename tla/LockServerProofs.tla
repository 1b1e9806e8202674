------------------------- MODULE LockServerProofs -------------------------
(***************************************************************************)
(* Theorems about module LockServer, for any clients, any lock keys with   *)
(* any number of permits, and any requests.                                *)
(***************************************************************************)
EXTENDS LockServer, FiniteSetTheorems, SequenceTheorems, TLAPS

Acquire == [op : {"acquire"}, key : Key, timed : Patience]

(* A client in a queue waits for the key of that queue.                    *)
WaitInv ==
  \A k \in Key : \A i \in 1..Len(queue[k]) :
    conn[queue[k][i]] = "acquiring" /\ wants[queue[k][i]].key = k

(* Nobody stands in a queue twice.                                         *)
OnceInv ==
  \A k \in Key : \A i, j \in 1..Len(queue[k]) :
    queue[k][i] = queue[k][j] => i = j

(* A handler that waits or has waited knows for what.                      *)
BusyInv ==
  \A c \in Client : conn[c] \in {"acquiring", "assigned"} => wants[c] \in Acquire

(* Tokens are handed out once.                                             *)
TokenInv ==
  /\ \A c \in Client : \A p \in held[c] : p.token < next_token
  /\ \A c, d \in Client : \A p \in held[c] : p \in held[d] => c = d

FiniteInv ==
  \A k \in Key : IsFiniteSet(Assigned(k)) /\ IsFiniteSet(Of(held, k))

(* What a client believes it has, the server holds for it.                 *)
OwnInv ==
  \A c \in Client :
    /\ owns[c] \subseteq held[c]
    /\ ~open[c] => owns[c] = {}
    /\ conn[c] # "replying" => grant[c] = {}

(* A Release that is under way is of a token that the client neither has   *)
(* nor is about to be told.                                                *)
FrameInv ==
  \A c \in Client : \A i \in 1..Len(inbox[c]) :
    inbox[c][i].op = "release" =>
      /\ inbox[c][i].token < next_token
      /\ \A p \in owns[c] \cup grant[c] : p.token # inbox[c][i].token

(* The timer runs, and the daemon ends, with no connection to serve.       *)
LoopInv == loop \in {"timing", "exited"} => Active = {}

PoolInv ==
  /\ WaitInv /\ OnceInv /\ BusyInv /\ TokenInv /\ FiniteInv
  /\ PermitsConserved /\ NobodyWaitsForAFreePermit

IInv == TypeOK /\ PoolInv /\ OwnInv /\ FrameInv /\ LoopInv

LEMMA NoRequestIsOne == NoRequest \in Request
  BY DEF NoRequest, Request

LEMMA InitIInv == Init => IInv
  <1> SUFFICES ASSUME Init PROVE IInv
    OBVIOUS
  <1>1. TypeOK
    BY KeyAssumption, BudgetsAssumption, NoRequestIsOne, EmptySeq
    DEF Init, TypeOK, ConnState, Token
  <1>2. \A k \in Key : Assigned(k) = {} /\ Of(held, k) = {}
    BY DEF Init, Assigned, Of
  <1>3. FiniteInv /\ PermitsConserved
    <2>1. IsFiniteSet({}) /\ Cardinality({}) = 0
      BY FS_EmptySet
    <2>2. FiniteInv
      BY <1>2, <2>1 DEF FiniteInv
    <2>3. ASSUME NEW k \in Key
          PROVE  avail[k] + Cardinality(Assigned(k))
                   + Cardinality(Of(held, k)) = k.permits
      <3>1. avail[k] = k.permits /\ k.permits \in Nat
        BY KeyAssumption DEF Init
      <3>2. QED
        BY <1>2, <2>1, <3>1
    <2>4. QED
      BY <2>2, <2>3 DEF PermitsConserved
  <1>4. WaitInv /\ OnceInv /\ BusyInv /\ TokenInv /\ NobodyWaitsForAFreePermit
    BY EmptySeq
    DEF Init, WaitInv, OnceInv, BusyInv, TokenInv, NobodyWaitsForAFreePermit
  <1>5. OwnInv
    BY DEF Init, OwnInv
  <1>b. LoopInv
    BY DEF Init, LoopInv
  <1>a. FrameInv
    BY EmptySeq DEF Init, FrameInv
  <1>6. QED
    BY <1>1, <1>3, <1>4, <1>5, <1>a, <1>b DEF IInv, PoolInv

-----------------------------------------------------------------------------
(* The first frame of an inbox.                                            *)
LEMMA FrameFacts ==
  ASSUME IInv, NEW c \in Client, NEW op, Frame(c, op)
  PROVE  /\ conn[c] = "reading" /\ grant[c] = {}
         /\ Head(inbox[c]) = inbox[c][1]
         /\ 1 \in 1..Len(inbox[c])
         /\ Head(inbox[c]) \in Request
         /\ inbox' = [inbox EXCEPT ![c] = Tail(inbox[c])]
         /\ inbox' \in [Client -> Seq(Request)]
         /\ \A d \in Client : \A i \in 1..Len(inbox'[d]) :
              \E j \in 1..Len(inbox[d]) : inbox'[d][i] = inbox[d][j]
         /\ UNCHANGED <<loop, open, left, owns>>
  <1>1. /\ conn[c] = "reading" /\ grant[c] = {}
        /\ inbox[c] \in Seq(Request) /\ inbox[c] # <<>>
        /\ inbox' = [inbox EXCEPT ![c] = Tail(inbox[c])]
        /\ UNCHANGED <<loop, open, left, owns>>
    BY DEF IInv, TypeOK, OwnInv, Frame
  <1>2. /\ Tail(inbox[c]) \in Seq(Request)
        /\ Head(inbox[c]) \in Request
        /\ Len(Tail(inbox[c])) = Len(inbox[c]) - 1
        /\ \A i \in 1..Len(Tail(inbox[c])) :
             Tail(inbox[c])[i] = inbox[c][i + 1]
    BY <1>1, HeadTailProperties
  <1>3. Len(inbox[c]) \in Nat \ {0}
    BY <1>1, EmptySeq
  <1>4. Head(inbox[c]) = inbox[c][1]
    BY <1>1
  <1>5. inbox' \in [Client -> Seq(Request)]
    BY <1>1, <1>2 DEF IInv, TypeOK
  <1>6. ASSUME NEW d \in Client, NEW i \in 1..Len(inbox'[d])
        PROVE  \E j \in 1..Len(inbox[d]) : inbox'[d][i] = inbox[d][j]
    <2>1. CASE d = c
      <3>1. inbox'[d] = Tail(inbox[c])
        BY <1>1, <2>1 DEF IInv, TypeOK
      <3>2. i + 1 \in 1..Len(inbox[c])
        BY <3>1, <1>2, <1>3
      <3>3. QED
        BY <1>2, <2>1, <3>1, <3>2
    <2>2. CASE d # c
      BY <1>1, <2>2 DEF IInv, TypeOK
    <2>3. QED
      BY <2>1, <2>2
  <1>7. QED
    BY <1>1, <1>2, <1>3, <1>4, <1>5, <1>6

(* Distinct elements of a sequence make a set as large as their number.    *)
LEMMA CountFirst ==
  ASSUME NEW s, NEW n \in Nat, NEW T,
         \A i \in 1..n : s[i] \in T,
         \A t \in T : \E i \in 1..n : s[i] = t,
         \A i, j \in 1..n : s[i] = s[j] => i = j
  PROVE  IsFiniteSet(T) /\ Cardinality(T) = n
  <1> DEFINE f == [i \in 1..n |-> s[i]]
  <1>1. n \in Nat
    OBVIOUS
  <1>2. f \in [1..n -> T] /\ \A t \in T : \E i \in 1..n : f[i] = t
    OBVIOUS
  <1>3. \A i, j \in 1..n : f[i] = f[j] => i = j
    OBVIOUS
  <1>4. f \in Surjection(1..n, T)
    BY <1>2 DEF Surjection
  <1>5. f \in Injection(1..n, T)
    BY <1>2, <1>3 DEF Injection, IsInjective
  <1>6. IsFiniteSet(1..n) /\ Cardinality(1..n) = n
    BY <1>1, FS_Interval
  <1>7. QED
    BY <1>4, <1>5, <1>6, FS_Surjection

-----------------------------------------------------------------------------
(* Steps that leave the semaphores alone.                                  *)

Waiting == {"acquiring", "assigned"}

(* No permit moves, and no handler begins or ceases to wait.               *)
Quiet ==
  /\ UNCHANGED <<avail, queue, held, wants>>
  /\ next_token' >= next_token
  /\ \A c \in Client :
       conn[c] \in Waiting \/ conn'[c] \in Waiting => conn'[c] = conn[c]

LEMMA QuietPool ==
  ASSUME IInv, Quiet, TypeOK' PROVE PoolInv'
  <1>1. \A k \in Key : Assigned(k)' = Assigned(k) /\ Of(held, k)' = Of(held, k)
    BY DEF Quiet, Waiting, Assigned, Of
  <1>2. FiniteInv' /\ PermitsConserved'
    BY <1>1 DEF IInv, PoolInv, FiniteInv, PermitsConserved, Quiet
  <1>3. WaitInv'
    BY LenProperties, ElementOfSeq
    DEF IInv, PoolInv, TypeOK, WaitInv, Quiet, Waiting
  <1>4. OnceInv' /\ BusyInv' /\ NobodyWaitsForAFreePermit'
    BY DEF IInv, PoolInv, OnceInv, BusyInv, NobodyWaitsForAFreePermit, Quiet,
           Waiting
  <1>5. TokenInv'
    <2>1. \A c \in Client : \A p \in held[c] : p.token \in Nat
      BY DEF IInv, TypeOK, Permit, Token
    <2>2. next_token \in Nat /\ next_token' \in Nat
      BY DEF IInv, TypeOK, Token
    <2>3. QED
      BY <2>1, <2>2 DEF IInv, PoolInv, TokenInv, Quiet
  <1>6. QED
    BY <1>2, <1>3, <1>4, <1>5 DEF PoolInv

-----------------------------------------------------------------------------
(* Clients and the accept loop.                                            *)

LEMMA ConnectStep == ASSUME IInv, NEW c \in Client, Connect(c) PROVE IInv'
  <1>1. TypeOK'
    BY DEF IInv, TypeOK, Connect, ConnState
  <1>2. PoolInv'
    BY <1>1, QuietPool DEF Quiet, Waiting, Connect, IInv, TypeOK, Token
  <1>3. OwnInv' /\ FrameInv'
    BY DEF IInv, TypeOK, OwnInv, FrameInv, Connect
  <1>4. LoopInv'
    BY DEF IInv, TypeOK, LoopInv, Active, Connect
  <1>5. QED
    BY <1>1, <1>2, <1>3, <1>4 DEF IInv

LEMMA SendStep ==
  ASSUME IInv, NEW c \in Client, NEW r \in Request, Send(c, r),
         r.op = "release" => /\ r.token \in 1..(next_token - 1)
                             /\ \A p \in grant[c] : p.token # r.token
  PROVE  IInv'
  <1>0. /\ open[c] /\ left[c] > 0
        /\ inbox' = [inbox EXCEPT ![c] = Append(inbox[c], r)]
        /\ left' = [left EXCEPT ![c] = left[c] - 1]
        /\ owns' = [owns EXCEPT ![c] = IF r.op = "release"
                         THEN {p \in owns[c] : p.token # r.token} ELSE owns[c]]
        /\ UNCHANGED <<loop, conn, open, wants, avail, queue, held, grant,
                       next_token>>
    BY DEF Send
  <1>1. /\ Append(inbox[c], r) \in Seq(Request)
        /\ Len(Append(inbox[c], r)) = Len(inbox[c]) + 1
        /\ \A i \in 1..Len(inbox[c]) : Append(inbox[c], r)[i] = inbox[c][i]
        /\ Append(inbox[c], r)[Len(inbox[c]) + 1] = r
        /\ Len(inbox[c]) \in Nat
    BY AppendProperties, LenProperties DEF IInv, TypeOK
  <1>2. TypeOK'
    <2>1. owns' \in [Client -> SUBSET Permit] /\ left' \in [Client -> Nat]
      BY <1>0 DEF IInv, TypeOK
    <2>2. inbox' \in [Client -> Seq(Request)]
      BY <1>0, <1>1 DEF IInv, TypeOK
    <2>3. QED
      BY <1>0, <2>1, <2>2 DEF IInv, TypeOK
  <1>3. PoolInv'
    BY <1>0, <1>2, QuietPool DEF Quiet, Waiting, IInv, TypeOK, Token
  <1>4. \A d \in Client : owns'[d] \subseteq owns[d]
    BY <1>0 DEF IInv, TypeOK
  <1>5. OwnInv'
    BY <1>0, <1>4 DEF IInv, OwnInv
  <1>6. FrameInv'
    <2> SUFFICES ASSUME NEW d \in Client, NEW i \in 1..Len(inbox'[d]),
                        inbox'[d][i].op = "release"
                 PROVE  /\ inbox'[d][i].token < next_token
                        /\ \A p \in owns'[d] \cup grant[d] :
                             p.token # inbox'[d][i].token
      BY <1>0 DEF FrameInv
    <2>1. CASE d = c /\ i = Len(inbox[c]) + 1
      <3>1. inbox'[d][i] = r
        BY <1>0, <1>1, <2>1 DEF IInv, TypeOK
      <3>2. \A p \in owns'[d] : p.token # r.token
        BY <1>0, <2>1, <3>1 DEF IInv, TypeOK
      <3>3. next_token \in Nat
        BY DEF IInv, TypeOK, Token
      <3>4. QED
        BY <2>1, <3>1, <3>2, <3>3
    <2>2. CASE ~(d = c /\ i = Len(inbox[c]) + 1)
      <3>1. i \in 1..Len(inbox[d]) /\ inbox'[d][i] = inbox[d][i]
        BY <1>0, <1>1, <2>2 DEF IInv, TypeOK
      <3>2. QED
        BY <1>4, <3>1 DEF IInv, FrameInv
    <2>3. QED
      BY <2>1, <2>2
  <1>7. LoopInv'
    BY <1>0 DEF IInv, LoopInv, Active
  <1>8. QED
    BY <1>2, <1>3, <1>5, <1>6, <1>7 DEF IInv

LEMMA SendAnyStep == ASSUME IInv, NEW c \in Client, SendAny(c) PROVE IInv'
  <1>1. ASSUME NEW k \in Key, NEW t \in Patience,
               Send(c, [op |-> "acquire", key |-> k, timed |-> t])
        PROVE  IInv'
    <2>1. [op |-> "acquire", key |-> k, timed |-> t] \in Request
      BY DEF Request
    <2>2. QED
      BY <1>1, <2>1, SendStep
  <1>2. ASSUME NEW t \in (1..(next_token - 1)) \ {p.token : p \in grant[c]},
               Send(c, [op |-> "release", token |-> t])
        PROVE  IInv'
    <2>1. [op |-> "release", token |-> t] \in Request
      BY DEF Request, Token, IInv, TypeOK
    <2>2. QED
      BY <1>2, <2>1, SendStep
  <1>3. CASE Send(c, NoRequest)
    BY <1>3, NoRequestIsOne, SendStep DEF NoRequest
  <1>4. QED
    BY <1>1, <1>2, <1>3 DEF SendAny

LEMMA DisconnectStep == ASSUME IInv, NEW c \in Client, Disconnect(c) PROVE IInv'
  <1>1. TypeOK'
    BY DEF IInv, TypeOK, Disconnect
  <1>2. PoolInv'
    BY <1>1, QuietPool DEF Quiet, Waiting, Disconnect, IInv, TypeOK, Token
  <1>a. \A d \in Client : owns'[d] \subseteq owns[d] /\ (d = c => owns'[d] = {})
    BY DEF IInv, TypeOK, Disconnect
  <1>b. \A d \in Client : ~open'[d] => ~open[d] \/ d = c
    BY DEF IInv, TypeOK, Disconnect
  <1>3. OwnInv' /\ FrameInv'
    BY <1>a, <1>b DEF IInv, OwnInv, FrameInv, Disconnect
  <1>4. LoopInv'
    BY DEF IInv, LoopInv, Active, Disconnect
  <1>5. QED
    BY <1>1, <1>2, <1>3, <1>4 DEF IInv

LEMMA AcceptStep == ASSUME IInv, NEW c \in Client, Accept(c) PROVE IInv'
  <1>1. TypeOK'
    BY DEF IInv, TypeOK, Accept, ConnState
  <1>2. PoolInv'
    BY <1>1, QuietPool DEF Quiet, Waiting, Accept, IInv, TypeOK, Token
  <1>3. OwnInv' /\ FrameInv'
    BY DEF IInv, TypeOK, OwnInv, FrameInv, Accept
  <1>4. LoopInv'
    BY DEF LoopInv, Accept
  <1>5. QED
    BY <1>1, <1>2, <1>3, <1>4 DEF IInv

LEMMA LoopStep == ASSUME IInv, PollTimer \/ IdleExit PROVE IInv'
  <1>0. /\ loop' \in {"timing", "waiting", "exited"}
        /\ loop' \in {"timing", "exited"} => Active = {}
        /\ UNCHANGED <<conn, open, inbox, left, wants, avail, queue, held,
                       grant, next_token, owns>>
    BY DEF PollTimer, IdleExit, IInv, LoopInv
  <1>1. TypeOK'
    BY <1>0 DEF IInv, TypeOK
  <1>2. PoolInv'
    BY <1>0, <1>1, QuietPool DEF Quiet, IInv, TypeOK, Token
  <1>3. OwnInv' /\ FrameInv' /\ LoopInv'
    BY <1>0 DEF IInv, OwnInv, FrameInv, LoopInv, Active
  <1>4. QED
    BY <1>1, <1>2, <1>3 DEF IInv

-----------------------------------------------------------------------------
(* Permits that come and go.                                               *)

(* An Acquire that is answered with a permit, from the semaphore or from   *)
(* the waiting handler's hands.                                            *)
LEMMA HoldPool ==
  ASSUME IInv, TypeOK', NEW c \in Client, NEW k \in Key, Hold(c, k),
         UNCHANGED queue,
         \A d \in Client \ {c} : wants'[d] = wants[d],
         \/ /\ conn[c] = "reading" /\ avail[k] > 0
            /\ avail' = [avail EXCEPT ![k] = @ - 1]
         \/ conn[c] = "assigned" /\ wants[c].key = k /\ UNCHANGED avail
  PROVE  PoolInv'
  <1> DEFINE p == [token |-> next_token, key |-> k]
  <1>0. /\ held' = [held EXCEPT ![c] = held[c] \cup {p}]
        /\ next_token' = next_token + 1 /\ next_token \in Nat
        /\ conn' = [conn EXCEPT ![c] = "replying"]
        /\ held \in [Client -> SUBSET Permit]
        /\ conn \in [Client -> ConnState]
        /\ avail \in [Key -> Nat]
    BY DEF Hold, IInv, TypeOK, Token
  <1>1. \A d \in Client : p \notin held[d]
    BY <1>0 DEF IInv, PoolInv, TokenInv
  <1>2. \A d \in Client \ {c} : conn'[d] = conn[d] /\ held'[d] = held[d]
    BY <1>0
  <1>3. conn'[c] = "replying" /\ held'[c] = held[c] \cup {p}
    BY <1>0
  <1>4. TokenInv'
    <2>1. ASSUME NEW d \in Client, NEW q \in held'[d]
          PROVE  q.token < next_token'
      <3>1. q = p \/ q \in held[d]
        BY <1>2, <1>3, <2>1
      <3>2. q \in held[d] => q.token \in Nat /\ q.token < next_token
        BY <1>0 DEF IInv, PoolInv, TokenInv, Permit, Token
      <3>3. QED
        BY <1>0, <3>1, <3>2
    <2>2. ASSUME NEW d \in Client, NEW e \in Client, NEW q \in held'[d],
                 q \in held'[e]
          PROVE  d = e
      BY <1>1, <1>2, <1>3, <2>2 DEF IInv, PoolInv, TokenInv
    <2>3. QED
      BY <2>1, <2>2 DEF TokenInv
  <1>5. \A j \in Key : Of(held, j)' = IF j = k THEN Of(held, j) \cup {p}
                                    ELSE Of(held, j)
    BY <1>2, <1>3 DEF Of
  <1>6. p \notin Of(held, k)
    BY <1>1 DEF Of
  <1>7. \A j \in Key : Assigned(j)' = IF j = k /\ conn[c] = "assigned"
                                    THEN Assigned(j) \ {c} ELSE Assigned(j)
    BY <1>2, <1>3 DEF Assigned
  <1>8. conn[c] = "assigned" => c \in Assigned(k)
    BY DEF Assigned
  <1>9. FiniteInv' /\ PermitsConserved'
    <2> SUFFICES ASSUME NEW j \in Key
                 PROVE  /\ IsFiniteSet(Assigned(j)') /\ IsFiniteSet(Of(held, j)')
                        /\ avail'[j] + Cardinality(Assigned(j)')
                             + Cardinality(Of(held, j)') = j.permits
      BY DEF FiniteInv, PermitsConserved
    <2>1. /\ IsFiniteSet(Assigned(j)) /\ IsFiniteSet(Of(held, j))
          /\ avail[j] + Cardinality(Assigned(j)) + Cardinality(Of(held, j))
               = j.permits
      BY DEF IInv, PoolInv, FiniteInv, PermitsConserved
    <2>2. /\ Cardinality(Assigned(j)) \in Nat
          /\ Cardinality(Of(held, j)) \in Nat
          /\ avail[j] \in Nat
      BY <1>0, <2>1, FS_CardinalityType
    <2>3. CASE j # k
      <3>1. avail'[j] = avail[j]
        BY <1>0, <2>3
      <3>2. QED
        BY <1>5, <1>7, <2>1, <2>3, <3>1
    <2>4. CASE j = k
      <3>1. /\ IsFiniteSet(Of(held, j)')
            /\ Cardinality(Of(held, j)') = Cardinality(Of(held, j)) + 1
        BY <1>5, <1>6, <2>1, <2>4, FS_AddElement
      <3>2. CASE conn[c] = "reading"
        <4>1. avail'[j] = avail[j] - 1 /\ Assigned(j)' = Assigned(j)
          BY <1>0, <1>7, <2>4, <3>2
        <4>2. QED
          BY <2>1, <2>2, <3>1, <4>1
      <3>3. CASE conn[c] = "assigned"
        <4>1. avail'[j] = avail[j] /\ Assigned(j)' = Assigned(j) \ {c}
          BY <1>7, <2>4, <3>3
        <4>2. /\ IsFiniteSet(Assigned(j)')
              /\ Cardinality(Assigned(j)') = Cardinality(Assigned(j)) - 1
          BY <1>8, <2>1, <2>4, <3>3, <4>1, FS_RemoveElement
        <4>3. QED
          BY <2>1, <2>2, <3>1, <4>1, <4>2
      <3>4. QED
        BY <3>2, <3>3
    <2>5. QED
      BY <2>3, <2>4
  <1>10. \A j \in Key : \A i \in 1..Len(queue[j]) :
           queue[j][i] \in Client \ {c}
    BY ElementOfSeq DEF IInv, TypeOK, PoolInv, WaitInv
  <1>11. WaitInv' /\ OnceInv'
    BY <1>2, <1>10 DEF IInv, PoolInv, WaitInv, OnceInv
  <1>12. BusyInv'
    BY <1>2, <1>3 DEF IInv, PoolInv, BusyInv
  <1>13. NobodyWaitsForAFreePermit'
    BY <1>0 DEF IInv, PoolInv, NobodyWaitsForAFreePermit
  <1>14. QED
    BY <1>4, <1>9, <1>11, <1>12, <1>13 DEF PoolInv

(* How many waiters the permits of one key serve.                          *)
LEMMA ServedFacts ==
  ASSUME IInv, NEW c \in Client, NEW permits \in SUBSET held[c],
         NEW k \in Key
  PROVE  LET some == {p \in permits : p.key = k}
         IN  /\ IsFiniteSet(some) /\ some \subseteq Of(held, k)
             /\ Freed(permits, k) = Cardinality(some)
             /\ Freed(permits, k) \in Nat
             /\ Served(permits, k) \in 0..Len(queue[k])
             /\ Served(permits, k) <= Freed(permits, k)
             /\ Served(permits, k) = Freed(permits, k)
                  \/ Served(permits, k) = Len(queue[k])
             /\ Served(permits, k) \in Nat
             /\ Served(permits, k) <= Len(queue[k])
             /\ queue[k] \in Seq(Client) /\ Len(queue[k]) \in Nat
  <1> DEFINE some == {p \in permits : p.key = k}
  <1>1. some \subseteq Of(held, k)
    BY DEF Of
  <1>2. IsFiniteSet(some)
    BY <1>1, FS_Subset DEF IInv, PoolInv, FiniteInv
  <1>3. Freed(permits, k) = Cardinality(some) /\ Freed(permits, k) \in Nat
    BY <1>2, FS_CardinalityType DEF Freed
  <1>4. queue[k] \in Seq(Client) /\ Len(queue[k]) \in Nat
    BY LenProperties DEF IInv, TypeOK
  <1>5. QED
    BY <1>1, <1>2, <1>3, <1>4 DEF Served

(* A handler that drops permits hands them to those who wait for them.     *)
LEMMA DropPool ==
  ASSUME IInv, TypeOK', NEW c \in Client, conn[c] \in {"reading", "replying"},
         NEW permits \in SUBSET held[c], NEW next \in {"replying", "ending"},
         Drop(c, permits, next), UNCHANGED <<wants, next_token>>
  PROVE  PoolInv'
  <1> DEFINE some(k) == {p \in permits : p.key = k}
             n(k) == Served(permits, k)
             woken(k) == {queue[k][i] : i \in 1..n(k)}
  <1>1. ASSUME NEW k \in Key
        PROVE  /\ IsFiniteSet(some(k)) /\ some(k) \subseteq Of(held, k)
               /\ Freed(permits, k) = Cardinality(some(k))
               /\ Freed(permits, k) \in Nat
               /\ n(k) \in 0..Len(queue[k]) /\ n(k) <= Freed(permits, k)
               /\ n(k) = Freed(permits, k) \/ n(k) = Len(queue[k])
               /\ n(k) \in Nat /\ n(k) <= Len(queue[k])
               /\ queue[k] \in Seq(Client) /\ Len(queue[k]) \in Nat
    BY ServedFacts
  <1>2. ASSUME NEW k \in Key, NEW i \in 1..Len(queue[k])
        PROVE  /\ queue[k][i] \in Client /\ queue[k][i] # c
               /\ conn[queue[k][i]] = "acquiring" /\ wants[queue[k][i]].key = k
    BY <1>1, ElementOfSeq DEF IInv, PoolInv, WaitInv
  <1>3. ASSUME NEW k \in Key
        PROVE  IsFiniteSet(woken(k)) /\ Cardinality(woken(k)) = n(k)
    <2>1. \A i, j \in 1..Len(queue[k]) : queue[k][i] = queue[k][j] => i = j
      BY DEF IInv, PoolInv, OnceInv
    <2>2. n(k) \in Nat /\ Len(queue[k]) \in Nat /\ n(k) <= Len(queue[k])
      BY <1>1
    <2>3. \A i, j \in 1..n(k) : queue[k][i] = queue[k][j] => i = j
      <3> HIDE DEF n
      <3>1. QED
        BY <2>1, <2>2
    <2>4. /\ \A i \in 1..n(k) : queue[k][i] \in woken(k)
          /\ \A d \in woken(k) : \E i \in 1..n(k) : queue[k][i] = d
      <3> HIDE DEF n
      <3>1. QED
        OBVIOUS
    <2>5. ASSUME NEW s, NEW m, NEW T,
                 s = queue[k], m = n(k), T = woken(k)
          PROVE  IsFiniteSet(T) /\ Cardinality(T) = m
      <3> HIDE DEF n, woken
      <3>1. /\ m \in Nat
            /\ \A i \in 1..m : s[i] \in T
            /\ \A d \in T : \E i \in 1..m : s[i] = d
            /\ \A i, j \in 1..m : s[i] = s[j] => i = j
        BY <2>2, <2>3, <2>4, <2>5
      <3>2. QED
        BY <3>1, CountFirst
    <2>6. QED
      BY <2>5
  <1>4. ASSUME NEW k \in Key, NEW d \in woken(k)
        PROVE  /\ d \in Client /\ d # c /\ conn[d] = "acquiring"
               /\ wants[d].key = k /\ d \in ServedClients(permits)
    <2>1. PICK i \in 1..n(k) : d = queue[k][i]
      BY <1>4
    <2>2. i \in 1..Len(queue[k])
      <3>1. n(k) \in Nat /\ n(k) <= Len(queue[k]) /\ Len(queue[k]) \in Nat
        BY <1>1
      <3>2. QED
        BY <3>1
    <2>3. QED
      BY <1>2, <2>1, <2>2 DEF ServedClients
  <1>5. ASSUME NEW d \in ServedClients(permits)
        PROVE  \E k \in Key : d \in woken(k)
    BY DEF ServedClients
  <1>6. /\ conn' = [d \in Client |-> IF d = c THEN next
                     ELSE IF d \in ServedClients(permits)
                     THEN "assigned" ELSE conn[d]]
        /\ held' = [held EXCEPT ![c] = held[c] \ permits]
        /\ held \in [Client -> SUBSET Permit]
        /\ avail \in [Key -> Nat]
    BY DEF Drop, IInv, TypeOK
  <1>7. ASSUME NEW k \in Key
        PROVE  Assigned(k)' = Assigned(k) \cup woken(k)
    <2>1. ASSUME NEW d \in Assigned(k)' PROVE d \in Assigned(k) \cup woken(k)
      <3>1. d \in Client /\ conn'[d] = "assigned" /\ wants[d].key = k /\ d # c
        BY <1>6 DEF Assigned
      <3>2. CASE d \in ServedClients(permits)
        BY <1>4, <1>5, <3>1, <3>2
      <3>3. CASE d \notin ServedClients(permits)
        BY <1>6, <3>1, <3>3 DEF Assigned
      <3>4. QED
        BY <3>2, <3>3
    <2>2. ASSUME NEW d \in Assigned(k) PROVE d \in Assigned(k)'
      BY <1>6 DEF Assigned
    <2>3. ASSUME NEW d \in woken(k) PROVE d \in Assigned(k)'
      <3>1. /\ d \in Client /\ d # c /\ wants[d].key = k
            /\ d \in ServedClients(permits)
        BY <1>4, <2>3
      <3>2. QED
        BY <1>6, <3>1 DEF Assigned
    <2>4. QED
      BY <2>1, <2>2, <2>3
  <1>8. ASSUME NEW k \in Key PROVE Assigned(k) \cap woken(k) = {}
    BY <1>4 DEF Assigned
  <1>9. ASSUME NEW k \in Key
        PROVE  Of(held, k)' = Of(held, k) \ some(k)
    <2>1. \A d \in Client \ {c} : held'[d] = held[d] /\ held[d] \cap permits = {}
      BY <1>6 DEF IInv, PoolInv, TokenInv
    <2>2. held'[c] = held[c] \ permits
      BY <1>6
    <2>3. QED
      BY <2>1, <2>2 DEF Of
  <1>10. FiniteInv' /\ PermitsConserved'
    <2> SUFFICES ASSUME NEW k \in Key
                 PROVE  /\ IsFiniteSet(Assigned(k)') /\ IsFiniteSet(Of(held, k)')
                        /\ avail'[k] + Cardinality(Assigned(k)')
                             + Cardinality(Of(held, k)') = k.permits
      BY DEF FiniteInv, PermitsConserved
    <2>1. /\ IsFiniteSet(Assigned(k)) /\ IsFiniteSet(Of(held, k))
          /\ avail[k] + Cardinality(Assigned(k)) + Cardinality(Of(held, k))
               = k.permits
          /\ avail[k] \in Nat
      BY <1>6 DEF IInv, PoolInv, FiniteInv, PermitsConserved
    <2>2. /\ Cardinality(Assigned(k)) \in Nat
          /\ Cardinality(Of(held, k)) \in Nat
      BY <2>1, FS_CardinalityType
    <2>3. /\ IsFiniteSet(Assigned(k)')
          /\ Cardinality(Assigned(k)') = Cardinality(Assigned(k)) + n(k)
      <3>1. /\ IsFiniteSet(Assigned(k) \cup woken(k))
            /\ Cardinality(Assigned(k) \cup woken(k)) =
                 Cardinality(Assigned(k)) + Cardinality(woken(k))
                   - Cardinality(Assigned(k) \cap woken(k))
        BY <1>3, <2>1, FS_Union
      <3>2. Cardinality(Assigned(k) \cap woken(k)) = 0
        BY <1>8, FS_EmptySet
      <3>3. n(k) \in Nat
        BY <1>1
      <3>4. Assigned(k)' = Assigned(k) \cup woken(k)
        BY <1>7
      <3>5. Cardinality(woken(k)) = n(k)
        BY <1>3
      <3>6. QED
        <4> HIDE DEF woken, n
        <4>1. QED
          BY <2>2, <3>1, <3>2, <3>3, <3>4, <3>5
    <2>4. /\ IsFiniteSet(Of(held, k)')
          /\ Cardinality(Of(held, k)')
               = Cardinality(Of(held, k)) - Freed(permits, k)
      <3>1. /\ IsFiniteSet(Of(held, k) \ some(k))
            /\ Cardinality(Of(held, k) \ some(k)) = Cardinality(Of(held, k))
                 - Cardinality(Of(held, k) \cap some(k))
        BY <2>1, FS_Difference
      <3>2. Of(held, k) \cap some(k) = some(k)
        BY <1>1
      <3>3. QED
        BY <1>1, <1>9, <3>1, <3>2
    <2>5. avail'[k] = avail[k] + Freed(permits, k) - n(k)
      BY DEF Drop
    <2>6. n(k) \in Nat /\ Freed(permits, k) \in Nat
      BY <1>1
    <2>7. QED
      BY <2>1, <2>2, <2>3, <2>4, <2>5, <2>6
  <1>11. ASSUME NEW k \in Key
         PROVE  /\ Len(queue'[k]) = Len(queue[k]) - n(k)
                /\ Len(queue'[k]) \in Int
                /\ \A i \in 1..Len(queue'[k]) :
                     /\ queue'[k][i] = queue[k][n(k) + i]
                     /\ n(k) + i \in 1..Len(queue[k])
    <2>1. queue'[k] = SubSeq(queue[k], n(k) + 1, Len(queue[k]))
      BY DEF Drop
    <2>2. n(k) \in Nat /\ Len(queue[k]) \in Nat /\ n(k) <= Len(queue[k])
      BY <1>1
    <2>3. \A i \in (n(k) + 1)..Len(queue[k]) : queue[k][i] \in Client
      BY <1>2, <2>2
    <2>4. /\ Len(queue'[k]) = IF n(k) + 1 <= Len(queue[k])
                              THEN Len(queue[k]) - (n(k) + 1) + 1 ELSE 0
          /\ \A i \in 1..(Len(queue[k]) - (n(k) + 1) + 1) :
               queue'[k][i] = queue[k][n(k) + 1 + i - 1]
      <3> HIDE DEF n
      <3>1. n(k) + 1 \in Int /\ Len(queue[k]) \in Int
        BY <2>2
      <3>2. QED
        BY <2>1, <2>3, <3>1, SubSeqProperties
    <2>5. Len(queue'[k]) = Len(queue[k]) - n(k)
      BY <2>2, <2>4
    <2>6. ASSUME NEW i \in 1..Len(queue'[k])
          PROVE  /\ queue'[k][i] = queue[k][n(k) + i]
                 /\ n(k) + i \in 1..Len(queue[k])
      <3> HIDE DEF n
      <3>1. n(k) \in Nat /\ Len(queue[k]) \in Nat
        BY <2>2
      <3>2. i \in Int /\ 1 <= i /\ i <= Len(queue[k]) - n(k)
        BY <2>5, <3>1
      <3>3. /\ n(k) + 1 + i - 1 = n(k) + i
            /\ i \in 1..(Len(queue[k]) - (n(k) + 1) + 1)
            /\ n(k) + i \in 1..Len(queue[k])
        BY <3>1, <3>2
      <3>4. queue'[k][i] = queue[k][n(k) + 1 + i - 1]
        BY <2>4, <3>3
      <3>5. QED
        BY <3>3, <3>4
    <2>7. QED
      BY <2>5, <2>6
  <1>12. WaitInv'
    <2> SUFFICES ASSUME NEW k \in Key, NEW i \in 1..Len(queue'[k])
                 PROVE  /\ conn'[queue'[k][i]] = "acquiring"
                        /\ wants[queue'[k][i]].key = k
      BY DEF WaitInv
    <2> DEFINE d == queue[k][n(k) + i]
    <2>1. /\ queue'[k][i] = d /\ n(k) + i \in 1..Len(queue[k])
      BY <1>11
    <2>2. d \in Client /\ d # c /\ conn[d] = "acquiring" /\ wants[d].key = k
      BY <1>2, <2>1
    <2>3. d \notin ServedClients(permits)
      <3>1. ASSUME d \in ServedClients(permits) PROVE FALSE
        <4>1. PICK j \in Key : d \in woken(j)
          BY <1>5, <3>1
        <4>2. j = k
          BY <1>4, <2>2, <4>1
        <4>3. PICK m \in 1..n(k) : queue[k][m] = d
          BY <4>1, <4>2
        <4>4. m \in 1..Len(queue[k]) /\ m # n(k) + i
          <5>1. n(k) \in Nat /\ n(k) <= Len(queue[k]) /\ Len(queue[k]) \in Nat
            BY <1>1
          <5>2. Len(queue'[k]) \in Int
            BY <1>11
          <5>3. QED
            BY <5>1, <5>2
        <4>5. QED
          BY <2>1, <4>3, <4>4 DEF IInv, PoolInv, OnceInv
      <3>2. QED
        BY <3>1
    <2>4. QED
      BY <1>6, <2>1, <2>2, <2>3
  <1>13. OnceInv'
    <2> SUFFICES ASSUME NEW k \in Key, NEW i \in 1..Len(queue'[k]),
                        NEW j \in 1..Len(queue'[k]), queue'[k][i] = queue'[k][j]
                 PROVE  i = j
      BY DEF OnceInv
    <2>1. /\ queue[k][n(k) + i] = queue[k][n(k) + j]
          /\ n(k) + i \in 1..Len(queue[k]) /\ n(k) + j \in 1..Len(queue[k])
      BY <1>11
    <2>2. n(k) + i = n(k) + j
      BY <2>1 DEF IInv, PoolInv, OnceInv
    <2>3. n(k) \in Nat /\ Len(queue'[k]) \in Int
      BY <1>1, <1>11
    <2>4. QED
      BY <2>2, <2>3
  <1>14. BusyInv'
    <2> SUFFICES ASSUME NEW d \in Client, conn'[d] \in {"acquiring", "assigned"}
                 PROVE  wants[d] \in Acquire
      BY DEF BusyInv
    <2>1. d # c /\ (d \in ServedClients(permits) \/ conn'[d] = conn[d])
      BY <1>6
    <2>2. d \in ServedClients(permits) => conn[d] = "acquiring"
      BY <1>4, <1>5
    <2>3. QED
      BY <2>1, <2>2 DEF IInv, PoolInv, BusyInv
  <1>15. TokenInv'
    <2>1. \A d \in Client : held'[d] \subseteq held[d]
      BY <1>6
    <2>2. QED
      BY <2>1 DEF IInv, PoolInv, TokenInv
  <1>16. NobodyWaitsForAFreePermit'
    <2> SUFFICES ASSUME NEW k \in Key, queue'[k] # <<>> PROVE avail'[k] = 0
      BY DEF NobodyWaitsForAFreePermit
    <2>1. queue'[k] \in Seq(Client)
      BY DEF TypeOK
    <2>2. Len(queue'[k]) # 0
      BY <2>1, EmptySeq
    <2>3. n(k) = Freed(permits, k) /\ Len(queue[k]) # 0
      <3>1. /\ n(k) = Freed(permits, k) \/ n(k) = Len(queue[k])
            /\ n(k) \in Nat /\ Len(queue[k]) \in Nat /\ n(k) <= Len(queue[k])
        BY <1>1
      <3>2. Len(queue'[k]) = Len(queue[k]) - n(k)
        BY <1>11
      <3>3. QED
        BY <2>2, <3>1, <3>2
    <2>4. queue[k] # <<>>
      BY <2>3, EmptySeq
    <2>5. avail[k] = 0
      BY <2>4 DEF IInv, PoolInv, NobodyWaitsForAFreePermit
    <2>6. avail'[k] = avail[k] + Freed(permits, k) - n(k)
      BY DEF Drop
    <2>7. Freed(permits, k) \in Nat
      BY <1>1
    <2>8. QED
      BY <2>3, <2>5, <2>6, <2>7
  <1>17. QED
    BY <1>10, <1>12, <1>13, <1>14, <1>15, <1>16 DEF PoolInv

LEMMA RemoveAtFacts ==
  ASSUME NEW S, NEW s \in Seq(S), NEW i \in 1..Len(s)
  PROVE  /\ RemoveAt(s, i) \in Seq(S)
         /\ Len(RemoveAt(s, i)) = Len(s) - 1
         /\ \A j \in 1..(Len(s) - 1) :
              RemoveAt(s, i)[j] = s[IF j < i THEN j ELSE j + 1]
  <1> DEFINE a == SubSeq(s, 1, i - 1)
             b == SubSeq(s, i + 1, Len(s))
  <1>1. Len(s) \in Nat /\ i \in Nat /\ 1 <= i /\ i <= Len(s)
    BY LenProperties
  <1>2. \A j \in 1..Len(s) : s[j] \in S
    BY ElementOfSeq
  <1>3. /\ a \in Seq(S) /\ Len(a) = i - 1
        /\ \A j \in 1..(i - 1) : a[j] = s[j]
    <2>1. \A j \in 1..(i - 1) : s[j] \in S
      BY <1>1, <1>2
    <2>2. /\ a \in Seq(S)
          /\ Len(a) = IF 1 <= i - 1 THEN i - 1 - 1 + 1 ELSE 0
          /\ \A j \in 1..(i - 1 - 1 + 1) : a[j] = s[1 + j - 1]
      <3>1. 1 \in Int /\ i - 1 \in Int
        BY <1>1
      <3>2. QED
        BY <2>1, <3>1, SubSeqProperties
    <2>3. QED
      BY <1>1, <2>2
  <1>4. /\ b \in Seq(S) /\ Len(b) = Len(s) - i
        /\ \A j \in 1..(Len(s) - i) : b[j] = s[i + j]
    <2>1. \A j \in (i + 1)..Len(s) : s[j] \in S
      BY <1>1, <1>2
    <2>2. /\ b \in Seq(S)
          /\ Len(b) = IF i + 1 <= Len(s) THEN Len(s) - (i + 1) + 1 ELSE 0
          /\ \A j \in 1..(Len(s) - (i + 1) + 1) : b[j] = s[(i + 1) + j - 1]
      <3>1. i + 1 \in Int /\ Len(s) \in Int
        BY <1>1
      <3>2. QED
        BY <2>1, <3>1, SubSeqProperties
    <2>3. QED
      BY <1>1, <2>2
  <1>5. /\ a \o b \in Seq(S) /\ Len(a \o b) = Len(a) + Len(b)
        /\ \A j \in 1..(Len(a) + Len(b)) :
             (a \o b)[j] = IF j <= Len(a) THEN a[j] ELSE b[j - Len(a)]
    BY <1>3, <1>4, ConcatProperties
  <1>6. RemoveAt(s, i) = a \o b
    BY DEF RemoveAt
  <1>7. ASSUME NEW j \in 1..(Len(s) - 1)
        PROVE  RemoveAt(s, i)[j] = s[IF j < i THEN j ELSE j + 1]
    <2> HIDE DEF a, b
    <2>1. RemoveAt(s, i)[j] = IF j <= i - 1 THEN a[j] ELSE b[j - (i - 1)]
      BY <1>1, <1>3, <1>4, <1>5, <1>6
    <2>2. CASE j < i
      BY <1>1, <1>3, <2>1, <2>2
    <2>3. CASE ~(j < i)
      <3>1. j - (i - 1) \in 1..(Len(s) - i) /\ i + (j - (i - 1)) = j + 1
        BY <1>1, <2>3
      <3>2. QED
        BY <1>1, <1>4, <2>1, <2>3, <3>1
    <2>4. QED
      BY <2>2, <2>3
  <1>8. RemoveAt(s, i) \in Seq(S) /\ Len(RemoveAt(s, i)) = Len(a) + Len(b)
    BY <1>5, <1>6
  <1>9. Len(a) + Len(b) = Len(s) - 1
    <2> HIDE DEF a, b
    <2>1. QED
      BY <1>1, <1>3, <1>4
  <1>10. QED
    BY <1>7, <1>8, <1>9

(* A handler that begins to wait.                                          *)
LEMMA WaitPool ==
  ASSUME IInv, TypeOK', NEW c \in Client, NEW k \in Key,
         conn[c] = "reading", avail[k] = 0,
         queue' = [queue EXCEPT ![k] = Append(@, c)],
         conn' = [conn EXCEPT ![c] = "acquiring"],
         NEW r \in Acquire, r.key = k, wants' = [wants EXCEPT ![c] = r],
         UNCHANGED <<avail, held, next_token>>
  PROVE  PoolInv'
  <1>1. \A d \in Client \ {c} : conn'[d] = conn[d] /\ wants'[d] = wants[d]
    BY DEF IInv, TypeOK
  <1>2. conn'[c] = "acquiring" /\ wants'[c] = r
    BY DEF IInv, TypeOK
  <1>a. conn[c] # "assigned" /\ conn'[c] # "assigned"
    BY <1>2
  <1>b. \A j \in Key : Of(held, j)' = Of(held, j)
    BY DEF Of
  <1>3. \A j \in Key : Assigned(j)' = Assigned(j)
    BY <1>1, <1>a DEF Assigned
  <1>4. FiniteInv' /\ PermitsConserved'
    BY <1>3, <1>b DEF IInv, PoolInv, FiniteInv, PermitsConserved
  <1>5. ASSUME NEW j \in Key, NEW i \in 1..Len(queue[j])
        PROVE  /\ queue[j][i] \in Client \ {c}
               /\ conn[queue[j][i]] = "acquiring" /\ wants[queue[j][i]].key = j
    <2>1. queue[j][i] \in Client
      BY ElementOfSeq DEF IInv, TypeOK
    <2>2. conn[queue[j][i]] = "acquiring" /\ wants[queue[j][i]].key = j
      BY DEF IInv, PoolInv, WaitInv
    <2>3. QED
      BY <2>1, <2>2
  <1>6. /\ queue[k] \in Seq(Client) /\ Len(queue[k]) \in Nat
        /\ queue'[k] = Append(queue[k], c)
        /\ \A j \in Key \ {k} : queue'[j] = queue[j]
    BY LenProperties DEF IInv, TypeOK
  <1>7. /\ Len(queue'[k]) = Len(queue[k]) + 1
        /\ \A i \in 1..Len(queue[k]) : queue'[k][i] = queue[k][i]
        /\ queue'[k][Len(queue[k]) + 1] = c
    BY <1>6, AppendProperties
  <1>8. WaitInv'
    <2> SUFFICES ASSUME NEW j \in Key, NEW i \in 1..Len(queue'[j])
                 PROVE  /\ conn'[queue'[j][i]] = "acquiring"
                        /\ wants'[queue'[j][i]].key = j
      BY DEF WaitInv
    <2>1. CASE j = k /\ i = Len(queue[k]) + 1
      BY <1>2, <1>7, <2>1
    <2>2. CASE ~(j = k /\ i = Len(queue[k]) + 1)
      <3>1. i \in 1..Len(queue[j]) /\ queue'[j][i] = queue[j][i]
        BY <1>6, <1>7, <2>2
      <3>2. QED
        BY <1>1, <1>5, <3>1
    <2>3. QED
      BY <2>1, <2>2
  <1>9. OnceInv'
    <2> SUFFICES ASSUME NEW j \in Key, NEW i \in 1..Len(queue'[j]),
                        NEW m \in 1..Len(queue'[j]), queue'[j][i] = queue'[j][m]
                 PROVE  i = m
      BY DEF OnceInv
    <2>1. CASE j # k
      BY <1>6, <2>1 DEF IInv, PoolInv, OnceInv
    <2>2. CASE j = k
      <3>1. \A n \in 1..Len(queue'[k]) :
              \/ n \in 1..Len(queue[k]) /\ queue'[k][n] = queue[k][n]
              \/ n = Len(queue[k]) + 1 /\ queue'[k][n] = c
        BY <1>6, <1>7
      <3>2. QED
        BY <1>5, <2>2, <3>1 DEF IInv, PoolInv, OnceInv
    <2>3. QED
      BY <2>1, <2>2
  <1>10. BusyInv' /\ TokenInv'
    BY <1>1, <1>2 DEF IInv, PoolInv, BusyInv, TokenInv
  <1>11. NobodyWaitsForAFreePermit'
    BY <1>6 DEF IInv, PoolInv, NobodyWaitsForAFreePermit
  <1>12. QED
    BY <1>4, <1>8, <1>9, <1>10, <1>11 DEF PoolInv

(* A handler that gives up.                                                *)
LEMMA GiveUpPool ==
  ASSUME IInv, TypeOK', NEW c \in Client, NEW k \in Key,
         NEW i \in 1..Len(queue[k]), queue[k][i] = c,
         queue' = [queue EXCEPT ![k] = RemoveAt(@, i)],
         conn' = [conn EXCEPT ![c] = "replying"],
         conn[c] = "acquiring", wants[c].key = k,
         wants' = [wants EXCEPT ![c] = NoRequest],
         UNCHANGED <<avail, held, next_token>>
  PROVE  PoolInv'
  <1>1. \A d \in Client \ {c} : conn'[d] = conn[d] /\ wants'[d] = wants[d]
    BY DEF IInv, TypeOK
  <1>2. conn'[c] = "replying"
    BY DEF IInv, TypeOK
  <1>3. \A j \in Key : Assigned(j)' = Assigned(j) /\ Of(held, j)' = Of(held, j)
    BY <1>1, <1>2 DEF Assigned, Of
  <1>4. FiniteInv' /\ PermitsConserved'
    BY <1>3 DEF IInv, PoolInv, FiniteInv, PermitsConserved
  <1>5. /\ queue[k] \in Seq(Client) /\ Len(queue[k]) \in Nat
        /\ queue'[k] = RemoveAt(queue[k], i)
        /\ \A j \in Key \ {k} : queue'[j] = queue[j]
    BY LenProperties DEF IInv, TypeOK
  <1>6. /\ Len(queue'[k]) = Len(queue[k]) - 1
        /\ \A m \in 1..(Len(queue[k]) - 1) :
             queue'[k][m] = queue[k][IF m < i THEN m ELSE m + 1]
    <2>1. /\ Len(RemoveAt(queue[k], i)) = Len(queue[k]) - 1
          /\ \A m \in 1..(Len(queue[k]) - 1) :
               RemoveAt(queue[k], i)[m] = queue[k][IF m < i THEN m ELSE m + 1]
      <3>1. queue[k] \in Seq(Client) /\ i \in 1..Len(queue[k])
        BY <1>5
      <3>2. QED
        BY <3>1, RemoveAtFacts
    <2>2. QED
      BY <1>5, <2>1
  <1>7. ASSUME NEW m \in 1..Len(queue'[k])
        PROVE  \E n \in 1..Len(queue[k]) :
                 /\ n = (IF m < i THEN m ELSE m + 1) /\ n # i
                 /\ queue'[k][m] = queue[k][n]
    <2> DEFINE n == IF m < i THEN m ELSE m + 1
    <2>1. m \in Int /\ i \in Int /\ m \in 1..(Len(queue[k]) - 1)
      BY <1>5, <1>6
    <2>2. n \in 1..Len(queue[k]) /\ n # i
      BY <1>5, <2>1
    <2>3. queue'[k][m] = queue[k][n]
      BY <1>6, <2>1
    <2>4. QED
      BY <2>2, <2>3
  <1>8. WaitInv'
    <2> SUFFICES ASSUME NEW j \in Key, NEW m \in 1..Len(queue'[j])
                 PROVE  /\ conn'[queue'[j][m]] = "acquiring"
                        /\ wants'[queue'[j][m]].key = j
      BY DEF WaitInv
    <2>1. PICK n \in 1..Len(queue[j]) :
            queue'[j][m] = queue[j][n] /\ (j = k => n # i)
      <3>1. CASE j = k
        BY <1>7, <3>1
      <3>2. CASE j # k
        <4>1. queue'[j] = queue[j]
          BY <1>5, <3>2
        <4>2. QED
          BY <3>2, <4>1
      <3>3. QED
        BY <3>1, <3>2
    <2>2. /\ conn[queue[j][n]] = "acquiring" /\ wants[queue[j][n]].key = j
          /\ queue[j][n] \in Client
      BY ElementOfSeq DEF IInv, TypeOK, PoolInv, WaitInv
    <2>3. queue[j][n] # c
      BY <2>1, <2>2 DEF IInv, PoolInv, OnceInv
    <2>4. QED
      BY <1>1, <2>1, <2>2, <2>3
  <1>9. OnceInv'
    <2> SUFFICES ASSUME NEW j \in Key, NEW m \in 1..Len(queue'[j]),
                        NEW n \in 1..Len(queue'[j]), queue'[j][m] = queue'[j][n]
                 PROVE  m = n
      BY DEF OnceInv
    <2>1. CASE j # k
      BY <1>5, <2>1 DEF IInv, PoolInv, OnceInv
    <2>2. CASE j = k
      <3>1. PICK a \in 1..Len(queue[k]) :
              a = (IF m < i THEN m ELSE m + 1) /\ queue'[k][m] = queue[k][a]
        BY <1>7, <2>2
      <3>2. PICK b \in 1..Len(queue[k]) :
              b = (IF n < i THEN n ELSE n + 1) /\ queue'[k][n] = queue[k][b]
        BY <1>7, <2>2
      <3>3. a = b
        BY <2>2, <3>1, <3>2 DEF IInv, PoolInv, OnceInv
      <3>4. m \in Int /\ n \in Int /\ i \in Int
        BY <1>5, <1>6, <2>2
      <3>5. QED
        BY <3>1, <3>2, <3>3, <3>4
    <2>3. QED
      BY <2>1, <2>2
  <1>10. BusyInv' /\ TokenInv'
    BY <1>1, <1>2 DEF IInv, PoolInv, BusyInv, TokenInv
  <1>11. NobodyWaitsForAFreePermit'
    <2>1. queue[k] # <<>>
      BY <1>5, EmptySeq
    <2>2. QED
      BY <1>5, <2>1 DEF IInv, PoolInv, NobodyWaitsForAFreePermit
  <1>12. QED
    BY <1>4, <1>8, <1>9, <1>10, <1>11 DEF PoolInv

-----------------------------------------------------------------------------
(* The handler.                                                            *)

(* Frames that have been read come from the inbox; what a client knows and *)
(* is about to be told grows only by tokens that are new to everybody.     *)
LEMMA ClientKeeps ==
  ASSUME IInv, TypeOK',
         \A d \in Client : \A i \in 1..Len(inbox'[d]) :
           \E j \in 1..Len(inbox[d]) : inbox'[d][i] = inbox[d][j],
         next_token' >= next_token,
         \A d \in Client : \A p \in owns'[d] \cup grant'[d] :
           p \in owns[d] \cup grant[d] \/ p.token = next_token
  PROVE  FrameInv'
  <1> SUFFICES ASSUME NEW d \in Client, NEW i \in 1..Len(inbox'[d]),
                      inbox'[d][i].op = "release"
               PROVE  /\ inbox'[d][i].token < next_token'
                      /\ \A p \in owns'[d] \cup grant'[d] :
                           p.token # inbox'[d][i].token
    BY DEF FrameInv
  <1>1. PICK j \in 1..Len(inbox[d]) : inbox'[d][i] = inbox[d][j]
    OBVIOUS
  <1>2. /\ inbox[d][j].op = "release" /\ inbox[d][j].token < next_token
        /\ \A p \in owns[d] \cup grant[d] : p.token # inbox[d][j].token
    BY <1>1 DEF IInv, FrameInv
  <1>3. inbox[d][j].token \in Nat
    <2>1. inbox[d][j] \in Request
      BY ElementOfSeq DEF IInv, TypeOK
    <2>2. QED
      BY <1>2, <2>1 DEF Request, Token
  <1>4. next_token \in Nat /\ next_token' \in Nat
    BY DEF IInv, TypeOK, Token
  <1>5. QED
    BY <1>1, <1>2, <1>3, <1>4

(* What the request at the head of the inbox is.                           *)
LEMMA RequestFacts ==
  ASSUME NEW r \in Request
  PROVE  /\ r.op = "acquire" => r \in Acquire /\ r.key \in Key
         /\ r.op = "release" => r.token \in Token
  BY DEF Request, Acquire

(* A handler that holds a new permit and is about to say so.               *)
LEMMA HoldStep ==
  ASSUME IInv, NEW c \in Client, NEW k \in Key, Hold(c, k),
         conn[c] \in {"reading", "assigned"},
         \A d \in Client : \A i \in 1..Len(inbox'[d]) :
           \E j \in 1..Len(inbox[d]) : inbox'[d][i] = inbox[d][j],
         UNCHANGED <<loop, open, owns>>
  PROVE  /\ conn' \in [Client -> ConnState]
         /\ held' \in [Client -> SUBSET Permit]
         /\ grant' \in [Client -> SUBSET Permit]
         /\ next_token' \in Token
         /\ \A d \in Client : grant'[d] \subseteq held'[d]
         /\ OwnInv' /\ (TypeOK' => FrameInv') /\ LoopInv'
  <1> DEFINE p == [token |-> next_token, key |-> k]
  <1>1. /\ held' = [held EXCEPT ![c] = held[c] \cup {p}]
        /\ grant' = [grant EXCEPT ![c] = {p}]
        /\ next_token' = next_token + 1
        /\ conn' = [conn EXCEPT ![c] = "replying"]
    BY DEF Hold, IInv, TypeOK
  <1>2. /\ held \in [Client -> SUBSET Permit]
        /\ grant \in [Client -> SUBSET Permit]
        /\ conn \in [Client -> ConnState] /\ next_token \in Token
        /\ \A d \in Client : grant[d] \subseteq held[d]
    BY DEF IInv, TypeOK
  <1>3. p \in Permit /\ p.token = next_token
    BY <1>2 DEF Permit
  <1>4. /\ held' \in [Client -> SUBSET Permit]
        /\ grant' \in [Client -> SUBSET Permit]
        /\ \A d \in Client : grant'[d] \subseteq held'[d]
    <2> HIDE DEF p
    <2>1. QED
      BY <1>1, <1>2, <1>3
  <1>5. next_token' \in Token /\ conn' \in [Client -> ConnState]
    BY <1>1, <1>2 DEF Token, ConnState
  <1>6. OwnInv'
    <2>1. \A d \in Client : /\ held[d] \subseteq held'[d]
                            /\ d # c => /\ conn'[d] = conn[d]
                                        /\ grant'[d] = grant[d]
                            /\ conn'[c] = "replying"
      BY <1>1, <1>2
    <2>2. QED
      BY <2>1 DEF IInv, OwnInv
  <1>7. ASSUME TypeOK' PROVE FrameInv'
    <2>1. next_token' >= next_token
      BY <1>1, <1>2 DEF Token
    <2>2. \A d \in Client : \A q \in owns'[d] \cup grant'[d] :
            q \in owns[d] \cup grant[d] \/ q.token = next_token
      BY <1>1, <1>2, <1>3
    <2>3. QED
      BY <1>7, <2>1, <2>2, ClientKeeps
  <1>8. LoopInv'
    BY <1>1, <1>2 DEF IInv, LoopInv, Active
  <1>9. QED
    BY <1>4, <1>5, <1>6, <1>7, <1>8

LEMMA AcquireNowStep == ASSUME IInv, NEW c \in Client, AcquireNow(c) PROVE IInv'
  <1> DEFINE k == Head(inbox[c]).key
  <1>1. Frame(c, "acquire") /\ Head(inbox[c]).op = "acquire"
    BY DEF AcquireNow, Frame
  <1>2. k \in Key
    BY <1>1, FrameFacts, RequestFacts
  <1>3. /\ conn[c] = "reading" /\ inbox' \in [Client -> Seq(Request)]
        /\ \A d \in Client : \A i \in 1..Len(inbox'[d]) :
             \E j \in 1..Len(inbox[d]) : inbox'[d][i] = inbox[d][j]
        /\ UNCHANGED <<loop, open, left, owns>>
    BY <1>1, FrameFacts
  <1>4. /\ avail[k] > 0 /\ avail' = [avail EXCEPT ![k] = @ - 1] /\ Hold(c, k)
        /\ UNCHANGED <<wants, queue>>
    BY DEF AcquireNow
  <1> HIDE DEF k
  <1>5. avail' \in [Key -> Nat]
    BY <1>2, <1>4 DEF IInv, TypeOK
  <1>6. /\ conn' \in [Client -> ConnState] /\ held' \in [Client -> SUBSET Permit]
        /\ grant' \in [Client -> SUBSET Permit] /\ next_token' \in Token
        /\ \A d \in Client : grant'[d] \subseteq held'[d]
        /\ OwnInv' /\ (TypeOK' => FrameInv') /\ LoopInv'
    BY <1>2, <1>3, <1>4, HoldStep
  <1>7. TypeOK'
    BY <1>3, <1>4, <1>5, <1>6 DEF IInv, TypeOK
  <1>8. PoolInv'
    BY <1>2, <1>3, <1>4, <1>7, HoldPool
  <1>9. QED
    BY <1>6, <1>7, <1>8 DEF IInv

LEMMA GrantedStep == ASSUME IInv, NEW c \in Client, Granted(c) PROVE IInv'
  <1> DEFINE k == wants[c].key
  <1>1. /\ conn[c] = "assigned" /\ Hold(c, k)
        /\ wants' = [wants EXCEPT ![c] = NoRequest]
        /\ UNCHANGED <<loop, open, inbox, left, avail, queue, owns>>
    BY DEF Granted
  <1>2. k \in Key
    BY <1>1 DEF IInv, PoolInv, BusyInv, Acquire
  <1>3. /\ conn' \in [Client -> ConnState] /\ held' \in [Client -> SUBSET Permit]
        /\ grant' \in [Client -> SUBSET Permit] /\ next_token' \in Token
        /\ \A d \in Client : grant'[d] \subseteq held'[d]
        /\ OwnInv' /\ (TypeOK' => FrameInv') /\ LoopInv'
    <2> HIDE DEF k
    <2>1. QED
      BY <1>1, <1>2, HoldStep
  <1>4. TypeOK'
    BY <1>1, <1>3, NoRequestIsOne DEF IInv, TypeOK
  <1>5. PoolInv'
    <2>1. \A d \in Client \ {c} : wants'[d] = wants[d]
      BY <1>1 DEF IInv, TypeOK
    <2>2. wants[c].key = k
      OBVIOUS
    <2>3. QED
      BY <1>1, <1>2, <1>4, <2>1, <2>2, HoldPool
  <1>6. QED
    BY <1>3, <1>4, <1>5 DEF IInv

(* Answers that carry no permit.                                           *)
LEMMA AnswerStep ==
  ASSUME IInv, NEW c \in Client, NEW op, Frame(c, op),
         conn' = [conn EXCEPT ![c] = "replying"],
         UNCHANGED <<wants, avail, queue, held, grant, next_token>>
  PROVE  IInv'
  <1>1. /\ conn[c] = "reading" /\ inbox' \in [Client -> Seq(Request)]
        /\ \A d \in Client : \A i \in 1..Len(inbox'[d]) :
             \E j \in 1..Len(inbox[d]) : inbox'[d][i] = inbox[d][j]
        /\ UNCHANGED <<loop, open, left, owns>>
    BY FrameFacts
  <1>2. TypeOK'
    BY <1>1 DEF IInv, TypeOK, ConnState
  <1>3. next_token' >= next_token
    BY DEF IInv, TypeOK, Token
  <1>4. PoolInv'
    BY <1>1, <1>2, <1>3, QuietPool DEF Quiet, Waiting, IInv, TypeOK
  <1>5. OwnInv'
    BY <1>1 DEF IInv, TypeOK, OwnInv
  <1>6. FrameInv'
    BY <1>1, <1>2, <1>3, ClientKeeps
  <1>7. LoopInv'
    BY <1>1 DEF IInv, TypeOK, LoopInv, Active
  <1>8. QED
    BY <1>2, <1>4, <1>5, <1>6, <1>7 DEF IInv

LEMMA AcquireWaitStep ==
  ASSUME IInv, NEW c \in Client, AcquireWait(c) PROVE IInv'
  <1> DEFINE r == Head(inbox[c])
  <1>1. Frame(c, "acquire") /\ r.op = "acquire"
    BY DEF AcquireWait, Frame
  <1>2. r \in Acquire /\ r.key \in Key /\ r \in Request
    BY <1>1, FrameFacts, RequestFacts
  <1>3. /\ conn[c] = "reading" /\ grant[c] = {}
        /\ inbox' \in [Client -> Seq(Request)]
        /\ \A d \in Client : \A i \in 1..Len(inbox'[d]) :
             \E j \in 1..Len(inbox[d]) : inbox'[d][i] = inbox[d][j]
        /\ UNCHANGED <<loop, open, left, owns>>
    BY <1>1, FrameFacts
  <1>4. /\ avail[r.key] = 0
        /\ queue' = [queue EXCEPT ![r.key] = Append(@, c)]
        /\ wants' = [wants EXCEPT ![c] = r]
        /\ conn' = [conn EXCEPT ![c] = "acquiring"]
        /\ UNCHANGED <<avail, held, grant, next_token>>
    BY DEF AcquireWait
  <1> HIDE DEF r
  <1>5. TypeOK'
    <2>1. Append(queue[r.key], c) \in Seq(Client)
      BY <1>2, AppendProperties DEF IInv, TypeOK
    <2>2. queue' \in [Key -> Seq(Client)]
      BY <1>2, <1>4, <2>1 DEF IInv, TypeOK
    <2>3. QED
      BY <1>2, <1>3, <1>4, <2>2 DEF IInv, TypeOK, ConnState
  <1>6. PoolInv'
    BY <1>2, <1>3, <1>4, <1>5, WaitPool
  <1>7. OwnInv'
    BY <1>3, <1>4 DEF IInv, TypeOK, OwnInv
  <1>8. FrameInv'
    <2>1. next_token' >= next_token
      BY <1>4 DEF IInv, TypeOK, Token
    <2>2. QED
      BY <1>3, <1>4, <1>5, <2>1, ClientKeeps
  <1>9. LoopInv'
    BY <1>3, <1>4 DEF IInv, TypeOK, LoopInv, Active
  <1>10. QED
    BY <1>5, <1>6, <1>7, <1>8, <1>9 DEF IInv

LEMMA TimedOutStep == ASSUME IInv, NEW c \in Client, TimedOut(c) PROVE IInv'
  <1> DEFINE k == wants[c].key
  <1>1. conn[c] = "acquiring"
    BY DEF TimedOut
  <1>2. k \in Key
    BY <1>1 DEF IInv, PoolInv, BusyInv, Acquire
  <1>3. queue[k] \in Seq(Client) /\ DOMAIN queue[k] = 1..Len(queue[k])
    BY <1>2, LenProperties DEF IInv, TypeOK
  <1>4. PICK i \in 1..Len(queue[k]) :
          /\ queue[k][i] = c
          /\ queue' = [queue EXCEPT ![k] = RemoveAt(@, i)]
    BY <1>3 DEF TimedOut
  <1>5. /\ wants' = [wants EXCEPT ![c] = NoRequest]
        /\ conn' = [conn EXCEPT ![c] = "replying"]
        /\ UNCHANGED <<loop, open, inbox, left, avail, held, grant, next_token,
                       owns>>
    BY DEF TimedOut
  <1>6. TypeOK'
    <2>1. RemoveAt(queue[k], i) \in Seq(Client)
      BY <1>3, RemoveAtFacts
    <2>2. queue' \in [Key -> Seq(Client)]
      BY <1>2, <1>4, <2>1 DEF IInv, TypeOK
    <2>3. QED
      BY <1>5, <2>2, NoRequestIsOne DEF IInv, TypeOK, ConnState
  <1>7. PoolInv'
    BY <1>1, <1>2, <1>4, <1>5, <1>6, GiveUpPool
  <1>8. OwnInv'
    BY <1>1, <1>5 DEF IInv, TypeOK, OwnInv
  <1>9. FrameInv' /\ LoopInv'
    BY <1>1, <1>5 DEF IInv, TypeOK, FrameInv, LoopInv, Active
  <1>10. QED
    BY <1>6, <1>7, <1>8, <1>9 DEF IInv

(* What dropping permits leaves, for a handler and the clients.            *)
LEMMA DropFacts ==
  ASSUME IInv, NEW c \in Client, conn[c] \in {"reading", "replying"},
         NEW permits \in SUBSET held[c], NEW next \in {"replying", "ending"},
         Drop(c, permits, next)
  PROVE  /\ conn' \in [Client -> ConnState] /\ conn'[c] = next
         /\ \A d \in Client \ {c} :
              (conn'[d] = conn[d] \/ (conn[d] = "acquiring" /\ conn'[d] = "assigned"))
         /\ held' \in [Client -> SUBSET Permit]
         /\ held'[c] = held[c] \ permits
         /\ \A d \in Client \ {c} : held'[d] = held[d]
         /\ avail' \in [Key -> Nat] /\ queue' \in [Key -> Seq(Client)]
  <1>1. ASSUME NEW d \in ServedClients(permits), NEW k \in Key,
               NEW i \in 1..Served(permits, k), queue[k][i] = d
        PROVE  conn[d] = "acquiring"
    <2>1. /\ Served(permits, k) \in Nat /\ Len(queue[k]) \in Nat
          /\ Served(permits, k) <= Len(queue[k])
      BY ServedFacts
    <2>2. i \in 1..Len(queue[k])
      BY <2>1
    <2>3. QED
      BY <1>1, <2>2 DEF IInv, PoolInv, WaitInv
  <1>2. \A d \in ServedClients(permits) : conn[d] = "acquiring"
    BY <1>1 DEF ServedClients
  <1>3. /\ conn' = [d \in Client |-> IF d = c THEN next
                     ELSE IF d \in ServedClients(permits)
                     THEN "assigned" ELSE conn[d]]
        /\ held' = [held EXCEPT ![c] = held[c] \ permits]
    BY DEF Drop, IInv, TypeOK
  <1>4. /\ conn' \in [Client -> ConnState] /\ conn'[c] = next
        /\ \A d \in Client \ {c} :
             (conn'[d] = conn[d] \/ (conn[d] = "acquiring" /\ conn'[d] = "assigned"))
    BY <1>2, <1>3 DEF IInv, TypeOK, ConnState
  <1>5. /\ held' \in [Client -> SUBSET Permit]
        /\ held'[c] = held[c] \ permits
        /\ \A d \in Client \ {c} : held'[d] = held[d]
    BY <1>3 DEF IInv, TypeOK
  <1>6. avail' \in [Key -> Nat]
    <2>1. \A k \in Key : avail[k] + Freed(permits, k) - Served(permits, k) \in Nat
      <3> TAKE k \in Key
      <3>1. /\ Freed(permits, k) \in Nat /\ Served(permits, k) \in Nat
            /\ Served(permits, k) <= Freed(permits, k)
        BY ServedFacts
      <3>2. avail[k] \in Nat
        BY DEF IInv, TypeOK
      <3>3. QED
        BY <3>1, <3>2
    <2>2. QED
      BY <2>1 DEF Drop
  <1>7. queue' \in [Key -> Seq(Client)]
    <2>1. ASSUME NEW k \in Key
          PROVE  SubSeq(queue[k], Served(permits, k) + 1, Len(queue[k]))
                   \in Seq(Client)
      <3>1. /\ Served(permits, k) \in Nat /\ Len(queue[k]) \in Nat
            /\ queue[k] \in Seq(Client)
        BY ServedFacts
      <3>2. \A i \in (Served(permits, k) + 1)..Len(queue[k]) :
              queue[k][i] \in Client
        BY <3>1, ElementOfSeq
      <3>3. Served(permits, k) + 1 \in Int /\ Len(queue[k]) \in Int
        BY <3>1
      <3>4. QED
        BY <3>2, <3>3, SubSeqProperties
    <2>2. QED
      BY <2>1 DEF Drop
  <1>8. QED
    BY <1>4, <1>5, <1>6, <1>7

LEMMA ReleaseStep == ASSUME IInv, NEW c \in Client, Release(c) PROVE IInv'
  <1> DEFINE r == Head(inbox[c])
             permits == {p \in held[c] : p.token = r.token}
  <1>1. Frame(c, "release") /\ r.op = "release" /\ Drop(c, permits, "replying")
        /\ UNCHANGED <<wants, grant, next_token>>
    BY DEF Release, Frame
  <1>2. /\ conn[c] = "reading" /\ grant[c] = {}
        /\ r = inbox[c][1] /\ 1 \in 1..Len(inbox[c])
        /\ inbox' \in [Client -> Seq(Request)]
        /\ \A d \in Client : \A i \in 1..Len(inbox'[d]) :
             \E j \in 1..Len(inbox[d]) : inbox'[d][i] = inbox[d][j]
        /\ UNCHANGED <<loop, open, left, owns>>
    BY <1>1, FrameFacts
  <1>3. \A p \in owns[c] : p \notin permits
    BY <1>1, <1>2 DEF IInv, FrameInv
  <1>4. permits \in SUBSET held[c]
    OBVIOUS
  <1> HIDE DEF permits, r
  <1>5. /\ conn' \in [Client -> ConnState] /\ conn'[c] = "replying"
        /\ \A d \in Client \ {c} :
             (conn'[d] = conn[d] \/ (conn[d] = "acquiring" /\ conn'[d] = "assigned"))
        /\ held' \in [Client -> SUBSET Permit]
        /\ held'[c] = held[c] \ permits
        /\ \A d \in Client \ {c} : held'[d] = held[d]
        /\ avail' \in [Key -> Nat] /\ queue' \in [Key -> Seq(Client)]
    BY <1>1, <1>2, <1>4, DropFacts
  <1>6. TypeOK'
    BY <1>1, <1>2, <1>5 DEF IInv, TypeOK
  <1>7. PoolInv'
    BY <1>1, <1>2, <1>4, <1>6, DropPool
  <1>8. OwnInv'
    BY <1>1, <1>2, <1>3, <1>5 DEF IInv, OwnInv
  <1>9. FrameInv'
    <2>1. next_token' >= next_token
      BY <1>1 DEF IInv, TypeOK, Token
    <2>2. QED
      BY <1>1, <1>2, <1>6, <2>1, ClientKeeps
  <1>10. LoopInv'
    BY <1>2, <1>5 DEF IInv, LoopInv, Active
  <1>11. QED
    BY <1>6, <1>7, <1>8, <1>9, <1>10 DEF IInv

LEMMA HangupStep == ASSUME IInv, NEW c \in Client, Hangup(c) PROVE IInv'
  <1>1. /\ conn[c] \in {"reading", "replying"} /\ ~open[c]
        /\ Drop(c, held[c], "ending")
        /\ grant' = [grant EXCEPT ![c] = {}]
        /\ inbox' = [inbox EXCEPT ![c] = <<>>]
        /\ UNCHANGED <<loop, open, left, wants, next_token, owns>>
    BY DEF Hangup
  <1>2. owns[c] = {}
    BY <1>1 DEF IInv, OwnInv
  <1>3. /\ conn' \in [Client -> ConnState] /\ conn'[c] = "ending"
        /\ \A d \in Client \ {c} :
             (conn'[d] = conn[d] \/ (conn[d] = "acquiring" /\ conn'[d] = "assigned"))
        /\ held' \in [Client -> SUBSET Permit]
        /\ held'[c] = {}
        /\ \A d \in Client \ {c} : held'[d] = held[d]
        /\ avail' \in [Key -> Nat] /\ queue' \in [Key -> Seq(Client)]
    BY <1>1, DropFacts
  <1>4. /\ grant'[c] = {} /\ \A d \in Client \ {c} : grant'[d] = grant[d]
        /\ inbox'[c] = <<>> /\ \A d \in Client \ {c} : inbox'[d] = inbox[d]
        /\ grant' \in [Client -> SUBSET Permit]
        /\ inbox' \in [Client -> Seq(Request)]
    BY <1>1, EmptySeq DEF IInv, TypeOK
  <1>5. TypeOK'
    <2>1. \A d \in Client : grant'[d] \subseteq held'[d]
      BY <1>3, <1>4 DEF IInv, TypeOK
    <2>2. QED
      BY <1>1, <1>3, <1>4, <2>1 DEF IInv, TypeOK
  <1>6. PoolInv'
    BY <1>1, <1>5, DropPool
  <1>7. OwnInv'
    <2> SUFFICES ASSUME NEW d \in Client
                 PROVE  /\ owns[d] \subseteq held'[d]
                        /\ ~open[d] => owns[d] = {}
                        /\ conn'[d] # "replying" => grant'[d] = {}
      BY <1>1 DEF OwnInv
    <2>1. CASE d = c
      BY <1>2, <1>4, <2>1
    <2>2. CASE d # c
      BY <1>3, <1>4, <2>2 DEF IInv, OwnInv
    <2>3. QED
      BY <2>1, <2>2
  <1>8. FrameInv'
    <2>1. next_token' >= next_token
      BY <1>1 DEF IInv, TypeOK, Token
    <2>2. \A d \in Client : \A i \in 1..Len(inbox'[d]) :
            \E j \in 1..Len(inbox[d]) : inbox'[d][i] = inbox[d][j]
      BY <1>4, EmptySeq
    <2>3. \A d \in Client : owns'[d] = owns[d] /\ grant'[d] \subseteq grant[d]
      BY <1>1, <1>4
    <2>4. QED
      BY <1>5, <2>1, <2>2, <2>3, ClientKeeps
  <1>9. LoopInv'
    BY <1>1, <1>3 DEF IInv, LoopInv, Active
  <1>10. QED
    BY <1>5, <1>6, <1>7, <1>8, <1>9 DEF IInv

LEMMA ReplyStep == ASSUME IInv, NEW c \in Client, Reply(c) PROVE IInv'
  <1>1. /\ conn[c] = "replying" /\ open[c]
        /\ owns' = [owns EXCEPT ![c] = owns[c] \cup grant[c]]
        /\ grant' = [grant EXCEPT ![c] = {}]
        /\ conn' = [conn EXCEPT ![c] = "reading"]
        /\ UNCHANGED <<loop, open, inbox, left, wants, avail, queue, held,
                       next_token>>
    BY DEF Reply
  <1>2. TypeOK'
    BY <1>1 DEF IInv, TypeOK, ConnState
  <1>3. next_token' >= next_token
    BY <1>1 DEF IInv, TypeOK, Token
  <1>4. PoolInv'
    BY <1>1, <1>2, <1>3, QuietPool DEF Quiet, Waiting, IInv, TypeOK
  <1>5. /\ \A d \in Client \ {c} :
             owns'[d] = owns[d] /\ grant'[d] = grant[d] /\ conn'[d] = conn[d]
        /\ owns'[c] = owns[c] \cup grant[c] /\ grant'[c] = {}
        /\ grant[c] \subseteq held[c]
    BY <1>1 DEF IInv, TypeOK
  <1>6. OwnInv'
    BY <1>1, <1>5 DEF IInv, OwnInv
  <1>7. FrameInv'
    BY <1>1, <1>2, <1>3, <1>5, ClientKeeps
  <1>8. LoopInv'
    BY <1>1 DEF IInv, TypeOK, LoopInv, Active
  <1>9. QED
    BY <1>2, <1>4, <1>6, <1>7, <1>8 DEF IInv

LEMMA LeaveStep == ASSUME IInv, NEW c \in Client, Leave(c) PROVE IInv'
  <1>1. TypeOK'
    BY DEF IInv, TypeOK, Leave, ConnState
  <1>2. PoolInv'
    BY <1>1, QuietPool DEF Quiet, Waiting, Leave, IInv, TypeOK, Token
  <1>3. OwnInv' /\ FrameInv'
    BY DEF IInv, TypeOK, OwnInv, FrameInv, Leave
  <1>4. LoopInv'
    BY DEF IInv, TypeOK, LoopInv, Active, Leave
  <1>5. QED
    BY <1>1, <1>2, <1>3, <1>4 DEF IInv

LEMMA HandlerStep == ASSUME IInv, NEW c \in Client, Handler(c) PROVE IInv'
  <1>1. CASE AcquireRefused(c)
    BY <1>1, AnswerStep DEF AcquireRefused
  <1>2. CASE Other(c)
    BY <1>2, AnswerStep DEF Other
  <1>3. QED
    BY <1>1, <1>2, AcquireNowStep, AcquireWaitStep, GrantedStep, ReleaseStep,
       ReplyStep, HangupStep, LeaveStep DEF Handler

LEMMA NextIInv == IInv /\ [Next]_vars => IInv'
  <1> SUFFICES ASSUME IInv, [Next]_vars PROVE IInv'
    OBVIOUS
  <1>1. ASSUME NEW c \in Client, ClientStep(c) PROVE IInv'
    BY <1>1, ConnectStep, SendAnyStep, DisconnectStep DEF ClientStep
  <1>2. CASE Loop
    BY <1>2, AcceptStep, LoopStep DEF Loop
  <1>3. ASSUME UNCHANGED vars PROVE IInv'
    <2>1. TypeOK' /\ OwnInv' /\ FrameInv' /\ LoopInv'
      BY <1>3 DEF vars, IInv, TypeOK, OwnInv, FrameInv, LoopInv, Active
    <2>2. PoolInv'
      BY <1>3, <2>1, QuietPool DEF vars, Quiet, IInv, TypeOK, Token
    <2>3. QED
      BY <2>1, <2>2 DEF IInv
  <1>4. QED
    BY <1>1, <1>2, <1>3, HandlerStep, TimedOutStep DEF Next, Rest

(* The invariant holds in every state of every behaviour.                  *)
THEOREM Invariance == Spec => []IInv
  BY InitIInv, NextIInv, PTL DEF Spec

-----------------------------------------------------------------------------
(* Every permit of every key is free, on its way to a waiter, or held,     *)
(* whatever clients send and whenever they vanish (registry.rs 3-6).       *)
THEOREM Conservation == Spec => []PermitsConserved
  <1>1. IInv => PermitsConserved
    BY DEF IInv, PoolInv
  <1>2. QED
    BY <1>1, Invariance, PTL

(* No wakeup is lost: nobody waits for a key that has a permit to spare.   *)
THEOREM NoLostWakeup == Spec => []NobodyWaitsForAFreePermit
  <1>1. IInv => NobodyWaitsForAFreePermit
    BY DEF IInv, PoolInv
  <1>2. QED
    BY <1>1, Invariance, PTL

(* However many clients there are, never do more of them believe they hold *)
(* a key than it has permits.                                              *)
THEOREM Exclusion == Spec => []MutualExclusion
  <1>1. IInv => MutualExclusion
    <2> SUFFICES ASSUME IInv, NEW k \in Key
                 PROVE  Cardinality(Of(owns, k)) <= k.permits
      BY DEF MutualExclusion
    <2>1. Of(owns, k) \subseteq Of(held, k)
      BY DEF Of, IInv, OwnInv
    <2>2. /\ IsFiniteSet(Of(held, k)) /\ IsFiniteSet(Assigned(k))
          /\ avail[k] + Cardinality(Assigned(k)) + Cardinality(Of(held, k))
               = k.permits
          /\ avail[k] \in Nat
      BY DEF IInv, TypeOK, PoolInv, FiniteInv, PermitsConserved
    <2>3. /\ Cardinality(Assigned(k)) \in Nat
          /\ Cardinality(Of(held, k)) \in Nat
      BY <2>2, FS_CardinalityType
    <2>4. /\ Cardinality(Of(owns, k)) <= Cardinality(Of(held, k))
          /\ Cardinality(Of(owns, k)) \in Nat
      BY <2>1, <2>2, FS_Subset, FS_CardinalityType
    <2>5. QED
      BY <2>2, <2>3, <2>4
  <1>2. QED
    BY <1>1, Invariance, PTL

(* The daemon exits under no connection that it let in (server.rs 56-88).  *)
THEOREM ExitIsSafe == Spec => []ExitServesNobody
  <1>1. IInv => ExitServesNobody
    BY DEF IInv, LoopInv, Active, ExitServesNobody
  <1>2. QED
    BY <1>1, Invariance, PTL

(* Every variable keeps its type.                                          *)
THEOREM TypeCorrect == Spec => []TypeOK
  <1>1. IInv => TypeOK
    BY DEF IInv
  <1>2. QED
    BY <1>1, Invariance, PTL

=============================================================================
