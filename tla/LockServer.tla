----------------------------- MODULE LockServer -----------------------------
(***************************************************************************)
(* One betterhookd process: the accept loop and the connection handlers of *)
(* daemon/server.rs over the semaphores of daemon/registry.rs, and clients *)
(* that speak lock/protocol.rs to it, pipeline requests and disappear.     *)
(*                                                                         *)
(* A connection is known by its client; a client that comes back is        *)
(* another client.  Hello, Ping, Status and frames that do not decode get  *)
(* an answer and change nothing: they are the request "other".             *)
(***************************************************************************)
EXTENDS Integers, SequencesExt

CONSTANTS
  Client,
  Key,          \* the lock keys asked for: name and permits
  Patience,     \* whether an Acquire has a timeout (timeout_ms # 0)
  Budgets       \* bound: the requests each client may send, several choices

ASSUME KeyAssumption == \A k \in Key : k.permits \in Nat
ASSUME PatienceAssumption == Patience \subseteq BOOLEAN
ASSUME BudgetsAssumption == Budgets \subseteq [Client -> Nat]

Token == Nat \ {0}
Permit == [token : Token, key : Key]   \* a HeldPermit

Request == [op : {"acquire"}, key : Key, timed : Patience]
             \cup [op : {"release"}, token : Token]
             \cup [op : {"other"}]

VARIABLES
  loop,        \* the accept loop: what it selects on, or "exited"
  conn,        \* per client, where its connection and its handler are
  open,        \* per client, whether its end of the connection is open
  inbox,       \* per client, frames the handler has not read
  left,        \* per client, how many requests it may still send
  wants,       \* per client, the Acquire its handler is busy with
  avail,       \* the registry: per key, permits free in its semaphore
  queue,       \* per key, the clients whose handlers wait, in order
  held,        \* per client, the permits of its `held` map
  grant,       \* per client, the permit that the reply under way announces
  next_token,
  owns         \* per client, the permits the client believes it has

vars == <<loop, conn, open, inbox, left, wants, avail, queue, held, grant,
          next_token, owns>>

(* "acquiring" waits in a semaphore's queue, "assigned" has been handed a  *)
(* permit there and not run since, "ending" has dropped its permits but is *)
(* still counted by `connections.active`.                                  *)
ConnState == {"none", "backlog", "reading", "acquiring", "assigned",
              "replying", "ending", "closed"}

TypeOK ==
  /\ loop \in {"poll", "timing", "waiting", "exited"}
  /\ conn \in [Client -> ConnState]
  /\ open \in [Client -> BOOLEAN]
  /\ inbox \in [Client -> Seq(Request)]
  /\ left \in [Client -> Nat]
  /\ wants \in [Client -> Request]
  /\ avail \in [Key -> Nat]
  /\ queue \in [Key -> Seq(Client)]
  /\ held \in [Client -> SUBSET Permit]
  /\ grant \in [Client -> SUBSET Permit]
  /\ next_token \in Token
  /\ owns \in [Client -> SUBSET Permit]
  /\ \A c \in Client : grant[c] \subseteq held[c]

NoRequest == [op |-> "other"]

Init ==
  /\ loop = "poll"
  /\ conn = [c \in Client |-> "none"]
  /\ open = [c \in Client |-> FALSE]
  /\ inbox = [c \in Client |-> <<>>]
  /\ left \in Budgets
  /\ wants = [c \in Client |-> NoRequest]
  /\ avail = [k \in Key |-> k.permits]
  /\ queue = [k \in Key |-> <<>>]
  /\ held = [c \in Client |-> {}]
  /\ grant = [c \in Client |-> {}]
  /\ next_token = 1
  /\ owns = [c \in Client |-> {}]

(* connections.active.                                                     *)
Active == {c \in Client : conn[c] \notin {"none", "backlog", "closed"}}

-----------------------------------------------------------------------------
(* Clients.                                                                *)

(* A client that will never ask for anything does not come: a bound.       *)
Connect(c) ==
  /\ conn[c] = "none"
  /\ left[c] > 0
  /\ loop # "exited"
  /\ conn' = [conn EXCEPT ![c] = "backlog"]
  /\ open' = [open EXCEPT ![c] = TRUE]
  /\ UNCHANGED <<loop, inbox, left, wants, avail, queue, held, grant,
                 next_token, owns>>

(* A client need not wait for one answer before it sends the next request. *)
Send(c, r) ==
  /\ open[c]
  /\ left[c] > 0
  /\ inbox' = [inbox EXCEPT ![c] = Append(@, r)]
  /\ left' = [left EXCEPT ![c] = @ - 1]
  /\ owns' = [owns EXCEPT ![c] = IF r.op = "release"
                                 THEN {p \in @ : p.token # r.token} ELSE @]
  /\ UNCHANGED <<loop, conn, open, wants, avail, queue, held, grant,
                 next_token>>

(* A token may be released again, or be another client's, but the client   *)
(* does not guess the one in a reply that it has yet to get.               *)
SendAny(c) ==
  \/ \E k \in Key, t \in Patience :
       Send(c, [op |-> "acquire", key |-> k, timed |-> t])
  \/ \E t \in (1..(next_token - 1)) \ {p.token : p \in grant[c]} :
       Send(c, [op |-> "release", token |-> t])
  \/ Send(c, NoRequest)

(* The client closes its end, or dies.                                     *)
Disconnect(c) ==
  /\ open[c]
  /\ open' = [open EXCEPT ![c] = FALSE]
  /\ owns' = [owns EXCEPT ![c] = {}]
  /\ UNCHANGED <<loop, conn, inbox, left, wants, avail, queue, held, grant,
                 next_token>>

-----------------------------------------------------------------------------
(* The accept loop.                                                        *)

Accept(c) ==
  /\ loop # "exited"
  /\ conn[c] = "backlog"
  /\ conn' = [conn EXCEPT ![c] = "reading"]
  /\ loop' = "poll"
  /\ UNCHANGED <<open, inbox, left, wants, avail, queue, held, grant,
                 next_token, owns>>

(* Mutant: arms the timer whoever is connected.                            *)
MutPollTimer ==
  /\ loop = "poll"
  /\ loop' = "timing"
  /\ UNCHANGED <<conn, open, inbox, left, wants, avail, queue, held, grant,
                 next_token, owns>>

(* The select is polled with nobody in the backlog to accept: idle_timer   *)
(* reads the count, once.                                                  *)
PollTimer ==
  /\ loop = "poll"
  /\ loop' = IF Active = {} THEN "timing" ELSE "waiting"
  /\ UNCHANGED <<conn, open, inbox, left, wants, avail, queue, held, grant,
                 next_token, owns>>

(* IDLE_LINGER has passed: serve returns and the process ends.             *)
IdleExit ==
  /\ loop = "timing"
  /\ loop' = "exited"
  /\ UNCHANGED <<conn, open, inbox, left, wants, avail, queue, held, grant,
                 next_token, owns>>

-----------------------------------------------------------------------------
(* Semaphores.  Released permits go to the waiters at the head of the      *)
(* queue, and into the semaphore only when nobody waits.                   *)

Freed(permits, k) == Cardinality({p \in permits : p.key = k})

Served(permits, k) ==
  IF Freed(permits, k) <= Len(queue[k]) THEN Freed(permits, k)
  ELSE Len(queue[k])

ServedClients(permits) ==
  {c \in Client : \E k \in Key : \E i \in 1..Served(permits, k) :
                    queue[k][i] = c}

(* Mutant: the permits go back although waiters were served with them.     *)
MutDropTwice(c, permits, next) ==
  /\ avail' = [k \in Key |-> avail[k] + Freed(permits, k)]
  /\ queue' = [k \in Key |->
                 SubSeq(queue[k], Served(permits, k) + 1, Len(queue[k]))]
  /\ held' = [held EXCEPT ![c] = @ \ permits]
  /\ conn' = [d \in Client |-> IF d = c THEN next
                               ELSE IF d \in ServedClients(permits)
                               THEN "assigned" ELSE conn[d]]

(* Mutant: the permits go back and no waiter is told.                      *)
MutDropSilent(c, permits, next) ==
  /\ avail' = [k \in Key |-> avail[k] + Freed(permits, k)]
  /\ held' = [held EXCEPT ![c] = @ \ permits]
  /\ conn' = [conn EXCEPT ![c] = next]
  /\ UNCHANGED queue

(* c drops these of its permits and its handler goes to `next`.            *)
Drop(c, permits, next) ==
  /\ avail' = [k \in Key |-> avail[k] + Freed(permits, k) - Served(permits, k)]
  /\ queue' = [k \in Key |->
                 SubSeq(queue[k], Served(permits, k) + 1, Len(queue[k]))]
  /\ held' = [held EXCEPT ![c] = @ \ permits]
  /\ conn' = [d \in Client |-> IF d = c THEN next
                               ELSE IF d \in ServedClients(permits)
                               THEN "assigned" ELSE conn[d]]

(* The `held` map gets the permit under a fresh token.                     *)
Hold(c, k) ==
  LET p == [token |-> next_token, key |-> k]
  IN  /\ held' = [held EXCEPT ![c] = @ \cup {p}]
      /\ grant' = [grant EXCEPT ![c] = {p}]
      /\ next_token' = next_token + 1
      /\ conn' = [conn EXCEPT ![c] = "replying"]

-----------------------------------------------------------------------------
(* A connection handler.                                                   *)

Frame(c, op) ==
  /\ conn[c] = "reading"
  /\ loop # "exited"
  /\ inbox[c] # <<>>
  /\ Head(inbox[c]).op = op
  /\ inbox' = [inbox EXCEPT ![c] = Tail(@)]
  /\ UNCHANGED <<loop, open, left, owns>>

(* Mutant: the permit is not kept with the token.                          *)
MutAcquireNow(c) ==
  /\ Frame(c, "acquire")
  /\ avail[Head(inbox[c]).key] > 0
  /\ Hold(c, Head(inbox[c]).key)
  /\ UNCHANGED <<wants, avail, queue>>

(* handle_acquire, when a permit is free and nobody waits for it.          *)
AcquireNow(c) ==
  /\ Frame(c, "acquire")
  /\ LET k == Head(inbox[c]).key
     IN  /\ avail[k] > 0
         /\ avail' = [avail EXCEPT ![k] = @ - 1]
         /\ Hold(c, k)
  /\ UNCHANGED <<wants, queue>>

(* A key of zero permits is refused; no semaphore is made for it.          *)
AcquireRefused(c) ==
  /\ Frame(c, "acquire")
  /\ Head(inbox[c]).key.permits = 0
  /\ conn' = [conn EXCEPT ![c] = "replying"]
  /\ UNCHANGED <<wants, avail, queue, held, grant, next_token>>

(* Otherwise the handler waits in the semaphore, and reads nothing while   *)
(* it does.                                                                *)
AcquireWait(c) ==
  /\ Frame(c, "acquire")
  /\ LET k == Head(inbox[c]).key
     IN  /\ k.permits > 0 /\ avail[k] = 0
         /\ queue' = [queue EXCEPT ![k] = Append(@, c)]
  /\ wants' = [wants EXCEPT ![c] = Head(inbox[c])]
  /\ conn' = [conn EXCEPT ![c] = "acquiring"]
  /\ UNCHANGED <<avail, held, grant, next_token>>

Granted(c) ==
  /\ conn[c] = "assigned"
  /\ Hold(c, wants[c].key)
  /\ wants' = [wants EXCEPT ![c] = NoRequest]
  /\ UNCHANGED <<loop, open, inbox, left, avail, queue, owns>>

(* Mutant: the test for a timeout is inverted.                             *)
MutTimedOut(c) ==
  /\ conn[c] = "acquiring"
  /\ ~wants[c].timed
  /\ \E i \in DOMAIN queue[wants[c].key] :
       /\ queue[wants[c].key][i] = c
       /\ queue' = [queue EXCEPT ![wants[c].key] = RemoveAt(@, i)]
  /\ wants' = [wants EXCEPT ![c] = NoRequest]
  /\ conn' = [conn EXCEPT ![c] = "replying"]
  /\ UNCHANGED <<loop, open, inbox, left, avail, held, grant, next_token, owns>>

(* The timeout drops the acquire future, which leaves the queue.  A permit *)
(* that was assigned by then wins: timeout polls the acquire first.        *)
TimedOut(c) ==
  /\ conn[c] = "acquiring"
  /\ wants[c].timed
  /\ \E i \in DOMAIN queue[wants[c].key] :
       /\ queue[wants[c].key][i] = c
       /\ queue' = [queue EXCEPT ![wants[c].key] = RemoveAt(@, i)]
  /\ wants' = [wants EXCEPT ![c] = NoRequest]
  /\ conn' = [conn EXCEPT ![c] = "replying"]
  /\ UNCHANGED <<loop, open, inbox, left, avail, held, grant, next_token, owns>>

(* Release of a token the connection does not hold is answered like any    *)
(* other and changes nothing.                                              *)
Release(c) ==
  /\ Frame(c, "release")
  /\ Drop(c, {p \in held[c] : p.token = Head(inbox[c]).token}, "replying")
  /\ UNCHANGED <<wants, grant, next_token>>

Other(c) ==
  /\ Frame(c, "other")
  /\ conn' = [conn EXCEPT ![c] = "replying"]
  /\ UNCHANGED <<wants, avail, queue, held, grant, next_token>>

(* The answer goes out; the client now knows what it holds.                *)
Reply(c) ==
  /\ conn[c] = "replying"
  /\ open[c]
  /\ owns' = [owns EXCEPT ![c] = @ \cup grant[c]]
  /\ grant' = [grant EXCEPT ![c] = {}]
  /\ conn' = [conn EXCEPT ![c] = "reading"]
  /\ UNCHANGED <<loop, open, inbox, left, wants, avail, queue, held, next_token>>

(* Mutant: `held` outlives its connection.                                 *)
MutHangup(c) ==
  /\ conn[c] \in {"reading", "replying"}
  /\ loop # "exited"
  /\ ~open[c]
  /\ conn' = [conn EXCEPT ![c] = "ending"]
  /\ UNCHANGED <<loop, open, inbox, left, wants, avail, queue, held, grant,
                 next_token, owns>>

(* The handler returns, on end of stream (whether or not it still got the  *)
(* frames before it) or because its reply cannot be sent; `held` drops.    *)
Hangup(c) ==
  /\ conn[c] \in {"reading", "replying"}
  /\ loop # "exited"
  /\ ~open[c]
  /\ Drop(c, held[c], "ending")
  /\ grant' = [grant EXCEPT ![c] = {}]
  /\ inbox' = [inbox EXCEPT ![c] = <<>>]
  /\ UNCHANGED <<loop, open, left, wants, next_token, owns>>

(* connections.active.fetch_sub.                                           *)
Leave(c) ==
  /\ conn[c] = "ending"
  /\ conn' = [conn EXCEPT ![c] = "closed"]
  /\ UNCHANGED <<loop, open, inbox, left, wants, avail, queue, held, grant,
                 next_token, owns>>

-----------------------------------------------------------------------------
ClientStep(c) == Connect(c) \/ SendAny(c) \/ Disconnect(c)

Handler(c) ==
  \/ AcquireNow(c) \/ AcquireRefused(c) \/ AcquireWait(c) \/ Granted(c)
  \/ Release(c) \/ Other(c) \/ Reply(c) \/ Hangup(c) \/ Leave(c)

Loop == (\E c \in Client : Accept(c)) \/ PollTimer \/ IdleExit

(* The clients are gone or were never let in.  Some of their handlers may  *)
(* still wait, for permits that those handlers hold.                       *)
Rest ==
  /\ loop \in {"waiting", "exited"}
  /\ \A c \in Client :
       /\ ~open[c]
       /\ conn[c] \in {"none", "backlog", "closed", "acquiring"}
  /\ UNCHANGED vars

Next ==
  \/ \E c \in Client : ClientStep(c) \/ Handler(c) \/ TimedOut(c)
  \/ Loop
  \/ Rest

(* The runtime runs the loop, every handler and every timer.  Clients are  *)
(* under no obligation.                                                    *)
Fairness ==
  /\ WF_vars(Loop)
  /\ \A c \in Client : WF_vars(Handler(c)) /\ WF_vars(TimedOut(c))

Spec == Init /\ [][Next]_vars /\ Fairness

-----------------------------------------------------------------------------
(* Properties.                                                             *)

Assigned(k) == {c \in Client : conn[c] = "assigned" /\ wants[c].key = k}

(* The permits of key k in a map from clients to permits.                  *)
Of(map, k) == {p \in UNION {map[c] : c \in Client} : p.key = k}

(* No permit is lost or made, whatever mixture of releases, unknown        *)
(* tokens, timeouts and hangups: every permit of a key is free, on its way *)
(* to a waiter, or held (registry.rs 3-6).                                 *)
PermitsConserved ==
  \A k \in Key :
    avail[k] + Cardinality(Assigned(k))
      + Cardinality(Of(held, k)) = k.permits

(* Nobody waits for a permit that is free: no wakeup is lost.              *)
NobodyWaitsForAFreePermit ==
  \A k \in Key : queue[k] # <<>> => avail[k] = 0

(* Never do more live clients believe they hold a key than it has permits, *)
(* late replies, early releases and deaths included.                       *)
MutualExclusion ==
  \A k \in Key : Cardinality(Of(owns, k)) <= k.permits

(* The idle exit never pulls the daemon from under a connected client.     *)
ExitServesNobody ==
  loop = "exited" =>
    \A c \in Client : conn[c] \in {"none", "backlog", "closed"}

(* A waiting Acquire that has a timeout gets an answer.                    *)
TimedAcquireIsAnswered ==
  \A c \in Client :
    conn[c] = "acquiring" /\ wants[c].timed ~> conn[c] # "acquiring"

(* The permits of a client that has gone come free, unless its handler is  *)
(* itself waiting, without a timeout, for another lock.                    *)
DeadClientsLetGo ==
  \A c \in Client :
    ~open[c] ~> held[c] = {} \/ (conn[c] = "acquiring" /\ ~wants[c].timed)
=============================================================================
