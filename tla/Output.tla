------------------------------- MODULE Output -------------------------------
(* What a hook prints: the channel of OutputEvents with its one writer     *)
(* (runner/output.rs), the readers of a command's pipes (runner/proc.rs),  *)
(* and the tee that captures what a parallel job says for the cache        *)
(* (execute_job_in_dag).                                                   *)
(*                                                                         *)
(* Which job may start when is the business of Scheduler: here any job may *)
(* that has not, one at a time in a sequential hook.  A line is its place  *)
(* in the stream; a line that a reader has taken but found no room for is  *)
(* still in the pipe.                                                      *)
(***************************************************************************)
EXTENDS Integers, FiniteSets, SequencesExt

CONSTANTS
  Job,
  Work,        \* per job [commands, builtin, cached]; a command is what it
               \* writes to either stream: [out |-> n, err |-> n]
  Room,        \* the capacity of the event channel
  LocalRoom    \* the capacity of a job's local channel

Stream == {"out", "err"}

(* A plan has a command or more (resolve_job_plan), a command some lines.  *)
ASSUME WorkAssumption ==
  /\ DOMAIN Work = Job
  /\ \A j \in Job : /\ Work[j].commands \in Seq([Stream -> Nat])
                     /\ Work[j].commands # <<>>
                     /\ Work[j].builtin \in BOOLEAN /\ Work[j].cached \in BOOLEAN
ASSUME RoomAssumption == Room \in Nat \ {0} /\ LocalRoom \in Nat \ {0}

VARIABLES
  hook,      \* [parallel, fail_fast]
  main,      \* run_hook_with_options: what it is at
  replay,    \* what comes next of a cached job's events
  joined,    \* jobs whose result the scheduler has taken
  cancel,    \* the hook failed fast: cancelled, and no job starts any more
  failed,    \* jobs a command of which failed
  pc,        \* per job, what its task is at
  cmd,       \* per job, the number of the command
  exit,      \* per job, how its command ended
  child,     \* per job, the process of its command
  unread,    \* per job and stream, lines of the command that are not read
  reader,    \* per job and stream, the reader task is alive
  local,     \* per job, its local channel
  held,      \* per job, the event its tee is about to forward
  tee,       \* per job, the tee task is alive
  captured,  \* per job, what its tee has captured
  queue,     \* the event channel
  printed,   \* per job, the events the writer has written
  summary    \* the Summary is written

task == <<pc, cmd, exit, child, unread, reader>>
capture == <<local, held, tee, captured>>
terminal == <<printed, summary>>
vars == <<hook, main, replay, joined, cancel, failed, task, capture, queue, terminal>>

(* The events, each with its job; 0 is none of the jobs.                   *)
Ev(j, kind, c, s, n) == [job |-> j, is |-> kind, cmd |-> c, stream |-> s, n |-> n]
Started(j, c) == Ev(j, "started", c, "out", 0)
Line(j, c, s, n) == Ev(j, "line", c, s, n)
Finished(j, c, how) == Ev(j, "finished", c, how, 0)
Diagnostic(j) == Ev(j, "diagnostic", 0, "out", 0)
CacheHit(j) == Ev(j, "hit", 0, "out", 0)
Summary == Ev(0, "summary", 0, "out", 0)

Nothing == [s \in Stream |-> 0]
Beginning(j) == [job |-> j, cmd |-> 1, at |-> "start", left |-> Nothing]

Init ==
  /\ hook \in [parallel : BOOLEAN, fail_fast : BOOLEAN]
  /\ main = "running" /\ replay = Beginning(0)
  /\ joined = {} /\ cancel = FALSE /\ failed = {}
  /\ pc = [j \in Job |-> "idle"]
  /\ cmd = [j \in Job |-> 1]
  /\ exit = [j \in Job |-> "ok"]
  /\ child = [j \in Job |-> "none"]
  /\ unread = [j \in Job |-> Nothing]
  /\ reader = [j \in Job |-> [s \in Stream |-> FALSE]]
  /\ local = [j \in Job |-> <<>>] /\ held = [j \in Job |-> <<>>]
  /\ tee = [j \in Job |-> FALSE] /\ captured = [j \in Job |-> <<>>]
  /\ queue = <<>>
  /\ printed = [j \in Job |-> <<>>] /\ summary = FALSE

-----------------------------------------------------------------------------

(* Sending waits for room.                                                 *)
Send(e) == Len(queue) < Room /\ queue' = Append(queue, e)

(* What a task and its readers send goes through the tee, when there is    *)
(* one, and to the writer otherwise.                                       *)
Emit(j, e) ==
  IF hook.parallel
  THEN /\ Len(local[j]) < LocalRoom
       /\ local' = [local EXCEPT ![j] = Append(@, e)]
       /\ UNCHANGED queue
  ELSE Send(e) /\ UNCHANGED local

Goto(j, label) == pc' = [pc EXCEPT ![j] = label]

(* The scheduler starts a job, or finds it in the cache.                   *)
Start(j) ==
  /\ main = "running" /\ ~cancel /\ pc[j] = "idle"
  /\ hook.parallel \/ \A k \in Job : pc[k] = "idle" \/ k \in joined
  /\ Goto(j, "start")
  /\ tee' = [tee EXCEPT ![j] = hook.parallel]
  /\ UNCHANGED <<hook, main, replay, joined, cancel, failed, cmd, exit, child,
                 unread, reader, local, held, captured, queue, terminal>>

(* The events that a run of the job left in the cache: it is kept only of  *)
(* a job that did not fail, with the lines of the two streams in whatever  *)
(* order the tee got them.                                                 *)
Hit(j) ==
  /\ main = "running" /\ ~cancel /\ pc[j] = "idle"
  /\ hook.parallel /\ Work[j].cached
  /\ Send(CacheHit(j))
  /\ main' = "replaying" /\ replay' = Beginning(j)
  /\ Goto(j, "hit")
  /\ UNCHANGED <<hook, joined, cancel, failed, cmd, exit, child, unread, reader,
                 capture, terminal>>

ReplayStarted ==
  /\ replay.at = "start"
  /\ Send(Started(replay.job, replay.cmd))
  /\ replay' = [replay EXCEPT !.at = "lines",
                             !.left = Work[replay.job].commands[replay.cmd]]

ReplayLine(s) ==
  /\ replay.at = "lines" /\ replay.left[s] > 0
  /\ Send(Line(replay.job, replay.cmd, s,
               Work[replay.job].commands[replay.cmd][s] - replay.left[s] + 1))
  /\ replay' = [replay EXCEPT !.left[s] = @ - 1]

ReplayFinished ==
  /\ replay.at = "lines" /\ replay.left = Nothing
  /\ Send(Finished(replay.job, replay.cmd, "ok"))
  /\ replay' = IF replay.cmd < Len(Work[replay.job].commands)
               THEN [replay EXCEPT !.at = "start", !.cmd = @ + 1]
               ELSE [replay EXCEPT !.at = "over"]

Replay ==
  /\ main = "replaying"
  /\ \/ /\ ReplayStarted \/ ReplayFinished \/ \E s \in Stream : ReplayLine(s)
        /\ UNCHANGED <<main, joined>>
     \/ /\ replay.at = "over"
        /\ main' = "running" /\ joined' = joined \cup {replay.job}
        /\ UNCHANGED <<replay, queue>>
  /\ UNCHANGED <<hook, cancel, failed, task, capture, terminal>>

-----------------------------------------------------------------------------
(* run_command.                                                            *)

CommandStarted(j) ==
  /\ pc[j] = "start"
  /\ Emit(j, Started(j, cmd[j]))
  /\ Goto(j, "spawn")
  /\ UNCHANGED <<hook, main, replay, joined, cancel, failed, cmd, exit, child,
                 unread, reader, held, tee, captured, terminal>>

Spawn(j) ==
  /\ pc[j] = "spawn"
  /\ child' = [child EXCEPT ![j] = "running"]
  /\ unread' = [unread EXCEPT ![j] = Work[j].commands[cmd[j]]]
  /\ reader' = [reader EXCEPT ![j] = [s \in Stream |-> TRUE]]
  /\ Goto(j, "wait")
  /\ UNCHANGED <<hook, main, replay, joined, cancel, failed, cmd, exit, capture,
                 queue, terminal>>

(* A line that the command has written.                                    *)
ReadLine(j, s) ==
  /\ reader[j][s] /\ unread[j][s] > 0
  /\ Emit(j, Line(j, cmd[j], s, Work[j].commands[cmd[j]][s] - unread[j][s] + 1))
  /\ unread' = [unread EXCEPT ![j][s] = @ - 1]
  /\ UNCHANGED <<hook, main, replay, joined, cancel, failed, pc, cmd, exit, child,
                 reader, held, tee, captured, terminal>>

(* The end of a pipe: what a killed command did not write is not there.    *)
ReadEnd(j, s) ==
  /\ reader[j][s]
  /\ child[j] = "killed" \/ (child[j] = "exited" /\ unread[j][s] = 0)
  /\ reader' = [reader EXCEPT ![j][s] = FALSE]
  /\ unread' = [unread EXCEPT ![j][s] = 0]
  /\ UNCHANGED <<hook, main, replay, joined, cancel, failed, pc, cmd, exit, child,
                 capture, queue, terminal>>

ChildExits(j) ==
  /\ pc[j] = "wait"
  /\ exit' \in { [exit EXCEPT ![j] = how] : how \in {"ok", "failed"} }
  /\ child' = [child EXCEPT ![j] = "exited"]
  /\ Goto(j, "drain")
  /\ UNCHANGED <<hook, main, replay, joined, cancel, failed, cmd, unread, reader,
                 capture, queue, terminal>>

(* Timeout, or cancel: the command is killed, its readers are aborted and  *)
(* with them the pipes are gone.                                           *)
ChildAborted(j) ==
  /\ pc[j] = "wait"
  /\ exit' = [exit EXCEPT ![j] = "aborted"]
  /\ child' = [child EXCEPT ![j] = "killed"]
  /\ reader' = [reader EXCEPT ![j] = [s \in Stream |-> FALSE]]
  /\ unread' = [unread EXCEPT ![j] = Nothing]
  /\ Goto(j, "drain")
  /\ UNCHANGED <<hook, main, replay, joined, cancel, failed, cmd, capture, queue,
                 terminal>>

(* Mutant: only stdout is drained.                                         *)
MutDrained(j) == ~reader[j]["out"]

Drained(j) == \A s \in Stream : ~reader[j][s]

DrainReaders(j) ==
  /\ pc[j] = "drain" /\ Drained(j)
  /\ Goto(j, "finish")
  /\ UNCHANGED <<hook, main, replay, joined, cancel, failed, cmd, exit, child,
                 unread, reader, capture, queue, terminal>>

(* A parallel job stops at the first command that fails, a sequential one  *)
(* when the hook fails fast.                                               *)
GoesOn(j) ==
  /\ cmd[j] < Len(Work[j].commands)
  /\ exit[j] = "ok" \/ (~hook.parallel /\ ~hook.fail_fast)

CommandFinished(j) ==
  /\ pc[j] = "finish"
  /\ Emit(j, Finished(j, cmd[j], exit[j]))
  /\ failed' = IF exit[j] = "ok" THEN failed ELSE failed \cup {j}
  /\ IF GoesOn(j) THEN Goto(j, "start") /\ cmd' = [cmd EXCEPT ![j] = @ + 1]
     ELSE Goto(j, IF hook.parallel THEN "close" ELSE "diagnose") /\ UNCHANGED cmd
  /\ UNCHANGED <<hook, main, replay, joined, cancel, exit, child, unread, reader,
                 held, tee, captured, terminal>>

(* An error ends the task: the snapshot before the first command, spawn,   *)
(* wait (the child is dropped, and killed), or `git add` at the end.       *)
TaskFails(j) ==
  /\ \/ pc[j] \in {"spawn", "wait", "diagnose"}
     \/ pc[j] = "start" /\ cmd[j] = 1
  /\ Goto(j, "error")
  /\ child' = [child EXCEPT ![j] = IF pc[j] = "wait" THEN "killed" ELSE @]
  /\ UNCHANGED <<hook, main, replay, joined, cancel, failed, cmd, exit, unread,
                 reader, capture, queue, terminal>>

-----------------------------------------------------------------------------
(* The tee.                                                                *)

TeeReceive(j) ==
  /\ tee[j] /\ held[j] = <<>> /\ local[j] # <<>>
  /\ held' = [held EXCEPT ![j] = <<Head(local[j])>>]
  /\ captured' = [captured EXCEPT ![j] = Append(@, Head(local[j]))]
  /\ local' = [local EXCEPT ![j] = Tail(@)]
  /\ UNCHANGED <<hook, main, replay, joined, cancel, failed, task, tee, queue, terminal>>

(* Mutant: an event that finds no room is dropped.                         *)
MutForward(j) ==
  queue' = IF Len(queue) < Room THEN Append(queue, held[j][1]) ELSE queue

Forward(j) == Send(held[j][1])

TeeForward(j) ==
  /\ held[j] # <<>>
  /\ Forward(j)
  /\ held' = [held EXCEPT ![j] = <<>>]
  /\ UNCHANGED <<hook, main, replay, joined, cancel, failed, task, local, tee,
                 captured, terminal>>

(* The task has a sender of the local channel until it drops it.           *)
TaskHolds(j) == pc[j] \in {"start", "spawn", "wait", "drain", "finish"}

(* The channel is closed: nobody can send, and all that was sent is read.  *)
TeeEnds(j) ==
  /\ tee[j] /\ held[j] = <<>> /\ local[j] = <<>>
  /\ ~TaskHolds(j) /\ \A s \in Stream : ~reader[j][s]
  /\ tee' = [tee EXCEPT ![j] = FALSE]
  /\ UNCHANGED <<hook, main, replay, joined, cancel, failed, task, local, held,
                 captured, queue, terminal>>

(* tee.await, once local_tx is dropped.                                    *)
Captured(j) ==
  /\ pc[j] = "close" /\ ~tee[j]
  /\ Goto(j, "diagnose")
  /\ UNCHANGED <<hook, main, replay, joined, cancel, failed, cmd, exit, child,
                 unread, reader, capture, queue, terminal>>

(* emit_builtin_diagnostics: a builtin's parser reads the captured stdout, *)
(* and finds one thing to say of it.  Of a sequential job nothing is       *)
(* captured, so that nothing is said.                                      *)
HasFindings(j) ==
  /\ Work[j].builtin
  /\ \E i \in DOMAIN captured[j] :
       captured[j][i].is = "line" /\ captured[j][i].stream = "out"

Diagnose(j) ==
  /\ pc[j] = "diagnose"
  /\ IF HasFindings(j) THEN Send(Diagnostic(j)) ELSE UNCHANGED queue
  /\ Goto(j, "done")
  /\ UNCHANGED <<hook, main, replay, joined, cancel, failed, cmd, exit, child,
                 unread, reader, capture, terminal>>

-----------------------------------------------------------------------------
(* Mutant: a job whose result was taken is still counted as running.       *)
MutTaken(j) == joined

Taken(j) == joined \cup {j}

(* The scheduler takes a result.  An error ends the run, unless it comes   *)
(* while a hook that failed fast waits for the jobs that are running.      *)
Join(j) ==
  /\ main = "running" /\ pc[j] \in {"done", "error"} /\ j \notin joined
  /\ joined' = Taken(j)
  /\ cancel' = (cancel \/ (pc[j] = "done" /\ j \in failed /\ hook.fail_fast))
  /\ main' = IF pc[j] = "error" /\ ~cancel THEN "error" ELSE main
  /\ UNCHANGED <<hook, replay, failed, task, capture, queue, terminal>>

AllJoined ==
  /\ \A j \in Job : j \in joined \/ pc[j] = "idle"
  /\ cancel \/ joined = Job

(* The Summary is the last thing run_hook_with_options sends; then it      *)
(* drops its sender and waits for the writer.                              *)
SendSummary ==
  /\ main = "running" /\ AllJoined
  /\ Send(Summary)
  /\ main' = "closing"
  /\ UNCHANGED <<hook, replay, joined, cancel, failed, task, capture, terminal>>

(* The writer.                                                             *)
Write ==
  /\ main \notin {"returned", "error"} /\ queue # <<>>
  /\ LET e == Head(queue)
     IN  IF e = Summary THEN summary' = TRUE /\ UNCHANGED printed
         ELSE /\ printed' = [printed EXCEPT ![e.job] = Append(@, e)]
              /\ UNCHANGED summary
  /\ queue' = Tail(queue)
  /\ UNCHANGED <<hook, main, replay, joined, cancel, failed, task, capture>>

(* Senders of the event channel that are not the scheduler's.              *)
Senders ==
  { j \in Job : \/ tee[j] \/ pc[j] \notin {"idle", "hit", "done", "error"}
                \/ \E s \in Stream : reader[j][s] }

(* Mutant: run_hook_with_options does not wait for the writer.             *)
MutWriterEnded == TRUE

WriterEnded == queue = <<>> /\ Senders = {}

Return ==
  /\ main = "closing" /\ WriterEnded
  /\ main' = "returned"
  /\ UNCHANGED <<hook, replay, joined, cancel, failed, task, capture, queue, terminal>>

(* After an error the process ends without waiting for the writer.         *)
Ended == main \in {"returned", "error"} /\ UNCHANGED vars

Running == main \notin {"returned", "error"}

JobStep(j) ==
  /\ Running
  /\ \/ CommandStarted(j) \/ Spawn(j) \/ ChildExits(j) \/ ChildAborted(j)
     \/ DrainReaders(j) \/ CommandFinished(j) \/ TaskFails(j)
     \/ Captured(j) \/ Diagnose(j)
     \/ \E s \in Stream : ReadLine(j, s) \/ ReadEnd(j, s)

TeeStep(j) == Running /\ (TeeReceive(j) \/ TeeForward(j) \/ TeeEnds(j))

MainStep ==
  Replay \/ SendSummary \/ Return \/ \E j \in Job : Start(j) \/ Hit(j) \/ Join(j)

Next ==
  \/ MainStep \/ Write \/ Ended
  \/ \E j \in Job : JobStep(j) \/ TeeStep(j)

(* Tasks are scheduled fairly, commands end and pipes are closed.          *)
Spec ==
  /\ Init /\ [][Next]_vars
  /\ WF_vars(MainStep) /\ WF_vars(Write)
  /\ \A j \in Job : WF_vars(TeeStep(j)) /\ WF_vars(JobStep(j))

-----------------------------------------------------------------------------
(* What the run of a job says in a sequence of events: the events of its   *)
(* commands, in their order.  The notice of a hit is none of them, and     *)
(* neither is a diagnostic, which no command has said.                     *)
OfRun(e, j) == e.job = j /\ e.is \in {"started", "line", "finished"}

(* The number of them among the first i events.                            *)
Rank(events, j, i) == Cardinality({ h \in 1..i : OfRun(events[h], j) })

Said(events, j) ==
  [k \in 1..Rank(events, j, Len(events)) |->
     events[CHOOSE i \in DOMAIN events :
              OfRun(events[i], j) /\ Rank(events, j, i) = k]]

(* What a command's event follows: a command the end of the one before it, *)
(* a line the line before it, and the notice that a command has finished,  *)
(* if it was not aborted, everything that it had to say.                   *)
Follows(j, said, k) ==
  LET e == said[k]
      told(kind, c) == \E i \in 1..(k - 1) : said[i].is = kind /\ said[i].cmd = c
      line(s, n) == \E i \in 1..(k - 1) :
                      /\ said[i].is = "line" /\ said[i].cmd = e.cmd
                      /\ said[i].stream = s /\ said[i].n = n
  IN  /\ e.is = "started" => e.cmd = 1 \/ told("finished", e.cmd - 1)
      /\ e.is # "started" => told("started", e.cmd)
      /\ e.is = "line" => e.n = 1 \/ line(e.stream, e.n - 1)
      /\ e.is = "finished" /\ e.stream # "aborted" =>
           \A s \in Stream : \A n \in 1..Work[j].commands[e.cmd][s] : line(s, n)

(* What may come before an event of the same run.                          *)
Precedes(d, e) ==
  /\ d.cmd <= e.cmd
  /\ d.cmd = e.cmd => d.is # "finished" /\ e.is # "started"
  /\ d.cmd = e.cmd /\ d.is = "line" /\ e.is = "line" /\ d.stream = e.stream =>
       d.n < e.n

(* A run: commands of the job one after the other, of each the lines of    *)
(* either stream complete up to a point and in order, nothing of it after  *)
(* its end.                                                                *)
IsRun(j, said) ==
  /\ \A k \in DOMAIN said :
       /\ said[k].cmd \in DOMAIN Work[j].commands
       /\ said[k].is = "line" =>
            said[k].n \in 1..Work[j].commands[said[k].cmd][said[k].stream]
       /\ Follows(j, said, k)
  /\ \A k \in DOMAIN said : \A i \in 1..(k - 1) : Precedes(said[i], said[k])

(* output.rs 3-7: what is written of a job is a run of it, or the          *)
(* beginning of one.                                                       *)
TranscriptsAreRuns == \A j \in Job : IsRun(j, Said(printed[j], j))

(* What the cache will replay is what the terminal got, in that order: the *)
(* capture of a job that really ran is what is written of it, waits to be, *)
(* or is in the tee's hands.                                               *)
CaptureIsWhatIsPrinted ==
  hook.parallel =>
    \A j \in Job : pc[j] # "hit" =>
      captured[j] = Said(printed[j] \o queue \o held[j], j)

(* A hook that reports has written all that its jobs said, to the end of   *)
(* their last commands.                                                    *)
ReportMeansPrinted ==
  main = "returned" =>
    /\ queue = <<>> /\ summary
    /\ \A j \in Job :
         /\ local[j] = <<>> /\ held[j] = <<>>
         /\ pc[j] \in {"hit", "done"} =>
              LET said == Said(printed[j], j)
              IN  said # <<>> /\ said[Len(said)].is = "finished"

(* However full the channels are, the run ends.                            *)
RunEnds == <>(main \in {"returned", "error"})
=============================================================================
