----------------------------- MODULE ConsoleTasks -----------------------------
(***************************************************************************)
(* Tasks of the approval console.  A daemon thread executes the agent in a   *)
(* pod and pumps its stdout and stderr into the task's entry of _SESSIONS;   *)
(* any number of generators, each in a thread pool's thread, copy from that  *)
(* entry to the server-sent events of a page.  The lock _SESSIONS_LOCK       *)
(* covers one append, or one look at the entry.                              *)
(*                                                                           *)
(* A chunk is what one line of a frame holds: the console does not put a     *)
(* line together again that two frames divide.                               *)
(***************************************************************************)
EXTENDS Naturals, Sequences, SequencesExt

CONSTANTS
  Task,       \* POST /api/sessions, and those of agents
  TaskPage,   \* pages of the console that show a task, app.py
  AgentPage,  \* those that show an agent's task, ui/routes.py
  MaxChunks,  \* bound on the chunks that an agent writes
  MaxCuts     \* bound on the connections that a page loses

ASSUME PagesAssumption == TaskPage \intersect AgentPage = {}
ASSUME TaskBoundsAssumption == MaxChunks \in Nat /\ MaxCuts \in Nat

Page == TaskPage \union AgentPage
Channel == {"out", "err"}
ErrorLine == 0  \* the line that reports an exception

VARIABLES
  wrote,   \* the channels of the chunks that arrived from the agent, in order
  exited,  \* the agent's process ended
  link,    \* the exec connection, as is_open sees it
  taken,   \* the chunks that the client library took from the connection
  buffer,  \* those that nobody read yet, by channel
  thread,  \* where the pumping thread is
  known,   \* the tasks that _SESSIONS has
  lines, done,  \* the task's entry
  shows,   \* the task that a page shows
  sse,     \* the page's connection, and its generator
  idx, upto, seen, \* idx, idx_new and done of the generator
  shown,   \* the page's transcript
  cuts     \* connections that the page lost

exec  == <<wrote, exited>>
pipe  == <<link, taken, buffer>>
entry == <<known, lines, done>>
pages == <<shows, sse, idx, upto, seen, shown, cuts>>
tasksVars == <<exec, pipe, thread, entry, pages>>

Streaming == {"poll", "send"}

TasksTypeOK ==
  /\ wrote \in [Task -> Seq(Channel)] /\ \A t \in Task : Len(wrote[t]) <= MaxChunks
  /\ exited \subseteq Task /\ known \subseteq Task /\ done \subseteq Task
  /\ link \in [Task -> {"none", "open", "closed", "cut"}]
  /\ taken \in [Task -> 0 .. MaxChunks]
  /\ buffer \in [Task -> [Channel -> Seq(1 .. MaxChunks)]]
  /\ thread \in [Task -> {"none", "connect", "loop", "out", "read out",
                          "err", "read err", "error", "end", "over"}]
  /\ lines \in [Task -> Seq(0 .. MaxChunks)]
  /\ shows \in [Page -> Task]
  /\ sse \in [Page -> Streaming \union {"off", "lost", "done", "closed"}]
  /\ {idx, upto} \subseteq [Page -> Nat]
  /\ \A p \in Page : idx[p] <= upto[p] /\ upto[p] <= Len(lines[shows[p]])
  /\ seen \subseteq Page
  /\ shown \in [Page -> Seq(0 .. MaxChunks)]
  /\ cuts \in [Page -> 0 .. MaxCuts]

TasksInit ==
  /\ wrote = [t \in Task |-> <<>>] /\ exited = {}
  /\ link = [t \in Task |-> "none"]
  /\ taken = [t \in Task |-> 0]
  /\ buffer = [t \in Task |-> [c \in Channel |-> <<>>]]
  /\ thread = [t \in Task |-> "none"]
  /\ known = {} /\ lines = [t \in Task |-> <<>>] /\ done = {}
  /\ shows \in [Page -> Task]
  /\ sse = [p \in Page |-> "off"]
  /\ idx = [p \in Page |-> 0] /\ upto = [p \in Page |-> 0] /\ seen = {}
  /\ shown = [p \in Page |-> <<>>] /\ cuts = [p \in Page |-> 0]

-----------------------------------------------------------------------------
(* The agent, in its pod.                                                    *)

\* external: it writes, on either channel, and ends.
Write(t, c) ==
  /\ link[t] = "open" /\ t \notin exited /\ Len(wrote[t]) < MaxChunks
  /\ wrote' = [wrote EXCEPT ![t] = Append(@, c)]
  /\ UNCHANGED <<exited, pipe, thread, entry, pages>>

Exit(t) ==
  /\ link[t] = "open" /\ t \notin exited
  /\ exited' = exited \union {t}
  /\ UNCHANGED <<wrote, pipe, thread, entry, pages>>

-----------------------------------------------------------------------------
(* The pump.                                                                 *)

GotoThread(t, to) == thread' = [thread EXCEPT ![t] = to]
Store(t, line) == lines' = [lines EXCEPT ![t] = Append(@, line)]

\* The entry is made, and a thread started; without a goal, or for somebody
\* else's agent, or one that is not usable, there is no task at all.
Launch(t) ==
  /\ thread[t] = "none"
  /\ \/ /\ GotoThread(t, "connect")
        /\ known' = known \union {t}
     \/ GotoThread(t, "over") /\ UNCHANGED known
  /\ UNCHANGED <<exec, pipe, lines, done, pages>>

\* The shared harness pod, or the agent's own sandbox; either must be Running.
Connect(t) ==
  /\ thread[t] = "connect"
  /\ \/ link' = [link EXCEPT ![t] = "open"] /\ GotoThread(t, "loop")
     \/ UNCHANGED link /\ GotoThread(t, "error")
  /\ UNCHANGED <<exec, taken, buffer, entry, pages>>

\* One update of the client library, which every look at a channel begins with: a
\* frame, or nothing, or the end of the connection, which comes after the frames.
Update(t) ==
  \/ /\ link[t] = "open" /\ taken[t] < Len(wrote[t])
     /\ taken' = [taken EXCEPT ![t] = @ + 1]
     /\ buffer' = [buffer EXCEPT ![t][wrote[t][taken[t] + 1]] = Append(@, taken[t] + 1)]
     /\ UNCHANGED link
  \/ /\ link[t] # "open" \/ (taken[t] = Len(wrote[t]) /\ t \notin exited)
     /\ UNCHANGED <<taken, buffer, link>>
  \/ /\ link[t] = "open"
     /\ link' = [link EXCEPT ![t] = IF taken[t] = Len(wrote[t]) /\ t \in exited
                                    THEN "closed" ELSE "cut"]
     /\ UNCHANGED <<taken, buffer>>

\* while resp.is_open(): resp.update()
Loop(t) ==
  /\ thread[t] = "loop"
  /\ \/ link[t] = "open" /\ Update(t) /\ GotoThread(t, "out")
     \/ link[t] # "open" /\ UNCHANGED pipe /\ GotoThread(t, "end")
  /\ UNCHANGED <<exec, entry, pages>>

Reading == [out |-> "read out", err |-> "read err"]

\* if resp.peek_stdout(), if resp.peek_stderr()
Peek(t) ==
  /\ thread[t] \in Channel
  /\ Update(t)
  /\ GotoThread(t, Reading[thread[t]])
  /\ UNCHANGED <<exec, entry, pages>>

\* Everything that was read is appended, one line at a time.
ReadLine(t, c, next) ==
  /\ thread[t] = Reading[c]
  /\ \/ /\ buffer[t][c] # <<>>
        /\ Store(t, Head(buffer[t][c]))
        /\ buffer' = [buffer EXCEPT ![t][c] = Tail(@)]
        /\ UNCHANGED thread
     \/ /\ buffer[t][c] = <<>>
        /\ GotoThread(t, next)
        /\ UNCHANGED <<lines, buffer>>
  /\ UNCHANGED <<exec, link, taken, known, done, pages>>

\* The client library raises; the connection is closed.
Raise(t) ==
  /\ thread[t] \in {"loop", "out", "err"}
  /\ link' = [link EXCEPT ![t] = "cut"]
  /\ GotoThread(t, "error")
  /\ UNCHANGED <<exec, taken, buffer, entry, pages>>

ReportOnly(t) ==
  /\ thread[t] = "error"
  /\ Store(t, ErrorLine)
  /\ GotoThread(t, "over")
  /\ UNCHANGED <<exec, pipe, known, done, pages>>

Report(t) ==
  /\ thread[t] = "error"
  /\ Store(t, ErrorLine)
  /\ GotoThread(t, "end")
  /\ UNCHANGED <<exec, pipe, known, done, pages>>

\* finally: _mark_done.
MarkDone(t) ==
  /\ thread[t] = "end"
  /\ done' = done \union {t}
  /\ GotoThread(t, "over")
  /\ UNCHANGED <<exec, pipe, known, lines, pages>>

-----------------------------------------------------------------------------
(* The streams.                                                              *)

GotoStream(p, to) == sse' = [sse EXCEPT ![p] = to]

\* GET /api/sessions/{sid}/stream; for a task that is not in _SESSIONS, a 404,
\* after which the browser does not try again.
Subscribe(p) ==
  /\ sse[p] \in {"off", "lost"} /\ thread[shows[p]] # "none"
  /\ GotoStream(p, IF shows[p] \in known THEN "poll" ELSE "closed")
  /\ idx' = [idx EXCEPT ![p] = 0] /\ upto' = [upto EXCEPT ![p] = 0]
  /\ seen' = seen \ {p}
  /\ UNCHANGED <<exec, pipe, thread, entry, shows, shown, cuts>>

\* The generator looks at the entry.
Poll(p) ==
  /\ sse[p] = "poll" /\ shows[p] \in known
  /\ upto' = [upto EXCEPT ![p] = Len(lines[shows[p]])]
  /\ seen' = IF shows[p] \in done THEN seen \union {p} ELSE seen
  /\ GotoStream(p, "send")
  /\ UNCHANGED <<exec, pipe, thread, entry, shows, idx, shown, cuts>>

\* It yields an event for each line that was new, and the page adds it.
Send(p) ==
  /\ sse[p] = "send" /\ idx[p] < upto[p]
  /\ idx' = [idx EXCEPT ![p] = @ + 1]
  /\ shown' = [shown EXCEPT ![p] = Append(@, lines[shows[p]][idx[p] + 1])]
  /\ UNCHANGED <<exec, pipe, thread, entry, shows, sse, upto, seen, cuts>>

DrainedNow(p) ==
  /\ sse[p] = "send" /\ idx[p] = upto[p]
  /\ GotoStream(p, IF shows[p] \in done THEN "done" ELSE "poll")
  /\ UNCHANGED <<exec, pipe, thread, entry, shows, idx, upto, seen, shown, cuts>>

\* Then the done event, if the task was done when it looked.
Drained(p) ==
  /\ sse[p] = "send" /\ idx[p] = upto[p]
  /\ GotoStream(p, IF p \in seen THEN "done" ELSE "poll")
  /\ UNCHANGED <<exec, pipe, thread, entry, shows, idx, upto, seen, shown, cuts>>

OnErrorReconnect(p) == "lost"

\* onerror: app.py's page closes the stream; the page of ui/routes.py leaves it to
\* the browser, which connects again, and adds the events to those it shows.
OnError(p) == IF p \in TaskPage THEN "closed" ELSE "lost"

Cut(p) ==
  /\ sse[p] \in Streaming /\ cuts[p] < MaxCuts
  /\ GotoStream(p, OnError(p))
  /\ cuts' = [cuts EXCEPT ![p] = @ + 1]
  /\ UNCHANGED <<exec, pipe, thread, entry, shows, idx, upto, seen, shown>>

-----------------------------------------------------------------------------

\* The console's pod is replaced: _SESSIONS, the threads and the streams are gone.
Restart ==
  /\ known # {}
  /\ known' = {}
  /\ thread' = [t \in Task |-> IF thread[t] = "none" THEN "none" ELSE "over"]
  /\ sse' = [p \in Page |-> IF sse[p] \in Streaming THEN OnError(p) ELSE sse[p]]
  /\ UNCHANGED <<exec, pipe, lines, done, shows, idx, upto, seen, shown, cuts>>

Pump(t) == \/ Connect(t) \/ Loop(t) \/ Peek(t) \/ Report(t) \/ MarkDone(t)
           \/ ReadLine(t, "out", "err") \/ ReadLine(t, "err", "loop")
Stream(p) == Poll(p) \/ Send(p) \/ Drained(p)

TasksNext ==
  \/ \E t \in Task : Launch(t) \/ Pump(t) \/ Raise(t) \/ Exit(t) \/ \E c \in Channel : Write(t, c)
  \/ \E p \in Page : Subscribe(p) \/ Stream(p) \/ Cut(p)
  \/ Restart

TasksSpec == TasksInit /\ [][TasksNext]_tasksVars

\* The threads run: every wait in them has a time-out.
FairTasks == /\ TasksSpec
             /\ \A t \in Task : WF_tasksVars(Pump(t))
             /\ \A p \in Page : WF_tasksVars(Stream(p))

-----------------------------------------------------------------------------
(* Properties.                                                               *)

SameChannel(t, m, n) == ErrorLine \notin {m, n} /\ wrote[t][m] = wrote[t][n]

\* app.py:195, 426 - each channel's output is stored in its order, once and without a
\* gap, and a task that is done without an error line, on a connection that the agent's
\* end closed, has all of it.
StoredInOrder == \A t \in Task :
  /\ \A i, j \in DOMAIN lines[t] :
       i < j /\ SameChannel(t, lines[t][i], lines[t][j]) => lines[t][i] < lines[t][j]
  /\ \A i \in DOMAIN lines[t], n \in DOMAIN wrote[t] :
       n < lines[t][i] /\ SameChannel(t, n, lines[t][i]) => n \in Range(lines[t])
  /\ t \in done /\ link[t] = "closed" /\ ErrorLine \notin Range(lines[t]) =>
       DOMAIN wrote[t] \subseteq Range(lines[t])

\* app.py:1621 - "When all lines have been sent and the session is marked done, a
\* final termination event is sent": not before, whatever the pump appends while
\* the generator is between its steps.
DoneIsLast == \A p \in Page :
  sse[p] = "done" => /\ shows[p] \in done
                     /\ IsSuffix(lines[shows[p]], shown[p])

\* The invariants of the transcripts.
TasksInv == TasksTypeOK /\ StoredInOrder /\ DoneIsLast

\* app.py:964 - the task page shows every line at most once, in order, though
\* connections break and the console restarts.
ShownOnce == \A p \in TaskPage : IsPrefix(shown[p], lines[shows[p]])

\* The agent ended, its connection was cut, or the thread that pumped is at its end: the
\* pod was never reached, the client library raised, or there is nothing more to come.
Ending(t) == t \in exited \/ link[t] = "cut" \/ thread[t] \in {"error", "end", "over"}

\* app.py:127, 183, 192 - however a task's end comes about, each stream of it ends too.
StreamsEnd == \A p \in Page :
  Ending(shows[p]) /\ sse[p] \in Streaming ~> sse[p] \notin Streaming
=============================================================================
