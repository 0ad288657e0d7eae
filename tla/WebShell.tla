------------------------------- MODULE WebShell --------------------------------
(***************************************************************************)
(* Shells in the console: a page in the browser, a web socket, and a bridge  *)
(* to a pseudo-terminal on which `oc exec` runs a shell in an agent's        *)
(* sandbox.  The bridges of all pages run on the console's one event loop:   *)
(* a step from one await to the next is an action, and a write that waits    *)
(* for room in the terminal keeps the loop to itself.                        *)
(*                                                                           *)
(* The keys of a page, and the output of a program, are numbered.            *)
(***************************************************************************)
EXTENDS Naturals, Sequences, FiniteSets, SequencesExt

CONSTANTS
  Shell,    \* pages, each with a shell
  Fd,       \* file descriptors
  Keys,     \* keys typed in each page
  Outputs,  \* chunks that each one's program writes
  Resizable, \* pages whose window is resized
  InCap, OutCap,  \* what a terminal holds in either direction
  DownCap,  \* what is on its way to the browser before a send waits
  None

ASSUME CapsAssumption == /\ {Keys, Outputs} \subseteq [Shell -> Nat]
                         /\ {InCap, OutCap, DownCap} \subseteq Nat \ {0}
ASSUME ShellAssumption == None \notin Shell \union Fd /\ Resizable \subseteq Shell

VARIABLES
  page,     \* the socket as the page sees it
  typed,    \* how many keys were typed
  outQueue, \* the page's keystrokes before the socket is open
  win,      \* the window's size
  shown,    \* the output on the screen
  up, down, \* the socket's frames, either way
  bridge,   \* where open_bridge is
  fd,       \* its master_fd
  pump,     \* which of its two pumps go on
  queue,    \* its output_queue
  rest,     \* what _robust_write has yet to write; the loop stands still
  owner,    \* whose terminal a descriptor is
  reader,   \* whose callback the loop has for a descriptor
  input, output, size, \* the terminal: what it holds, and its window's size
  child,    \* oc
  taken, written       \* what the program has read and written

browser  == <<page, typed, outQueue, win, shown>>
socket   == <<up, down>>
console  == <<bridge, fd, pump, queue, rest, owner, reader>>
terminal == <<input, output, size>>
sandbox  == <<child, taken, written>>
shellVars == <<browser, socket, console, terminal, sandbox>>

Default == "120x40"
Sizes == {"small", "large"}

Eof == 0  \* None, in the code
Frame == [keys : Seq(Nat)] \union [resize : Sizes] \union {[bye |-> TRUE]}

ShellTypeOK ==
  /\ page \in [Shell -> {"connecting", "open", "left", "closed"}]
  /\ win \in [Shell -> Sizes] /\ typed \in [Shell -> Nat]
  /\ outQueue \in [Shell -> Seq(Seq(Nat))] /\ up \in [Shell -> Seq(Frame)]
  /\ {rest, input, taken} \subseteq [Shell -> Seq(Nat)]
  /\ {shown, down, queue, written, output} \subseteq [Shell -> Seq(Nat)]
  /\ \A s \in Shell :
       /\ typed[s] <= Keys[s] /\ Len(written[s]) <= Outputs[s]
       /\ Len(input[s]) <= InCap /\ Len(output[s]) <= OutCap /\ Len(down[s]) <= DownCap
  /\ bridge \in [Shell -> {"none", "accepted", "exec", "pump", "stop", "closed"}]
  /\ fd \in [Shell -> Fd \union {None}] /\ pump \in [Shell -> SUBSET {"in", "out"}]
  /\ owner \in [Fd -> Shell \union {None}] /\ reader \in [Fd -> Shell \union {None}]
  /\ size \in [Shell -> Sizes \union {Default}]
  /\ child \in [Shell -> {"none", "alive", "dead", "reaped"}]

ShellInit ==
  /\ page = [s \in Shell |-> "connecting"] /\ typed = [s \in Shell |-> 0]
  /\ outQueue = [s \in Shell |-> <<>>] /\ win = [s \in Shell |-> "small"]
  /\ shown = [s \in Shell |-> <<>>]
  /\ up = [s \in Shell |-> <<>>] /\ down = [s \in Shell |-> <<>>]
  /\ bridge = [s \in Shell |-> "none"] /\ fd = [s \in Shell |-> None]
  /\ pump = [s \in Shell |-> {}] /\ queue = [s \in Shell |-> <<>>]
  /\ rest = [s \in Shell |-> <<>>]
  /\ owner = [f \in Fd |-> None] /\ reader = [f \in Fd |-> None]
  /\ input = [s \in Shell |-> <<>>] /\ output = [s \in Shell |-> <<>>]
  /\ size = [s \in Shell |-> Default]
  /\ child = [s \in Shell |-> "none"]
  /\ taken = [s \in Shell |-> <<>>] /\ written = [s \in Shell |-> <<>>]

Set(f, s, to) == f' = [f EXCEPT ![s] = to]
Add(f, s, x)  == f' = [f EXCEPT ![s] = Append(@, x)]

-----------------------------------------------------------------------------
(* The page.                                                                 *)

UnchangedByPage == UNCHANGED <<down, console, terminal, sandbox>>

Resized(s) == [resize |-> win[s]]
Typed(s) == [i \in 1 .. Len(outQueue[s]) |-> [keys |-> outQueue[s][i]]]

\* ws.onopen: doFit, flushQueue.
Opened(s) ==
  /\ page[s] = "connecting" /\ bridge[s] # "none"
  /\ Set(page, s, "open")
  /\ Set(up, s, <<Resized(s)>> \o Typed(s)) /\ Set(outQueue, s, <<>>)
  /\ UnchangedByPage /\ UNCHANGED <<typed, win, shown>>

\* term.onData: a key, or several that were pasted.
Type(s, n) ==
  /\ page[s] \in {"connecting", "open"} /\ typed[s] + n <= Keys[s]
  /\ Set(typed, s, typed[s] + n)
  /\ LET keys == [i \in 1 .. n |-> typed[s] + i] IN
       IF page[s] = "open" THEN Add(up, s, [keys |-> keys]) /\ UNCHANGED outQueue
                           ELSE Add(outQueue, s, keys) /\ UNCHANGED up
  /\ UnchangedByPage /\ UNCHANGED <<page, win, shown>>

\* The window's resize event, here once.
Resize(s) ==
  /\ s \in Resizable /\ page[s] \in {"connecting", "open"} /\ win[s] = "small"
  /\ Set(win, s, "large")
  /\ IF page[s] = "open" THEN Add(up, s, [resize |-> "large"]) ELSE UNCHANGED up
  /\ UnchangedByPage /\ UNCHANGED <<page, typed, outQueue, shown>>

\* ws.onmessage.
Show(s) ==
  /\ page[s] = "open" /\ down[s] # <<>>
  /\ Add(shown, s, Head(down[s])) /\ Set(down, s, Tail(down[s]))
  /\ UNCHANGED <<page, typed, outQueue, win, up, console, terminal, sandbox>>

\* The window is closed, or the network fails.
Leave(s) ==
  /\ page[s] = "open"
  /\ Set(page, s, "left") /\ Add(up, s, [bye |-> TRUE])
  /\ UnchangedByPage /\ UNCHANGED <<typed, outQueue, win, shown>>

-----------------------------------------------------------------------------
(* The console.  Nothing else happens on its loop while a write waits.       *)

LoopTurns == \A s \in Shell : rest[s] = <<>>

\* ws.accept.
Accept(s) ==
  /\ LoopTurns /\ page[s] = "connecting" /\ bridge[s] = "none"
  /\ Set(bridge, s, "accepted")
  /\ UNCHANGED <<browser, socket, fd, pump, queue, rest, owner, reader, terminal, sandbox>>

\* ws.close: what was sent before is shown.  The bridge's variables are gone, and so is
\* the terminal.
Hangup(s) ==
  /\ Set(bridge, s, "closed") /\ Set(fd, s, None)
  /\ Set(input, s, <<>>) /\ Set(output, s, <<>>) /\ Set(size, s, Default)
  /\ page' = [page EXCEPT ![s] = IF @ = "left" THEN @ ELSE "closed"]
  /\ shown' = [shown EXCEPT ![s] = IF page[s] = "left" THEN @ ELSE @ \o down[s]]
  /\ Set(down, s, <<>>) /\ Set(up, s, <<>>)
  /\ UNCHANGED <<typed, outQueue, win>>

\* No such agent, not its owner nor an admin, not READY, or no sandbox.
Refuse(s) ==
  /\ LoopTurns /\ bridge[s] = "accepted"
  /\ Hangup(s)
  /\ UNCHANGED <<pump, queue, rest, owner, reader, sandbox>>

\* pty.openpty, and the default size.
OpenPty(s) ==
  /\ LoopTurns /\ bridge[s] = "accepted"
  /\ \E f \in Fd : owner[f] = None /\ Set(owner, f, s) /\ Set(fd, s, f)
  /\ Set(bridge, s, "exec") /\ Set(size, s, Default)
  /\ UNCHANGED <<browser, socket, pump, queue, rest, reader, input, output, sandbox>>

SpawnFails(s) ==
  /\ LoopTurns /\ bridge[s] = "exec"
  /\ Hangup(s) /\ Set(owner, fd[s], None)
  /\ UNCHANGED <<pump, queue, rest, reader, sandbox>>

\* oc runs; its terminal is watched, and the pumps are tasks.
Spawned(s) ==
  /\ LoopTurns /\ bridge[s] = "exec"
  /\ Set(bridge, s, "pump") /\ Set(child, s, "alive")
  /\ Set(reader, fd[s], s) /\ Set(pump, s, {"in", "out"})
  /\ UNCHANGED <<browser, socket, fd, queue, rest, owner, terminal, taken, written>>

ReadableDeadFirst(f) ==
  LET s == reader[f] IN
  /\ LoopTurns /\ s # None /\ owner[f] # None
  /\ LET t == owner[f] IN
     \/ /\ child[t] = "alive" /\ output[t] # <<>>
        /\ Set(queue, s, queue[s] \o output[t]) /\ Set(output, t, <<>>)
     \/ /\ child[t] # "alive"
        /\ Eof \notin Range(queue[s])
        /\ Add(queue, s, Eof) /\ UNCHANGED output
  /\ UNCHANGED <<browser, socket, bridge, fd, pump, rest, owner, reader, input, size, sandbox>>

\* _on_master_readable: what the program wrote, and the end when oc is gone.  The
\* code notes the end again at every turn, until nothing watches the descriptor: a bound of
\* the model is that it is noted once at a time.
Readable(f) ==
  LET s == reader[f] IN
  /\ LoopTurns /\ s # None /\ owner[f] # None
  /\ LET t == owner[f] IN
     \/ /\ output[t] # <<>>
        /\ Set(queue, s, queue[s] \o output[t]) /\ Set(output, t, <<>>)
     \/ /\ output[t] = <<>> /\ child[t] # "alive"
        /\ Eof \notin Range(queue[s])
        /\ Add(queue, s, Eof) /\ UNCHANGED output
  /\ UNCHANGED <<browser, socket, bridge, fd, pump, rest, owner, reader, input, size, sandbox>>

\* _pump_output: sends a chunk, waiting while the browser is slow; ends with the output,
\* and perhaps when the browser is gone.
PumpOutput(s) ==
  /\ LoopTurns /\ bridge[s] = "pump" /\ "out" \in pump[s] /\ queue[s] # <<>>
  /\ \/ /\ Head(queue[s]) # Eof /\ page[s] # "left" /\ Len(down[s]) < DownCap
        /\ Add(down, s, Head(queue[s])) /\ UNCHANGED pump
     \/ /\ Head(queue[s]) # Eof /\ page[s] = "left"
        /\ UNCHANGED <<down, pump>>
     \/ /\ Head(queue[s]) = Eof \/ page[s] = "left"
        /\ Set(pump, s, pump[s] \ {"out"}) /\ UNCHANGED down
  /\ Set(queue, s, Tail(queue[s]))
  /\ UNCHANGED <<browser, up, bridge, fd, rest, owner, reader, terminal, sandbox>>

Room(s) == InCap - Len(input[s])
Least(m, n) == IF m < n THEN m ELSE n

WriteOnce(s, keys) ==
  LET t == owner[fd[s]]
      n == Least(Len(keys), Room(t))
  IN /\ Set(input, t, input[t] \o SubSeq(keys, 1, n))
     /\ Set(rest, s, <<>>)

\* os.write, in _robust_write: as much as there is room for.  Nothing reads the terminal of
\* an oc that is gone; if oc put it back, with its line editing, it drops what it cannot
\* hold, and else it stays full.
Write(s, keys) ==
  LET t == owner[fd[s]]
      n == Least(Len(keys), Room(t))
  IN /\ Set(input, t, input[t] \o SubSeq(keys, 1, n))
     /\ \/ Set(rest, s, SubSeq(keys, n + 1, Len(keys)))
        \/ child[t] = "dead" /\ Set(rest, s, <<>>)

\* _pump_input: keystrokes, a resize, or the end.
PumpInput(s) ==
  LET frame == Head(up[s]) IN
  /\ LoopTurns /\ bridge[s] = "pump" /\ "in" \in pump[s] /\ up[s] # <<>>
  /\ \/ /\ "keys" \in DOMAIN frame
        /\ Write(s, frame.keys) /\ UNCHANGED <<size, pump>>
     \/ /\ "resize" \in DOMAIN frame
        /\ Set(size, owner[fd[s]], frame.resize) /\ UNCHANGED <<input, rest, pump>>
     \/ /\ "bye" \in DOMAIN frame
        /\ Set(pump, s, pump[s] \ {"in"}) /\ UNCHANGED <<input, size, rest>>
  /\ Set(up, s, Tail(up[s]))
  /\ UNCHANGED <<browser, down, bridge, fd, queue, owner, reader, output, sandbox>>

\* BlockingIOError, a millisecond's sleep, and again.
WriteOn(s) ==
  /\ rest[s] # <<>>
  /\ Room(owner[fd[s]]) > 0
  /\ Write(s, rest[s])
  /\ UNCHANGED <<browser, socket, bridge, fd, pump, queue, owner, reader, output, size, sandbox>>

TeardownLives(s) ==
  /\ LoopTurns /\ bridge[s] = "pump" /\ pump[s] # {"in", "out"}
  /\ Set(bridge, s, "stop") /\ Set(pump, s, {}) /\ Set(queue, s, <<>>)
  /\ Set(reader, fd[s], None)
  /\ UNCHANGED <<browser, socket, fd, rest, owner, terminal, sandbox>>

TeardownClosesFirst(s) ==
  /\ LoopTurns /\ bridge[s] = "pump" /\ pump[s] # {"in", "out"}
  /\ Set(bridge, s, "stop") /\ Set(pump, s, {}) /\ Set(queue, s, <<>>)
  /\ Set(owner, fd[s], None)
  /\ Set(child, s, "dead")
  /\ UNCHANGED <<browser, socket, fd, rest, reader, terminal, taken, written>>

\* A pump has ended: the other one is cancelled, the terminal not watched any more, and oc
\* killed.
Teardown(s) ==
  /\ LoopTurns /\ bridge[s] = "pump" /\ pump[s] # {"in", "out"}
  /\ Set(bridge, s, "stop") /\ Set(pump, s, {}) /\ Set(queue, s, <<>>)
  /\ Set(reader, fd[s], None)
  /\ Set(child, s, "dead")
  /\ UNCHANGED <<browser, socket, fd, rest, owner, terminal, taken, written>>

\* proc.wait is over.
Close(s) ==
  /\ LoopTurns /\ bridge[s] = "stop" /\ child[s] = "dead"
  /\ Set(child, s, "reaped") /\ Set(owner, fd[s], None)
  /\ Hangup(s)
  /\ UNCHANGED <<pump, queue, rest, reader, taken, written>>

-----------------------------------------------------------------------------
(* oc, and the program in the sandbox.                                       *)

UnchangedBySandbox == UNCHANGED <<browser, socket, console, size>>

Take(s) ==
  /\ child[s] = "alive" /\ input[s] # <<>>
  /\ Add(taken, s, Head(input[s])) /\ Set(input, s, Tail(input[s]))
  /\ UnchangedBySandbox /\ UNCHANGED <<output, child, written>>

Say(s) ==
  /\ child[s] = "alive" /\ Len(written[s]) < Outputs[s] /\ Len(output[s]) < OutCap
  /\ LET n == Len(written[s]) + 1 IN Add(output, s, n) /\ Add(written, s, n)
  /\ UnchangedBySandbox /\ UNCHANGED <<input, child, taken>>

\* The shell ends, or its pod does; a write that waits may be over, or wait for ever.
Exit(s) ==
  /\ child[s] = "alive"
  /\ Set(child, s, "dead")
  /\ UNCHANGED rest \/ (rest[s] # <<>> /\ Set(rest, s, <<>>))
  /\ UNCHANGED <<browser, socket, bridge, fd, pump, queue, owner, reader, terminal>>
  /\ UNCHANGED <<taken, written>>

Page(s) == \/ Opened(s) \/ Resize(s) \/ Show(s) \/ Leave(s)
           \/ \E n \in 1 .. Keys[s] : Type(s, n)
Bridge(s) == \/ Accept(s) \/ Refuse(s) \/ OpenPty(s) \/ SpawnFails(s) \/ Spawned(s)
             \/ Teardown(s) \/ Close(s)
Oc(s) == Take(s) \/ Say(s) \/ Exit(s)

ShellNext ==
  \/ \E s \in Shell : \/ Page(s) \/ Bridge(s) \/ Oc(s)
                      \/ PumpOutput(s) \/ PumpInput(s) \/ WriteOn(s)
  \/ \E f \in Fd : Readable(f)

ShellSpec == ShellInit /\ [][ShellNext]_shellVars

\* The loop runs what is ready; the browser shows what arrives; and oc reads what is typed,
\* which the code relies on and cannot enforce.
FairShells ==
  /\ ShellSpec
  /\ \A s \in Shell :
       /\ WF_shellVars(Bridge(s)) /\ WF_shellVars(PumpOutput(s)) /\ WF_shellVars(PumpInput(s))
       /\ WF_shellVars(WriteOn(s)) /\ WF_shellVars(Take(s)) /\ WF_shellVars(Show(s))
  /\ \A f \in Fd : WF_shellVars(Readable(f))

-----------------------------------------------------------------------------
(* Properties.                                                               *)

\* bridge.py:261 - a descriptor's number is used again once it is closed: nothing that is
\* left of a bridge reads from, or writes to, the terminal of another.
OwnTerminal ==
  /\ \A f \in Fd : reader[f] # None => owner[f] = reader[f]
  /\ \A s \in Shell : bridge[s] = "pump" \/ rest[s] # <<>> => owner[fd[s]] = s

\* bridge.py:70 - "a big paste never silently drops input": what was typed before the
\* socket was open, while a write waited, or in one paste reaches the program once and in
\* order; and as long as oc stands, nothing of it is lost on the way.
KeysInOrder == \A s \in Shell :
  LET got == taken[s] \o input[s] \o rest[s] IN
  /\ \A i \in DOMAIN taken[s] : taken[s][i] = i
  /\ child[s] = "alive" =>
       /\ \A i \in DOMAIN got : got[i] = i
       /\ \A n \in 1 .. typed[s] :
            \/ n <= Len(got)
            \/ \E i \in DOMAIN up[s] : "keys" \in DOMAIN up[s][i] /\ n \in Range(up[s][i].keys)
            \/ \E i \in DOMAIN outQueue[s] : n \in Range(outQueue[s][i])

\* bridge.py:183 - a program's last words: when the shell ends, and the browser is there,
\* the page shows all that the program wrote.
LastWords == \A s \in Shell :
  bridge[s] = "closed" /\ page[s] = "closed" => shown[s] = written[s]

\* bridge.py:21 - "PTY closed, subprocess reaped, ws closed": whichever way a bridge ends,
\* or fails to begin, it leaves nothing behind.
NothingLeft == \A s \in Shell : bridge[s] = "closed" =>
  /\ child[s] \in {"none", "reaped"}
  /\ \A f \in Fd : owner[f] # s /\ reader[f] # s

\* routes.py:134 - the terminal has the size of the window, though it was resized before
\* the socket was open.
SizeFits == \A s \in Shell :
  page[s] = "open" /\ bridge[s] = "pump" /\ ~(\E i \in DOMAIN up[s] : "resize" \in DOMAIN up[s][i])
    => size[s] = win[s]

\* The invariants of the bridges.
ShellInv == ShellTypeOK /\ OwnTerminal /\ NothingLeft /\ SizeFits

\* A write waits for room in the terminal of a program that is gone.
Stuck == \E s \in Shell : rest[s] # <<>> /\ child[s] = "dead"

\* bridge.py:20 - "it closes cleanly when either side disconnects": unless the loop is
\* stuck, for all pages, in a write that nobody will take.
ClosesUnlessStuck == \A s \in Shell :
  bridge[s] = "pump" /\ (page[s] = "left" \/ child[s] = "dead") ~> bridge[s] = "closed" \/ Stuck

\* The same, as it is said: a paste that fills the terminal of a program that ends refutes it.
Closes == \A s \in Shell :
  bridge[s] = "pump" /\ (page[s] = "left" \/ child[s] = "dead") ~> bridge[s] = "closed"
=============================================================================
