---------------------------- MODULE AgentRunProofs ----------------------------
(* An agent's run: first the runner in its sandbox (AgentBrain), for any       *)
(* budgets and any lifetime of an SVID, then the pump and the streams that     *)
(* carry its output to the console's pages (ConsoleTasks), for any tasks,      *)
(* pages and output.  The two share no variable.                               *)
EXTENDS AgentBrain, ConsoleTasks, SequenceTheorems, TLAPS

Rotations == IF rotated THEN 1 ELSE 0

\* The budgets pay for every attempt but the first, and the session ids that the SDK
\* has seen are those of earlier attempts.
BudgetInv ==
  /\ place \in {"start", "svid", "backoff"} => attempts = retries + Rotations
  /\ place = "query" => attempts = retries + Rotations + 1
  /\ place = "start" => why = "start"
  /\ place \in {"start", "svid"} /\ why = "start" => attempts = 0
  /\ \A n \in used : n < attempts

\* The signal, and an error that the gateway's policy is named in, are the attempt's own.
AttemptInv ==
  /\ place = "query" <=> stream # "off"
  /\ place = "start" => ~success
  /\ signal = "policy" => "policy" \in met
  /\ stream \in {"denied"} \union SaysPolicy => "policy" \in met

\* success says what was told last, until the runner is over.
ToldInv == place # "over" => (success <=> told = "success")

BrainInv == Inv /\ BudgetInv /\ AttemptInv /\ ToldInv

-----------------------------------------------------------------------------
(* The invariant is inductive.                                               *)

LEMMA Bounds ==
  RetryMax \in Nat /\ MaxTurns \in Nat /\ Window \in Nat /\ MaxAge \in Nat /\ Life \in Nat
BY BoundsAssumption

LEMMA InitInv == Init => BrainInv
<1> SUFFICES ASSUME Init PROVE BrainInv
  OBVIOUS
<1>1. TypeOK
  <2>1. /\ file \in [shape : Shape \union {None}, age : 0 .. MaxAge + 1]
        /\ config \in [require : BOOLEAN, subproc : BOOLEAN]
    BY Bounds DEF Init
  <2>2. /\ attempts \in 0 .. RetryMax + 2 /\ session \in 0 .. RetryMax + 1
        /\ retries \in 0 .. RetryMax /\ left \in 0 .. Window /\ life \in 0 .. Life
        /\ turns \in 0 .. MaxTurns
    BY Bounds DEF Init
  <2> QED
    BY <2>1, <2>2 DEF Init, TypeOK
<1>2. ExitTold /\ RightIdentity /\ BudgetInv
  BY DEF Init, ExitTold, RightIdentity, BudgetInv, Rotations
<1>3. AttemptInv /\ ToldInv
  BY DEF Init, AttemptInv, ToldInv, None, SaysPolicy
<1> QED
  BY <1>1, <1>2, <1>3 DEF BrainInv, Inv

LEMMA StartInv == ASSUME BrainInv, Start PROVE BrainInv'
<1> USE DEF BrainInv, Inv, Start, Fetching, outside, bearer, sdk, budgets, verdict
<1>1. TypeOK'
  <2>1. place' \in {"svid", "over"} /\ why' \in {"start", "rotation", "gateway"}
    BY DEF TypeOK
  <2>2. left' \in 0 .. Window
    BY Bounds DEF TypeOK
  <2>3. exit' \in BOOLEAN
    BY DEF TypeOK
  <2> QED
    BY <2>1, <2>2, <2>3 DEF TypeOK
<1>2. ExitTold'
  BY DEF ExitTold, AttemptInv, ToldInv
<1>3. RightIdentity' /\ BudgetInv' /\ AttemptInv' /\ ToldInv'
  BY DEF RightIdentity, BudgetInv, Rotations, AttemptInv, ToldInv
<1> QED
  BY <1>1, <1>2, <1>3

LEMMA AttemptStep == ASSUME BrainInv, Attempt PROVE BrainInv'
<1> USE DEF BrainInv, Inv, Attempt, DeadlineKept, outside, bearer, sdk, budgets, verdict
<1>1. poisoned' \in BOOLEAN
  BY DEF NoSvid, TypeOK
<1>2. TypeOK'
  BY <1>1 DEF TypeOK
<1> QED
  BY <1>2 DEF ExitTold, RightIdentity, BudgetInv, Rotations, AttemptInv, ToldInv

LEMMA GiveUpInv == ASSUME BrainInv, GiveUp PROVE BrainInv'
<1> USE DEF BrainInv, Inv, GiveUp, Over, outside, bearer, budgets
<1>1. TypeOK'
  <2>1. exit' \in BOOLEAN
    OBVIOUS
  <2>2. poisoned' \in BOOLEAN
    BY DEF NoSvid, TypeOK
  <2> QED
    BY <2>1, <2>2 DEF TypeOK
<1> QED
  BY <1>1 DEF ExitTold, RightIdentity, BudgetInv, Rotations, AttemptInv, ToldInv, SaysPolicy

LEMMA QueryInv == ASSUME BrainInv, Query PROVE BrainInv'
<1> USE DEF BrainInv, Inv, Query, outside, budgets
<1>1. session' = attempts
  BY DEF NewSession, BudgetInv
<1>2. /\ svid' \in Shape /\ life' \in 0 .. Life
      /\ config.require => svid' = "uuid"
  <2>1. CASE InFile /\ Got(file.shape, IF file.age < Life THEN Life - file.age ELSE 0)
    <3>1. file.shape \in Shape /\ file.age \in Nat /\ (config.require => file.shape = "uuid")
      BY <2>1 DEF InFile, Fresh, Accepts, TypeOK
    <3> QED
      BY <2>1, <3>1, Bounds DEF Got
  <2>2. CASE \E shape \in Shape : FromApi(shape) /\ Got(shape, Life)
    BY <2>2, Bounds DEF FromApi, Acceptable, Accepts, Got
  <2> QED
    BY <2>1, <2>2 DEF Sources
<1>3. attempts \in 0 .. RetryMax + 1
  BY Bounds DEF BudgetInv, Rotations, TypeOK
<1>4. TypeOK'
  <2>1. session' \in 0 .. RetryMax + 1 /\ used' \subseteq 0 .. RetryMax + 1
    BY <1>1, <1>3 DEF TypeOK
  <2>2. attempts' \in 0 .. RetryMax + 2 /\ turns' \in 0 .. MaxTurns
    BY <1>3, Bounds
  <2> QED
    BY <1>2, <2>1, <2>2 DEF TypeOK, SignalReset
<1>5. BudgetInv'
  <2>1. \A n \in used' : n < attempts'
    BY <1>1, <1>3, Bounds DEF BudgetInv, TypeOK
  <2> QED
    BY <2>1 DEF BudgetInv, Rotations
<1>6. ExitTold' /\ RightIdentity' /\ ToldInv'
  BY <1>2 DEF ExitTold, RightIdentity, ToldInv
<1>7. AttemptInv'
  BY DEF AttemptInv, SignalReset, None, SaysPolicy
<1> QED
  BY <1>4, <1>5, <1>6, <1>7

LEMMA AskModelInv == ASSUME BrainInv, AskModel PROVE BrainInv'
<1> USE DEF BrainInv, Inv, UnchangedBySdk, outside, bearer, budgets
<1>1. TypeOK'
  <2>1. turns' \in 0 .. MaxTurns
    BY Bounds DEF AskModel, TypeOK
  <2>2. met' \subseteq {"tool", "policy", "goal"}
    BY DEF AskModel, TypeOK
  <2>3. stream' \in {"tool", "final", "denied", "failed"}
    BY DEF AskModel
  <2> QED
    BY <2>1, <2>2, <2>3 DEF AskModel, TypeOK
<1>2. ExitTold' /\ RightIdentity' /\ BudgetInv' /\ ToldInv'
  BY DEF AskModel, ExitTold, RightIdentity, BudgetInv, Rotations, ToldInv
<1>3. AttemptInv'
  BY DEF AskModel, AttemptInv, SaysPolicy
<1> QED
  BY <1>1, <1>2, <1>3

LEMMA CallToolInv == ASSUME BrainInv, CallTool PROVE BrainInv'
<1> USE DEF BrainInv, Inv, UnchangedBySdk, outside, bearer, budgets
<1>1. TypeOK'
  <2>1. met' \subseteq {"tool", "policy", "goal"}
    BY DEF CallTool, TypeOK
  <2>2. stream' = "ask"
    BY DEF CallTool
  <2>3. UNCHANGED <<outside, place, why, left, poisoned, bearer, session, used, attempts,
                    turns, budgets, success, signal, told, exit>>
    BY DEF CallTool
  <2> QED
    BY <2>1, <2>2, <2>3 DEF TypeOK
<1>2. ExitTold' /\ RightIdentity' /\ BudgetInv' /\ ToldInv'
  BY DEF CallTool, ExitTold, RightIdentity, BudgetInv, Rotations, ToldInv
<1>3. AttemptInv'
  BY DEF CallTool, AttemptInv, SaysPolicy
<1> QED
  BY <1>1, <1>2, <1>3

LEMMA ResultInv == ASSUME BrainInv, Result PROVE BrainInv'
<1> USE DEF BrainInv, Inv, UnchangedBySdk, outside, bearer, budgets
<1>1. TypeOK'
  <2>1. success' \in BOOLEAN
    BY DEF Result
  <2>2. signal' \in {None, "policy", "other"} /\ told' \in {None, "success", "error"}
    BY DEF Result
  <2>3. met' \subseteq {"tool", "policy", "goal"}
    BY DEF Result, TypeOK
  <2> QED
    BY <2>1, <2>2, <2>3 DEF Result, TypeOK
<1>2. ExitTold' /\ RightIdentity' /\ BudgetInv'
  BY DEF Result, ExitTold, RightIdentity, BudgetInv, Rotations, AttemptInv
<1>3. ToldInv'
  BY DEF Result, ToldInv
<1>4. AttemptInv'
  BY DEF Result, AttemptInv, None, SaysPolicy
<1> QED
  BY <1>1, <1>2, <1>3, <1>4

LEMMA EndInv == ASSUME BrainInv, End PROVE BrainInv'
<1> USE DEF BrainInv, Inv, UnchangedBySdk, outside, bearer, budgets
<1>1. TypeOK'
  <2>1. stream' = "ended" \/ stream' \in Raised
    BY DEF End
  <2>2. UNCHANGED <<outside, place, why, left, poisoned, bearer, session, used, attempts,
                    turns, budgets, success, signal, told, exit>>
    BY DEF End
  <2>3. met' \subseteq {"tool", "policy", "goal"}
    BY DEF End, TypeOK
  <2> QED
    BY <2>1, <2>2, <2>3 DEF TypeOK
<1>2. ExitTold' /\ RightIdentity' /\ BudgetInv' /\ ToldInv'
  BY DEF End, ExitTold, RightIdentity, BudgetInv, Rotations, ToldInv
<1>3. AttemptInv'
  BY DEF End, AttemptInv, Raised, Says401, SaysPolicy
<1> QED
  BY <1>1, <1>2, <1>3

LEMMA EndedInv == ASSUME BrainInv, Ended PROVE BrainInv'
<1> USE DEF BrainInv, Inv, GatewayRetry, Over, outside, bearer
<1>1. TypeOK'
  <2>1. place' \in {"backoff", "over"} /\ stream' = "off"
    BY DEF Ended
  <2>2. retries' \in 0 .. RetryMax
    BY Bounds DEF Ended, TypeOK
  <2>3. told' \in {None, "success", "error"} /\ UNCHANGED <<why, left>>
    BY DEF Ended, TypeOK
  <2>4. exit' \in BOOLEAN
    BY DEF Ended, TypeOK
  <2> QED
    BY <2>1, <2>2, <2>3, <2>4 DEF Ended, TypeOK
<1>2. place = "query"
  BY DEF Ended, AttemptInv
<1>3. BudgetInv'
  BY <1>2, Bounds DEF Ended, BudgetInv, Rotations, TypeOK
<1>4. ExitTold' /\ RightIdentity' /\ ToldInv'
  BY <1>2 DEF Ended, ExitTold, RightIdentity, ToldInv
<1>5. AttemptInv'
  BY <1>2 DEF Ended, AttemptInv, SaysPolicy
<1> QED
  BY <1>1, <1>3, <1>4, <1>5

\* An exception has the SVID renewed, waits for the gateway, or ends the run.
LEMMA ExceptionInv == ASSUME BrainInv, Exception PROVE BrainInv'
<1> USE DEF BrainInv, Inv, outside, bearer
<1> DEFINE rotate == stream \in Says401 /\ ~rotated
           policy == stream \in SaysPolicy \/ signal = "policy"
<1>0. /\ place = "query"
      /\ UNCHANGED <<outside, poisoned, bearer, session, used, attempts, turns, met,
                     success, signal>>
  BY DEF Exception, Raised, Says401, SaysPolicy, AttemptInv
<1>1. CASE rotate /\ rotated' = TRUE /\ Fetching("rotation") /\ stream' = "off"
           /\ UNCHANGED <<retries, told, exit>>
  <2>1. TypeOK'
    <3>1. rotated' \in BOOLEAN
      BY <1>1
    <3>2. /\ left' = Window /\ place' = "svid" /\ why' = "rotation" /\ stream' = "off"
          /\ UNCHANGED <<retries, told, exit>>
      BY <1>1 DEF Fetching
    <3>3. left' \in 0 .. Window
      BY <3>2, Bounds
    <3> QED
      BY <1>0, <3>1, <3>2, <3>3 DEF TypeOK
  <2>2. BudgetInv'
    <3>1. Rotations = 0 /\ Rotations' = 1
      BY <1>1 DEF Rotations
    <3>2. attempts = retries + 1 /\ retries \in Nat
      BY <1>0, <3>1 DEF BudgetInv, TypeOK
    <3> QED
      BY <1>0, <1>1, <3>1, <3>2 DEF BudgetInv, Fetching
  <2>3. ExitTold' /\ RightIdentity' /\ ToldInv'
    BY <1>0, <1>1 DEF ExitTold, RightIdentity, ToldInv, Fetching
  <2>4. AttemptInv'
    BY <1>0, <1>1 DEF AttemptInv, SaysPolicy, Fetching
  <2> QED
    BY <2>1, <2>2, <2>3, <2>4
<1>2. CASE ~rotate /\ policy /\ GatewayRetry /\ UNCHANGED rotated
  <2>1. TypeOK'
    <3>1. GatewayRetry /\ UNCHANGED rotated
      BY <1>2
    <3>2. retries' \in 0 .. RetryMax
      BY <3>1, Bounds DEF TypeOK, GatewayRetry
    <3> QED
      BY <1>0, <3>1, <3>2 DEF TypeOK, GatewayRetry
  <2>2. BudgetInv'
    <3>1. Rotations' = Rotations /\ Rotations \in Nat
      BY <1>2 DEF Rotations
    <3>2. attempts = retries + Rotations + 1 /\ retries \in Nat
      BY <1>0 DEF BudgetInv, TypeOK
    <3>3. GatewayRetry
      BY <1>2
    <3> QED
      BY <1>0, <3>1, <3>2, <3>3 DEF BudgetInv, GatewayRetry
  <2>3. ExitTold' /\ RightIdentity' /\ ToldInv'
    BY <1>0, <1>2 DEF ExitTold, RightIdentity, ToldInv, GatewayRetry
  <2>4. AttemptInv'
    BY <1>0, <1>2 DEF AttemptInv, SaysPolicy, GatewayRetry
  <2> QED
    BY <2>1, <2>2, <2>3, <2>4
<1>3. CASE Over("error", FALSE) /\ UNCHANGED <<why, left, rotated, retries>>
  <2>1. TypeOK'
    <3>1. exit' \in BOOLEAN
      BY <1>3 DEF Over
    <3> QED
      BY <1>0, <1>3, <3>1 DEF TypeOK, Over
  <2>2. BudgetInv'
    BY <1>0, <1>3 DEF BudgetInv, Over
  <2>3. ExitTold' /\ RightIdentity' /\ ToldInv'
    BY <1>0, <1>3 DEF ExitTold, RightIdentity, ToldInv, Over
  <2>4. AttemptInv'
    BY <1>0, <1>3 DEF AttemptInv, SaysPolicy, Over
  <2> QED
    BY <2>1, <2>2, <2>3, <2>4
<1> QED
  BY <1>1, <1>2, <1>3 DEF Exception

LEMMA BackoffInv == ASSUME BrainInv, Backoff PROVE BrainInv'
<1> USE DEF BrainInv, Inv, Backoff, Fetching, outside, bearer, sdk, budgets, verdict
<1>1. TypeOK'
  BY Bounds DEF TypeOK
<1>2. ExitTold' /\ RightIdentity' /\ BudgetInv' /\ AttemptInv' /\ ToldInv'
  BY DEF ExitTold, RightIdentity, BudgetInv, Rotations, AttemptInv, ToldInv
<1> QED
  BY <1>1, <1>2

\* What happens around the runner changes neither its place nor its attempt.
LEMMA OutsideInv ==
  ASSUME BrainInv, Settle \/ Tick \/ \E shape \in Shape : WriteFile(shape) \/ Register(shape)
  PROVE  BrainInv'
<1> USE DEF BrainInv, Inv, outside, bearer, sdk, budgets, verdict
<1>1. TypeOK'
  <2>1. ASSUME NEW shape \in Shape, Register(shape) PROVE TypeOK'
    BY <2>1 DEF Register, TypeOK
  <2>4. CASE Settle
    BY <2>4 DEF Settle, TypeOK
  <2>2. CASE Tick
    <3>1. left' \in 0 .. Window /\ life' \in 0 .. Life
      BY <2>2, Bounds DEF Tick, Down, TypeOK
    <3>2. file' \in [shape : Shape \union {None}, age : 0 .. MaxAge + 1]
      BY <2>2, Bounds DEF Tick, Fresh, TypeOK
    <3> QED
      BY <2>2, <3>1, <3>2 DEF Tick, TypeOK
  <2>3. ASSUME NEW shape \in Shape, WriteFile(shape) PROVE TypeOK'
    <3>1. file' \in [shape : Shape \union {None}, age : 0 .. MaxAge + 1]
      BY <2>3, Bounds DEF WriteFile
    <3> QED
      BY <2>3, <3>1 DEF WriteFile, TypeOK
  <2> QED
    BY <2>1, <2>2, <2>3, <2>4
<1>2. UNCHANGED <<config, place, why, svid, sdk, budgets, verdict>>
  BY DEF Register, Settle, Tick, WriteFile
<1>3. ExitTold' /\ RightIdentity' /\ BudgetInv' /\ AttemptInv' /\ ToldInv'
  BY <1>2 DEF ExitTold, RightIdentity, BudgetInv, Rotations, AttemptInv, ToldInv
<1> QED
  BY <1>1, <1>3

LEMMA NextInv == BrainInv /\ [Next]_vars => BrainInv'
<1> SUFFICES ASSUME BrainInv, [Next]_vars PROVE BrainInv'
  OBVIOUS
<1>1. CASE UNCHANGED vars
  <2>1. TypeOK'
    BY <1>1 DEF vars, outside, bearer, sdk, budgets, verdict, BrainInv, Inv, TypeOK
  <2> QED
    BY <1>1, <2>1 DEF vars, outside, bearer, sdk, budgets, verdict, BrainInv, Inv, ExitTold,
                      RightIdentity, BudgetInv, Rotations, AttemptInv, ToldInv
<1>2. CASE Fetch
  BY <1>2, StartInv, AttemptStep, GiveUpInv, QueryInv DEF Fetch
<1>3. CASE Sdk
  BY <1>3, AskModelInv, CallToolInv, ResultInv, EndInv DEF Sdk
<1>4. CASE Runner
  BY <1>4, EndedInv, ExceptionInv, BackoffInv DEF Runner
<1> QED
  BY <1>1, <1>2, <1>3, <1>4, OutsideInv DEF Next

\* The inductive invariant of the runner: what its budgets have paid for, where the error
\* signal of an attempt comes from, and what success says of the transcript.
THEOREM BrainInvCorrect == Spec => []BrainInv
BY InitInv, NextInv, PTL DEF Spec

\* agent_runner.py:731 and svid_bearer.py:205: the runner's state is well typed, its exit
\* code says what its transcript says, and it presents no SVID of the wrong shape.
THEOREM BrainCorrect == Spec => []Inv
<1>1. BrainInv => Inv
  BY DEF BrainInv
<1> QED
  BY <1>1, BrainInvCorrect, PTL

-----------------------------------------------------------------------------
(* What a step may do.                                                       *)

LEMMA RetryStep ==
  ASSUME BrainInv, [Next]_vars
  PROVE  /\ retries' > retries => "policy" \in met
         /\ attempts' > attempts => session' \notin used
<1> USE DEF BrainInv, Inv
<1>0. attempts \in Nat /\ retries \in Nat
  BY DEF TypeOK
<1>1. CASE Query
  BY <1>0, <1>1 DEF Query, NewSession, BudgetInv, budgets
<1>2. CASE Ended
  BY <1>0, <1>2 DEF Ended, GatewayRetry, AttemptInv
<1>3. CASE Exception
  <2>1. CASE stream \in SaysPolicy \/ signal = "policy"
    <3>1. "policy" \in met
      BY <2>1 DEF AttemptInv
    <3> QED
      BY <1>0, <1>3, <3>1 DEF Exception
  <2>2. CASE UNCHANGED <<retries, attempts>>
    BY <1>0, <2>2
  <2> QED
    BY <1>3, <2>1, <2>2 DEF Exception
<1>4. CASE ~(Query \/ Ended \/ Exception)
  <2>1. UNCHANGED <<retries, attempts>>
    BY <1>4 DEF Next, Fetch, Sdk, Runner, Start, Attempt, GiveUp, AskModel, CallTool, Result, End,
                UnchangedBySdk, Backoff, Register, Settle, Tick, WriteFile, vars, sdk, budgets
  <2> QED
    BY <1>0, <2>1
<1> QED
  BY <1>1, <1>2, <1>3, <1>4

\* agent_runner.py:539, 557, 603: the gateway's budget is spent only on what the attempt's
\* own stream has told, and every attempt is a session of its own.
THEOREM RetriesForCauseCorrect == Spec => RetriesForCause
BY BrainInvCorrect, RetryStep, PTL DEF Spec, RetriesForCause

-----------------------------------------------------------------------------
(* The console's transcripts.                                                *)

Has(s, n) == \E i \in 1 .. Len(s) : s[i] = n

\* What the pump has of an agent's output: w is what was written, k how much of it was
\* taken, b what nobody has read yet, and l what is stored.
Waiting(w, k, b) == \A c \in Channel :
  /\ \A i \in 1 .. Len(b[c]) : b[c][i] \in 1 .. k /\ w[b[c][i]] = c
  /\ \A i, j \in 1 .. Len(b[c]) : i < j => b[c][i] < b[c][j]
Kept(w, k, b, l) == \A n \in 1 .. k : Has(l, n) \/ Has(b[w[n]], n)
Before(w, k, b, l) == \A i \in 1 .. Len(l) : l[i] # ErrorLine =>
  l[i] \in 1 .. k /\ \A j \in 1 .. Len(b[w[l[i]]]) : l[i] < b[w[l[i]]][j]
InOrder(w, l) == \A i, j \in 1 .. Len(l) :
  i < j /\ ErrorLine \notin {l[i], l[j]} /\ w[l[i]] = w[l[j]] => l[i] < l[j]

Pipe(w, k, b, l) ==
  k <= Len(w) /\ Waiting(w, k, b) /\ Kept(w, k, b, l) /\ Before(w, k, b, l) /\ InOrder(w, l)

Read(t) == \A c \in Channel : buffer[t][c] = << >>

\* Where the pump is, what it has yet to read.
PumpInv(t) ==
  /\ link[t] = "closed" => taken[t] = Len(wrote[t])
  /\ thread[t] = "loop" /\ link[t] # "open" => Read(t)
  /\ thread[t] = "err" => buffer[t]["out"] = << >>
  /\ thread[t] = "read err" /\ link[t] # "open" => buffer[t]["out"] = << >>
  /\ thread[t] = "end" \/ t \in done =>
       Has(lines[t], ErrorLine) \/ (Read(t) /\ link[t] # "open")
  /\ t \in done => thread[t] = "over"

\* The transcript s ends with the first n of the lines l.
Shows(s, n, l) == /\ n <= Len(s) /\ n <= Len(l)
                  /\ \A k \in 1 .. n : s[(Len(s) - n) + k] = l[k]

\* The transcript s begins the lines l.
Begins(s, l) == Len(s) <= Len(l) /\ \A k \in 1 .. Len(s) : s[k] = l[k]

\* What a page has of its task's lines, at each place of its stream.
PageInv(p) ==
  /\ sse[p] \in Streaming \union {"done"} => Shows(shown[p], idx[p], lines[shows[p]])
  /\ sse[p] \in Streaming /\ p \in seen =>
       shows[p] \in done /\ upto[p] = Len(lines[shows[p]])
  /\ sse[p] = "done" => shows[p] \in done /\ idx[p] = Len(lines[shows[p]])

TaskPageInv(p) ==
  /\ Begins(shown[p], lines[shows[p]])
  /\ sse[p] # "lost"
  /\ sse[p] = "off" => shown[p] = << >>
  /\ sse[p] \in Streaming => Len(shown[p]) = idx[p]

ConsoleInv ==
  /\ TasksTypeOK
  /\ \A t \in Task : Pipe(wrote[t], taken[t], buffer[t], lines[t]) /\ PumpInv(t)
  /\ \A p \in Page : PageInv(p)
  /\ \A p \in TaskPage : TaskPageInv(p)

-----------------------------------------------------------------------------
(* Sequences.                                                                *)

LEMMA PrefixByIndex ==
  ASSUME NEW S, NEW s \in Seq(S), NEW l \in Seq(S), Begins(s, l)
  PROVE  IsPrefix(s, l)
<1>1. SubSeq(l, 1, Len(s)) = SubSeq(s, 1, Len(s))
  BY DEF Begins
<1> QED
  BY <1>1 DEF IsPrefix, Begins

LEMMA SuffixByIndex ==
  ASSUME NEW S, NEW s \in Seq(S), NEW l \in Seq(S), Shows(s, Len(l), l)
  PROVE  IsSuffix(l, s)
<1> DEFINE rs == Reverse(s)
           rl == Reverse(l)
<1>1. rs \in Seq(S) /\ Len(rs) = Len(s) /\ \A i \in 1 .. Len(s) : rs[i] = s[(Len(s) - i) + 1]
  BY DEF Reverse
<1>2. rl \in Seq(S) /\ Len(rl) = Len(l) /\ \A i \in 1 .. Len(l) : rl[i] = l[(Len(l) - i) + 1]
  BY DEF Reverse
<1>3. \A i \in 1 .. Len(l) : rs[i] = rl[i]
  <2> SUFFICES ASSUME NEW i \in 1 .. Len(l) PROVE rs[i] = rl[i]
    OBVIOUS
  <2> DEFINE k == (Len(l) - i) + 1
  <2>1. k \in 1 .. Len(l) /\ (Len(s) - Len(l)) + k = (Len(s) - i) + 1
    BY DEF Shows
  <2>2. s[(Len(s) - Len(l)) + k] = l[k]
    BY <2>1 DEF Shows
  <2>3. rl[i] = l[k]
    BY <1>2
  <2>4. Len(l) <= Len(s)
    BY DEF Shows
  <2>5. i \in 1 .. Len(s)
    BY <2>4
  <2>6. rs[i] = s[(Len(s) - i) + 1]
    BY <1>1, <2>5
  <2> HIDE DEF k, rs, rl
  <2> QED
    BY <2>1, <2>2, <2>3, <2>6
<1>4. Begins(rl, rs)
  BY <1>1, <1>2, <1>3 DEF Begins, Shows
<1> HIDE DEF rs, rl
<1>5. IsPrefix(rl, rs)
  BY <1>1, <1>2, <1>4, PrefixByIndex
<1> QED
  BY <1>5 DEF IsSuffix, rs, rl

\* A transcript that ends with the first lines goes on to when it gets the next one.
LEMMA ShowsNext ==
  ASSUME NEW S, NEW s \in Seq(S), NEW l \in Seq(S), NEW n \in Nat, n < Len(l), Shows(s, n, l)
  PROVE  Shows(Append(s, l[n + 1]), n + 1, l)
<1> DEFINE r == Append(s, l[n + 1])
<1>0. Len(s) \in Nat /\ Len(l) \in Nat
  OBVIOUS
<1>1. /\ Len(r) = Len(s) + 1
      /\ \A i \in 1 .. Len(s) : r[i] = s[i]
      /\ r[Len(s) + 1] = l[n + 1]
  BY AppendProperties, ElementOfSeq
<1> HIDE DEF r
<1>2. \A k \in 1 .. n + 1 : r[(Len(r) - (n + 1)) + k] = l[k]
  <2> SUFFICES ASSUME NEW k \in 1 .. n + 1 PROVE r[(Len(r) - (n + 1)) + k] = l[k]
    OBVIOUS
  <2>1. (Len(r) - (n + 1)) + k = (Len(s) - n) + k
    BY <1>0, <1>1
  <2>2. CASE k = n + 1
    BY <1>0, <1>1, <2>1, <2>2
  <2>3. CASE k \in 1 .. n
    <3>1. (Len(s) - n) + k \in 1 .. Len(s) /\ s[(Len(s) - n) + k] = l[k]
      BY <1>0, <2>3 DEF Shows
    <3> QED
      BY <1>1, <2>1, <3>1
  <2> QED
    BY <2>2, <2>3
<1>3. n + 1 <= Len(r) /\ n + 1 <= Len(l)
  BY <1>0, <1>1 DEF Shows
<1> QED
  BY <1>2, <1>3 DEF Shows, r

\* What a transcript shows it shows of a longer list of lines, too.
LEMMA ShowsLonger ==
  ASSUME NEW S, NEW s \in Seq(S), NEW l \in Seq(S), NEW x \in S, NEW n \in Nat
  PROVE  /\ Shows(s, n, l) => Shows(s, n, Append(l, x))
         /\ Begins(s, l) => Begins(s, Append(l, x))
BY AppendProperties DEF Shows, Begins

-----------------------------------------------------------------------------
(* The pipe.                                                                 *)

Line == 0 .. MaxChunks
Buffers == [Channel -> Seq(1 .. MaxChunks)]

LEMMA BufferTypes ==
  ASSUME NEW b \in Buffers
  PROVE  \A c \in Channel : Len(b[c]) \in Nat /\ \A i \in 1 .. Len(b[c]) : b[c][i] \in Nat
<1> SUFFICES ASSUME NEW c \in Channel
             PROVE  Len(b[c]) \in Nat /\ \A i \in 1 .. Len(b[c]) : b[c][i] \in Nat
  OBVIOUS
<1>1. b[c] \in Seq(1 .. MaxChunks)
  BY DEF Buffers
<1> QED
  BY <1>1, TaskBoundsAssumption

LEMMA LineTypes ==
  ASSUME NEW l \in Seq(Line)
  PROVE  Len(l) \in Nat /\ \A i \in 1 .. Len(l) : l[i] \in Nat
BY TaskBoundsAssumption DEF Line

\* The agent writes.
LEMMA PipeWritten ==
  ASSUME NEW w \in Seq(Channel), NEW k \in Nat, NEW b, NEW l,
         NEW c \in Channel, Pipe(w, k, b, l)
  PROVE  Pipe(Append(w, c), k, b, l)
<1> DEFINE v == Append(w, c)
<1>1. Len(v) = Len(w) + 1 /\ \A i \in 1 .. Len(w) : v[i] = w[i]
  BY AppendProperties
<1> HIDE DEF v
<1>2. k <= Len(v) /\ \A n \in 1 .. k : v[n] = w[n]
  BY <1>1 DEF Pipe
<1>3. Waiting(v, k, b)
  BY <1>2 DEF Pipe, Waiting
<1>4. Kept(v, k, b, l)
  BY <1>2 DEF Pipe, Kept
<1>5. Before(v, k, b, l)
  BY <1>2 DEF Pipe, Before
<1>6. InOrder(v, l)
  <2>1. \A i \in 1 .. Len(l) : l[i] # ErrorLine => v[l[i]] = w[l[i]]
    BY <1>2 DEF Pipe, Before
  <2> QED
    BY <2>1 DEF Pipe, InOrder
<1> QED
  BY <1>2, <1>3, <1>4, <1>5, <1>6 DEF Pipe, v

\* The client library takes a frame.
LEMMA PipeTaken ==
  ASSUME NEW w \in Seq(Channel), NEW k \in Nat, NEW b \in Buffers, NEW l \in Seq(Line),
         k < Len(w), Len(w) <= MaxChunks, Pipe(w, k, b, l)
  PROVE  /\ Pipe(w, k + 1, [b EXCEPT ![w[k + 1]] = Append(@, k + 1)], l)
         /\ [b EXCEPT ![w[k + 1]] = Append(@, k + 1)] \in Buffers
<1> DEFINE c == w[k + 1]
           B == [b EXCEPT ![c] = Append(@, k + 1)]
<1>0. c \in Channel /\ k + 1 \in 1 .. MaxChunks /\ k + 1 <= Len(w)
  BY TaskBoundsAssumption
<1>w. \A n \in 1 .. k : w[n] \in Channel
  BY TaskBoundsAssumption
<1> HIDE DEF c
<1>1. /\ B[c] = Append(b[c], k + 1)
      /\ \A d \in Channel \ {c} : B[d] = b[d]
  BY <1>0 DEF Buffers
<1>2. /\ B[c] \in Seq(1 .. MaxChunks) /\ Len(B[c]) = Len(b[c]) + 1
      /\ \A i \in 1 .. Len(b[c]) : B[c][i] = b[c][i]
      /\ B[c][Len(b[c]) + 1] = k + 1
  BY <1>0, <1>1, AppendProperties DEF Buffers
<1>3. B \in Buffers
  BY <1>0, <1>1, <1>2 DEF Buffers
<1> HIDE DEF B
<1>b. \A d \in Channel : Len(b[d]) \in Nat /\ \A i \in 1 .. Len(b[d]) : b[d][i] \in Nat
  BY BufferTypes
<1>4. Waiting(w, k + 1, B)
  <2> SUFFICES ASSUME NEW d \in Channel
               PROVE  /\ \A i \in 1 .. Len(B[d]) : B[d][i] \in 1 .. k + 1 /\ w[B[d][i]] = d
                      /\ \A i, j \in 1 .. Len(B[d]) : i < j => B[d][i] < B[d][j]
    BY DEF Waiting
  <2>0. /\ \A i \in 1 .. Len(b[d]) : b[d][i] \in 1 .. k /\ w[b[d][i]] = d
        /\ \A i, j \in 1 .. Len(b[d]) : i < j => b[d][i] < b[d][j]
    BY DEF Pipe, Waiting
  <2>1. CASE d = c
    <3>1. \A i \in 1 .. Len(B[d]) : i \in 1 .. Len(b[d]) \/ i = Len(b[d]) + 1
      BY <1>2, <1>b, <2>1
    <3>2. ASSUME NEW i \in 1 .. Len(B[d])
          PROVE  B[d][i] \in 1 .. k + 1 /\ w[B[d][i]] = d
      <4>1. CASE i \in 1 .. Len(b[d])
        <5>1. B[d][i] = b[d][i]
          BY <1>2, <2>1, <4>1
        <5>2. b[d][i] \in 1 .. k /\ w[b[d][i]] = d
          BY <2>0, <4>1
        <5>3. b[d][i] \in 1 .. k + 1
          BY <5>2
        <5> QED
          BY <5>1, <5>2, <5>3
      <4>2. CASE i = Len(b[d]) + 1
        <5>1. B[d][i] = k + 1 /\ w[k + 1] = d
          BY <1>2, <2>1, <4>2 DEF c
        <5>2. k + 1 \in 1 .. k + 1
          OBVIOUS
        <5> QED
          BY <5>1, <5>2
      <4> QED
        BY <3>1, <4>1, <4>2
    <3>3. \A i, j \in 1 .. Len(B[d]) : i < j => i \in 1 .. Len(b[d])
      BY <1>2, <1>b, <2>1
    <3>4. \A i, j \in 1 .. Len(B[d]) : i < j => B[d][i] < B[d][j]
      BY <1>2, <1>b, <2>0, <2>1, <3>1, <3>3
    <3> QED
      BY <3>2, <3>4
  <2>2. CASE d # c
    BY <1>1, <2>0, <2>2
  <2> QED
    BY <2>1, <2>2
<1>5. Kept(w, k + 1, B, l)
  <2> SUFFICES ASSUME NEW n \in 1 .. k + 1, ~Has(l, n) PROVE Has(B[w[n]], n)
    BY DEF Kept
  <2>1. CASE n = k + 1
    <3>1. Len(b[c]) + 1 \in 1 .. Len(B[c])
      BY <1>0, <1>2, <1>b
    <3> QED
      BY <1>2, <2>1, <3>1 DEF Has, c
  <2>2. CASE n \in 1 .. k
    <3>1. w[n] \in Channel
      BY <1>w, <2>2
    <3>2. PICK i \in 1 .. Len(b[w[n]]) : b[w[n]][i] = n
      BY <2>2 DEF Pipe, Kept, Has
    <3>3. CASE w[n] = c
      <4>1. i \in 1 .. Len(b[c]) /\ b[c][i] = n
        BY <3>2, <3>3
      <4>2. Len(b[c]) \in Nat /\ Len(B[c]) = Len(b[c]) + 1
        BY <1>0, <1>2, <1>b
      <4>3. i \in 1 .. Len(B[c])
        BY <4>1, <4>2
      <4>4. B[c][i] = n
        BY <1>2, <4>1
      <4> QED
        BY <3>3, <4>3, <4>4 DEF Has
    <3>4. CASE w[n] # c
      <4>1. B[w[n]] = b[w[n]]
        BY <1>1, <3>1, <3>4
      <4> QED
        BY <3>2, <4>1 DEF Has
    <3> QED
      BY <3>3, <3>4
  <2> QED
    BY <2>1, <2>2
<1>6. Before(w, k + 1, B, l)
  <2> SUFFICES ASSUME NEW i \in 1 .. Len(l), l[i] # ErrorLine
               PROVE  l[i] \in 1 .. k + 1 /\ \A j \in 1 .. Len(B[w[l[i]]]) : l[i] < B[w[l[i]]][j]
    BY DEF Before
  <2>1. l[i] \in 1 .. k /\ \A j \in 1 .. Len(b[w[l[i]]]) : l[i] < b[w[l[i]]][j]
    BY DEF Pipe, Before
  <2>2. CASE w[l[i]] = c
    <3>1. \A j \in 1 .. Len(B[c]) : j \in 1 .. Len(b[c]) \/ j = Len(b[c]) + 1
      BY <1>0, <1>2, <1>b
    <3>2. \A j \in 1 .. Len(b[c]) : l[i] < B[c][j]
      BY <1>2, <2>1, <2>2
    <3>3. l[i] < k + 1 /\ l[i] \in 1 .. k + 1
      BY <2>1
    <3> QED
      BY <1>2, <2>2, <3>1, <3>2, <3>3
  <2>3. CASE w[l[i]] # c
    BY <1>1, <1>w, <2>1, <2>3
  <2> QED
    BY <2>2, <2>3
<1>7. Pipe(w, k + 1, B, l)
  BY <1>0, <1>4, <1>5, <1>6 DEF Pipe
<1> QED
  BY <1>3, <1>7 DEF B, c

\* The pump stores the first of what it read.
LEMMA PipeStored ==
  ASSUME NEW w \in Seq(Channel), NEW k \in Nat, NEW b \in Buffers, NEW l \in Seq(Line),
         NEW c \in Channel, b[c] # << >>, Pipe(w, k, b, l)
  PROVE  /\ Pipe(w, k, [b EXCEPT ![c] = Tail(@)], Append(l, Head(b[c])))
         /\ [b EXCEPT ![c] = Tail(@)] \in Buffers /\ Head(b[c]) \in 1 .. MaxChunks
<1> DEFINE h == Head(b[c])
           B == [b EXCEPT ![c] = Tail(@)]
           L == Append(l, h)
<1>w. \A n \in 1 .. k : w[n] \in Channel
  BY DEF Pipe
<1>1. /\ B[c] = Tail(b[c])
      /\ \A d \in Channel \ {c} : B[d] = b[d]
  BY DEF Buffers
<1>0. b[c] \in Seq(1 .. MaxChunks)
  BY DEF Buffers
<1>2. /\ Tail(b[c]) \in Seq(1 .. MaxChunks) /\ Len(b[c]) \in Nat \ {0}
      /\ Len(Tail(b[c])) = Len(b[c]) - 1
      /\ \A i \in 1 .. Len(Tail(b[c])) : Tail(b[c])[i] = b[c][i + 1]
      /\ h \in 1 .. MaxChunks
  BY <1>0, HeadTailProperties, EmptySeq
<1>3. h = b[c][1]
  BY <1>0
<1>4. B \in Buffers
  BY <1>1, <1>2 DEF Buffers
<1>5. /\ Len(L) = Len(l) + 1
      /\ \A i \in 1 .. Len(l) : L[i] = l[i]
      /\ L[Len(l) + 1] = h
  BY <1>2, AppendProperties DEF Line
<1> HIDE DEF B, L, h
<1>b. \A d \in Channel : Len(b[d]) \in Nat /\ \A i \in 1 .. Len(b[d]) : b[d][i] \in Nat
  BY BufferTypes
<1>l. Len(l) \in Nat /\ \A i \in 1 .. Len(l) : l[i] \in Nat
  BY LineTypes
<1>s. \A i \in 1 .. Len(B[c]) : i + 1 \in 1 .. Len(b[c]) /\ B[c][i] = b[c][i + 1]
  BY <1>1, <1>2
<1>h. h \in 1 .. k /\ w[h] = c /\ \A i \in 1 .. Len(B[c]) : h < B[c][i]
  <2>1. 1 \in 1 .. Len(b[c])
    BY <1>2
  <2>2. b[c][1] \in 1 .. k /\ w[b[c][1]] = c
    BY <2>1 DEF Pipe, Waiting
  <2>3. \A i \in 1 .. Len(B[c]) : 1 < i + 1
    OBVIOUS
  <2>4. \A i \in 1 .. Len(B[c]) : b[c][1] < b[c][i + 1]
    BY <1>s, <2>1, <2>3 DEF Pipe, Waiting
  <2> QED
    BY <1>3, <1>s, <2>2, <2>4
<1>6. Waiting(w, k, B)
  <2> SUFFICES ASSUME NEW d \in Channel
               PROVE  /\ \A i \in 1 .. Len(B[d]) : B[d][i] \in 1 .. k /\ w[B[d][i]] = d
                      /\ \A i, j \in 1 .. Len(B[d]) : i < j => B[d][i] < B[d][j]
    BY DEF Waiting
  <2>0. /\ \A i \in 1 .. Len(b[d]) : b[d][i] \in 1 .. k /\ w[b[d][i]] = d
        /\ \A i, j \in 1 .. Len(b[d]) : i < j => b[d][i] < b[d][j]
    BY DEF Pipe, Waiting
  <2>1. CASE d = c
    <3>1. \A i, j \in 1 .. Len(B[d]) : i < j => i + 1 < j + 1
      OBVIOUS
    <3> QED
      BY <1>s, <2>0, <2>1, <3>1
  <2>2. CASE d # c
    BY <1>1, <2>0, <2>2
  <2> QED
    BY <2>1, <2>2
<1>r. \A i \in 1 .. Len(L) : i \in 1 .. Len(l) \/ i = Len(l) + 1
  BY <1>5, <1>l
<1>7. Kept(w, k, B, L)
  <2> SUFFICES ASSUME NEW n \in 1 .. k PROVE Has(L, n) \/ Has(B[w[n]], n)
    BY DEF Kept
  <2>1. CASE Has(l, n)
    <3>1. PICK i \in 1 .. Len(l) : l[i] = n
      BY <2>1 DEF Has
    <3>2. i \in 1 .. Len(L) /\ L[i] = n
      BY <1>5, <1>l, <3>1
    <3> QED
      BY <3>2 DEF Has
  <2>2. CASE Has(b[w[n]], n)
    <3>1. PICK i \in 1 .. Len(b[w[n]]) : b[w[n]][i] = n
      BY <2>2 DEF Has
    <3>2. CASE w[n] = c /\ i = 1
      <4>1. Len(l) + 1 \in 1 .. Len(L) /\ L[Len(l) + 1] = n
        BY <1>3, <1>5, <1>l, <3>1, <3>2
      <4> QED
        BY <4>1 DEF Has
    <3>3. CASE w[n] = c /\ i # 1
      <4>1. i - 1 \in 1 .. Len(B[c]) /\ (i - 1) + 1 = i
        BY <1>1, <1>2, <3>1, <3>3
      <4>2. B[c][i - 1] = n
        BY <1>s, <3>1, <3>3, <4>1
      <4> QED
        BY <3>3, <4>1, <4>2 DEF Has
    <3>4. CASE w[n] # c
      BY <1>1, <1>w, <2>2, <3>4
    <3> QED
      BY <3>2, <3>3, <3>4
  <2> QED
    BY <2>1, <2>2 DEF Pipe, Kept
<1>8. Before(w, k, B, L)
  <2> SUFFICES ASSUME NEW i \in 1 .. Len(L), L[i] # ErrorLine
               PROVE  L[i] \in 1 .. k /\ \A j \in 1 .. Len(B[w[L[i]]]) : L[i] < B[w[L[i]]][j]
    BY DEF Before
  <2>1. CASE i = Len(l) + 1
    BY <1>5, <1>h, <2>1
  <2>2. CASE i \in 1 .. Len(l)
    <3>1. /\ L[i] = l[i] /\ l[i] \in 1 .. k
          /\ \A j \in 1 .. Len(b[w[l[i]]]) : l[i] < b[w[l[i]]][j]
      BY <1>5, <2>2 DEF Pipe, Before
    <3>2. CASE w[l[i]] = c
      BY <1>s, <3>1, <3>2
    <3>3. CASE w[l[i]] # c
      BY <1>1, <1>w, <3>1, <3>3
    <3> QED
      BY <3>1, <3>2, <3>3
  <2> QED
    BY <1>r, <2>1, <2>2
<1>9. InOrder(w, L)
  <2> SUFFICES ASSUME NEW i \in 1 .. Len(L), NEW j \in 1 .. Len(L), i < j,
                      ErrorLine \notin {L[i], L[j]}, w[L[i]] = w[L[j]]
               PROVE  L[i] < L[j]
    BY DEF InOrder
  <2>1. i \in 1 .. Len(l) /\ L[i] = l[i]
    BY <1>5, <1>l
  <2>2. CASE j = Len(l) + 1
    <3>1. L[j] = h /\ w[l[i]] = c /\ 1 \in 1 .. Len(b[c])
      BY <1>2, <1>5, <1>h, <2>1, <2>2
    <3>2. l[i] < b[c][1]
      BY <2>1, <3>1 DEF Pipe, Before
    <3> QED
      BY <1>3, <2>1, <3>1, <3>2
  <2>3. CASE j \in 1 .. Len(l)
    BY <1>5, <2>1, <2>3 DEF Pipe, InOrder
  <2> QED
    BY <1>r, <2>2, <2>3
<1>10. Pipe(w, k, B, L)
  BY <1>6, <1>7, <1>8, <1>9 DEF Pipe
<1> QED
  BY <1>2, <1>4, <1>10 DEF B, L, h

\* The pump stores the error line.
LEMMA PipeReported ==
  ASSUME NEW w, NEW k, NEW b, NEW l \in Seq(Line), Pipe(w, k, b, l)
  PROVE  Pipe(w, k, b, Append(l, ErrorLine)) /\ Has(Append(l, ErrorLine), ErrorLine)
<1> DEFINE L == Append(l, ErrorLine)
<1>1. /\ Len(L) = Len(l) + 1
      /\ \A i \in 1 .. Len(l) : L[i] = l[i]
      /\ L[Len(l) + 1] = ErrorLine
  BY TaskBoundsAssumption, AppendProperties DEF Line, ErrorLine
<1> HIDE DEF L
<1>2. /\ Len(l) \in Nat
      /\ \A i \in 1 .. Len(L) : L[i] # ErrorLine => i \in 1 .. Len(l) /\ L[i] = l[i]
  BY <1>1
<1>3. Has(L, ErrorLine) /\ \A n : Has(l, n) => Has(L, n)
  BY <1>1, <1>2 DEF Has
<1>4. Kept(w, k, b, L)
  BY <1>3 DEF Pipe, Kept
<1>5. Before(w, k, b, L)
  BY <1>2 DEF Pipe, Before
<1>6. InOrder(w, L)
  BY <1>2 DEF Pipe, InOrder
<1>7. Pipe(w, k, b, L)
  BY <1>4, <1>5, <1>6 DEF Pipe
<1> QED
  BY <1>3, <1>7 DEF L


-----------------------------------------------------------------------------
(* The invariant is inductive.                                               *)

Threads == {"none", "connect", "loop", "out", "read out", "err", "read err", "error", "end", "over"}

TaskTypes ==
  /\ wrote \in [Task -> Seq(Channel)] /\ \A t \in Task : Len(wrote[t]) <= MaxChunks
  /\ exited \subseteq Task /\ known \subseteq Task /\ done \subseteq Task
  /\ link \in [Task -> {"none", "open", "closed", "cut"}]
  /\ taken \in [Task -> 0 .. MaxChunks]
  /\ buffer \in [Task -> Buffers]
  /\ thread \in [Task -> Threads]
  /\ lines \in [Task -> Seq(Line)]

PageTypes ==
  /\ shows \in [Page -> Task]
  /\ sse \in [Page -> Streaming \union {"off", "lost", "done", "closed"}]
  /\ idx \in [Page -> Nat] /\ upto \in [Page -> Nat]
  /\ \A p \in Page : idx[p] <= upto[p] /\ upto[p] <= Len(lines[shows[p]])
  /\ seen \subseteq Page
  /\ shown \in [Page -> Seq(Line)]
  /\ cuts \in [Page -> 0 .. MaxCuts]

TaskInv(t) == Pipe(wrote[t], taken[t], buffer[t], lines[t]) /\ PumpInv(t)

LEMMA Types == TasksTypeOK <=> TaskTypes /\ PageTypes
BY DEF TasksTypeOK, TaskTypes, PageTypes, Buffers, Line, Threads

LEMMA ConsoleParts ==
  ConsoleInv <=> /\ TaskTypes /\ PageTypes
                 /\ \A t \in Task : TaskInv(t)
                 /\ \A p \in Page : PageInv(p)
                 /\ \A p \in TaskPage : TaskPageInv(p)
BY Types DEF ConsoleInv, TaskInv

LEMMA ConsolePartsNext ==
  ASSUME TaskTypes', PageTypes', \A t \in Task : TaskInv(t)',
         \A p \in Page : PageInv(p)', \A p \in TaskPage : TaskPageInv(p)'
  PROVE  ConsoleInv'
<1>1. TasksTypeOK'
  BY DEF TasksTypeOK, TaskTypes, PageTypes, Buffers, Line, Threads
<1> QED
  BY <1>1 DEF ConsoleInv, TaskInv

LEMMA TasksInitInv == TasksInit => ConsoleInv
<1> SUFFICES ASSUME TasksInit PROVE ConsoleInv
  OBVIOUS
<1>0. 0 \in 0 .. MaxChunks /\ 0 \in 0 .. MaxCuts /\ Len(<< >>) = 0 /\ 0 <= MaxChunks
  BY TaskBoundsAssumption
<1>1. TaskTypes
  <2>1. wrote \in [Task -> Seq(Channel)] /\ \A t \in Task : Len(wrote[t]) <= MaxChunks
    BY <1>0 DEF TasksInit
  <2>2. buffer \in [Task -> Buffers]
    BY DEF TasksInit, Buffers
  <2>3. lines \in [Task -> Seq(Line)] /\ taken \in [Task -> 0 .. MaxChunks]
    BY <1>0 DEF TasksInit
  <2> QED
    BY <2>1, <2>2, <2>3 DEF TasksInit, TaskTypes, Threads
<1>2. PageTypes
  <2>1. \A p \in Page : idx[p] <= upto[p] /\ upto[p] <= Len(lines[shows[p]])
    BY <1>0 DEF TasksInit
  <2> QED
    BY <1>0, <2>1 DEF TasksInit, PageTypes
<1>3. ASSUME NEW t \in Task PROVE TaskInv(t)
  <2>1. Pipe(wrote[t], taken[t], buffer[t], lines[t])
    BY DEF TasksInit, Pipe, Waiting, Kept, Before, InOrder, Has
  <2>2. PumpInv(t)
    BY DEF TasksInit, PumpInv
  <2> QED
    BY <2>1, <2>2 DEF TaskInv
<1>4. ASSUME NEW p \in Page PROVE PageInv(p)
  BY DEF TasksInit, PageInv, Streaming
<1>5. ASSUME NEW p \in TaskPage PROVE TaskPageInv(p)
  BY DEF TasksInit, TaskPageInv, Begins, Streaming, Page
<1> QED
  BY <1>1, <1>2, <1>3, <1>4, <1>5, ConsoleParts

\* A step of the pump of t, which only ever adds lines, and none to a task that is done.
LEMMA PumpStep ==
  ASSUME ConsoleInv, NEW t \in Task, TaskTypes', UNCHANGED pages,
         \A u \in Task \ {t} : /\ wrote'[u] = wrote[u] /\ link'[u] = link[u]
                               /\ taken'[u] = taken[u] /\ buffer'[u] = buffer[u]
                               /\ thread'[u] = thread[u] /\ lines'[u] = lines[u]
                               /\ u \in done' <=> u \in done,
         done \subseteq done',
         \/ lines'[t] = lines[t]
         \/ t \notin done /\ \E x \in Line : lines'[t] = Append(lines[t], x),
         TaskInv(t)'
  PROVE  ConsoleInv'
<1>1. TaskTypes /\ PageTypes
  BY ConsoleParts
<1>2. ASSUME NEW u \in Task, u # t PROVE TaskInv(u)'
  <2>1. Pipe(wrote[u], taken[u], buffer[u], lines[u]) /\ PumpInv(u)
    BY ConsoleParts DEF TaskInv
  <2>2. /\ wrote'[u] = wrote[u] /\ link'[u] = link[u] /\ taken'[u] = taken[u]
        /\ buffer'[u] = buffer[u] /\ thread'[u] = thread[u] /\ lines'[u] = lines[u]
    BY <1>2
  <2>3. u \in done' <=> u \in done
    BY <1>2
  <2>4. PumpInv(u)'
    BY <2>1, <2>2, <2>3, Zenon DEF PumpInv, Read
  <2> QED
    BY <2>1, <2>2, <2>4 DEF TaskInv
<1>3. ASSUME NEW u \in Task
      PROVE  \/ lines'[u] = lines[u]
             \/ u \notin done /\ \E x \in Line : lines'[u] = Append(lines[u], x)
  OBVIOUS
<1>4. ASSUME NEW u \in Task PROVE Len(lines[u]) <= Len(lines'[u])
  <2>1. lines[u] \in Seq(Line)
    BY <1>1 DEF TaskTypes
  <2> QED
    BY <1>3, <2>1
<1>5. PageTypes'
  <2>1. \A p \in Page : idx[p] <= upto[p] /\ upto[p] <= Len(lines'[shows[p]])
    <3> SUFFICES ASSUME NEW p \in Page PROVE idx[p] <= upto[p] /\ upto[p] <= Len(lines'[shows[p]])
      OBVIOUS
    <3>1. shows[p] \in Task /\ upto[p] \in Nat /\ idx[p] <= upto[p] /\ upto[p] <= Len(lines[shows[p]])
      BY <1>1 DEF PageTypes
    <3>2. lines[shows[p]] \in Seq(Line) /\ lines'[shows[p]] \in Seq(Line)
      BY <1>1, <3>1 DEF TaskTypes
    <3> QED
      BY <1>4, <3>1, <3>2
  <2> QED
    BY <1>1, <2>1 DEF PageTypes, pages
<1>6. ASSUME NEW p \in Page PROVE PageInv(p)'
  <2>1. /\ shows[p] \in Task /\ idx[p] \in Nat /\ shown[p] \in Seq(Line)
        /\ lines[shows[p]] \in Seq(Line)
    BY <1>1 DEF PageTypes, TaskTypes
  <2>2. PageInv(p)
    BY ConsoleParts
  <2>3. Shows(shown[p], idx[p], lines[shows[p]]) => Shows(shown[p], idx[p], lines'[shows[p]])
    <3>1. \/ lines'[shows[p]] = lines[shows[p]]
          \/ \E x \in Line : lines'[shows[p]] = Append(lines[shows[p]], x)
      BY <1>3, <2>1
    <3>2. CASE lines'[shows[p]] = lines[shows[p]]
      BY <3>2
    <3>3. ASSUME NEW x \in Line, lines'[shows[p]] = Append(lines[shows[p]], x)
          PROVE  Shows(shown[p], idx[p], lines[shows[p]]) => Shows(shown[p], idx[p], lines'[shows[p]])
      BY <2>1, <3>3, ShowsLonger
    <3> QED
      BY <3>1, <3>2, <3>3
  <2>4. shows[p] \in done => lines'[shows[p]] = lines[shows[p]]
    BY <1>3, <2>1
  <2> QED
    BY <2>2, <2>3, <2>4 DEF PageInv, pages
<1>7. ASSUME NEW p \in TaskPage PROVE TaskPageInv(p)'
  <2>1. /\ shows[p] \in Task /\ shown[p] \in Seq(Line) /\ lines[shows[p]] \in Seq(Line)
    BY <1>1 DEF PageTypes, TaskTypes, Page
  <2>2. TaskPageInv(p)
    BY ConsoleParts
  <2>3. Begins(shown[p], lines[shows[p]]) => Begins(shown[p], lines'[shows[p]])
    <3>1. \/ lines'[shows[p]] = lines[shows[p]]
          \/ \E x \in Line : lines'[shows[p]] = Append(lines[shows[p]], x)
      BY <1>3, <2>1
    <3>2. CASE lines'[shows[p]] = lines[shows[p]]
      BY <3>2
    <3>3. ASSUME NEW x \in Line, lines'[shows[p]] = Append(lines[shows[p]], x)
          PROVE  Begins(shown[p], lines[shows[p]]) => Begins(shown[p], lines'[shows[p]])
      BY <2>1, <3>3, ShowsLonger
    <3> QED
      BY <3>1, <3>2, <3>3
  <2> QED
    BY <2>2, <2>3 DEF TaskPageInv, pages
<1> QED
  BY <1>2, <1>5, <1>6, <1>7, ConsolePartsNext

\* A step of the page p.
LEMMA PageStep ==
  ASSUME ConsoleInv, NEW p \in Page, UNCHANGED <<exec, pipe, thread, entry, shows>>,
         \A q \in Page \ {p} : /\ sse'[q] = sse[q] /\ idx'[q] = idx[q] /\ upto'[q] = upto[q]
                               /\ shown'[q] = shown[q]
                               /\ q \in seen' <=> q \in seen,
         PageTypes', PageInv(p)', p \in TaskPage => TaskPageInv(p)'
  PROVE  ConsoleInv'
<1>1. TaskTypes'
  BY ConsoleParts DEF TaskTypes, exec, pipe, entry
<1>2. ASSUME NEW t \in Task PROVE TaskInv(t)'
  BY ConsoleParts DEF TaskInv, PumpInv, Read, exec, pipe, entry
<1>3. ASSUME NEW q \in Page, q # p PROVE PageInv(q)'
  <2>1. PageInv(q)
    BY ConsoleParts
  <2> QED
    BY <1>3, <2>1 DEF PageInv, entry
<1>4. ASSUME NEW q \in TaskPage, q # p PROVE TaskPageInv(q)'
  <2>1. TaskPageInv(q) /\ q \in Page
    BY ConsoleParts DEF Page
  <2> QED
    BY <1>4, <2>1 DEF TaskPageInv, entry
<1> QED
  BY <1>1, <1>2, <1>3, <1>4, ConsolePartsNext

\* The facts of a task that its pump's steps start from.
LEMMA TaskFacts ==
  ASSUME ConsoleInv, NEW t \in Task
  PROVE  /\ wrote[t] \in Seq(Channel) /\ Len(wrote[t]) <= MaxChunks
         /\ taken[t] \in 0 .. MaxChunks /\ taken[t] \in Nat
         /\ buffer[t] \in Buffers /\ lines[t] \in Seq(Line)
         /\ Pipe(wrote[t], taken[t], buffer[t], lines[t]) /\ PumpInv(t)
<1>1. TaskTypes /\ TaskInv(t)
  BY ConsoleParts
<1> QED
  BY <1>1, TaskBoundsAssumption DEF TaskTypes, TaskInv

LEMMA WriteStep ==
  ASSUME ConsoleInv, NEW t \in Task, NEW c \in Channel, Write(t, c)
  PROVE  ConsoleInv'
<1> USE DEF Write, pipe, entry, pages
<1>1. TaskTypes
  BY ConsoleParts
<1>2. /\ wrote[t] \in Seq(Channel) /\ taken[t] \in Nat /\ PumpInv(t)
      /\ Pipe(wrote[t], taken[t], buffer[t], lines[t])
  BY TaskFacts
<1>3. wrote' = [wrote EXCEPT ![t] = Append(wrote[t], c)]
  OBVIOUS
<1>4. wrote'[t] = Append(wrote[t], c) /\ \A u \in Task \ {t} : wrote'[u] = wrote[u]
  BY <1>1, <1>3 DEF TaskTypes
<1>5. Append(wrote[t], c) \in Seq(Channel) /\ Len(Append(wrote[t], c)) <= MaxChunks
  BY <1>2, TaskBoundsAssumption
<1>6. wrote' \in [Task -> Seq(Channel)] /\ \A u \in Task : Len(wrote'[u]) <= MaxChunks
  BY <1>1, <1>3, <1>4, <1>5 DEF TaskTypes
<1>7. TaskTypes'
  BY <1>1, <1>6 DEF TaskTypes
<1>8. Pipe(wrote[t], taken[t], buffer[t], lines[t])'
  BY <1>2, <1>4, PipeWritten
<1>9. PumpInv(t)'
  BY <1>2 DEF PumpInv, Read
<1> QED
  BY <1>4, <1>7, <1>8, <1>9, PumpStep DEF TaskInv

LEMMA ExitStep ==
  ASSUME ConsoleInv, NEW t \in Task, Exit(t)
  PROVE  ConsoleInv'
<1> USE DEF Exit, pipe, entry, pages
<1>1. TaskTypes
  BY ConsoleParts
<1>2. TaskTypes'
  BY <1>1 DEF TaskTypes
<1>3. TaskInv(t)'
  BY ConsoleParts DEF TaskInv, PumpInv, Read
<1> QED
  BY <1>2, <1>3, PumpStep

\* Where the thread goes.
LEMMA Goes ==
  ASSUME TaskTypes, NEW t \in Task, NEW to \in Threads, GotoThread(t, to)
  PROVE  /\ thread'[t] = to /\ \A u \in Task \ {t} : thread'[u] = thread[u]
         /\ thread' \in [Task -> Threads]
BY DEF GotoThread, TaskTypes

LEMMA LaunchStep ==
  ASSUME ConsoleInv, NEW t \in Task, Launch(t)
  PROVE  ConsoleInv'
<1> USE DEF Launch, exec, pipe, pages
<1>1. TaskTypes /\ PumpInv(t) /\ Pipe(wrote[t], taken[t], buffer[t], lines[t])
  BY ConsoleParts, TaskFacts
<1>2. /\ thread'[t] \in {"connect", "over"} /\ \A u \in Task \ {t} : thread'[u] = thread[u]
      /\ thread' \in [Task -> Threads]
  BY <1>1, Goes DEF Threads
<1>3. TaskTypes'
  BY <1>1, <1>2 DEF TaskTypes
<1>4. PumpInv(t)'
  BY <1>1, <1>2 DEF PumpInv, Read
<1> QED
  BY <1>1, <1>2, <1>3, <1>4, PumpStep DEF TaskInv

LEMMA ConnectStep ==
  ASSUME ConsoleInv, NEW t \in Task, Connect(t)
  PROVE  ConsoleInv'
<1> USE DEF Connect, exec, entry, pages
<1>1. TaskTypes /\ PumpInv(t) /\ Pipe(wrote[t], taken[t], buffer[t], lines[t])
  BY ConsoleParts, TaskFacts
<1>2. /\ thread'[t] \in {"loop", "error"} /\ \A u \in Task \ {t} : thread'[u] = thread[u]
      /\ thread' \in [Task -> Threads]
  BY <1>1, Goes DEF Threads
<1>3. /\ link' \in [Task -> {"none", "open", "closed", "cut"}]
      /\ \A u \in Task \ {t} : link'[u] = link[u]
      /\ link'[t] = "open" \/ (link'[t] = link[t] /\ thread'[t] = "error")
  BY <1>1, Goes DEF TaskTypes, Threads
<1>4. TaskTypes'
  BY <1>1, <1>2, <1>3 DEF TaskTypes
<1>5. PumpInv(t)'
  BY <1>1, <1>2, <1>3 DEF PumpInv, Read
<1> QED
  BY <1>1, <1>2, <1>3, <1>4, <1>5, PumpStep DEF TaskInv

\* What an update does to the pipe: a frame more is taken of an open connection, or
\* nothing; a connection that it finds closed has been read to its end.
LEMMA UpdateStep ==
  ASSUME ConsoleInv, NEW t \in Task, Update(t), UNCHANGED <<wrote, lines>>
  PROVE  /\ link' \in [Task -> {"none", "open", "closed", "cut"}]
         /\ taken' \in [Task -> 0 .. MaxChunks] /\ buffer' \in [Task -> Buffers]
         /\ \A u \in Task \ {t} : link'[u] = link[u] /\ taken'[u] = taken[u] /\ buffer'[u] = buffer[u]
         /\ Pipe(wrote[t], taken[t], buffer[t], lines[t])'
         /\ link'[t] = "closed" => taken'[t] = Len(wrote[t])
         /\ link'[t] = link[t] \/ link[t] = "open"
         /\ buffer'[t] = buffer[t] \/ (link[t] = "open" /\ link'[t] = "open")
<1>1. TaskTypes
  BY ConsoleParts
<1>2. /\ wrote[t] \in Seq(Channel) /\ Len(wrote[t]) <= MaxChunks
      /\ taken[t] \in 0 .. MaxChunks /\ taken[t] \in Nat
      /\ buffer[t] \in Buffers /\ lines[t] \in Seq(Line)
      /\ Pipe(wrote[t], taken[t], buffer[t], lines[t]) /\ PumpInv(t)
  BY TaskFacts
<1>3. link[t] = "closed" => taken[t] = Len(wrote[t])
  BY <1>2 DEF PumpInv
<1>4. CASE /\ link[t] = "open" /\ taken[t] < Len(wrote[t])
           /\ taken' = [taken EXCEPT ![t] = @ + 1]
           /\ buffer' = [buffer EXCEPT ![t][wrote[t][taken[t] + 1]] = Append(@, taken[t] + 1)]
           /\ UNCHANGED link
  <2> DEFINE b == [buffer[t] EXCEPT ![wrote[t][taken[t] + 1]] = Append(@, taken[t] + 1)]
  <2>1. Pipe(wrote[t], taken[t] + 1, b, lines[t]) /\ b \in Buffers
    BY <1>2, <1>4, PipeTaken
  <2>2. buffer' = [buffer EXCEPT ![t] = b]
    BY <1>4
  <2> HIDE DEF b
  <2>3. buffer'[t] = b /\ buffer' \in [Task -> Buffers] /\ \A u \in Task \ {t} : buffer'[u] = buffer[u]
    BY <1>1, <2>1, <2>2 DEF TaskTypes
  <2>4. taken[t] + 1 \in 0 .. MaxChunks
    BY <1>2, <1>4, TaskBoundsAssumption
  <2>5. /\ taken'[t] = taken[t] + 1 /\ taken' \in [Task -> 0 .. MaxChunks]
        /\ \A u \in Task \ {t} : taken'[u] = taken[u]
    BY <1>1, <1>4, <2>4 DEF TaskTypes
  <2>6. Pipe(wrote[t], taken[t], buffer[t], lines[t])'
    BY <2>1, <2>3, <2>5
  <2> QED
    BY <1>1, <1>4, <2>3, <2>5, <2>6 DEF TaskTypes
<1>5. CASE UNCHANGED <<taken, buffer, link>>
  <2>1. Pipe(wrote[t], taken[t], buffer[t], lines[t])'
    BY <1>2, <1>5
  <2> QED
    BY <1>1, <1>3, <1>5, <2>1 DEF TaskTypes
<1>6. CASE /\ link[t] = "open"
           /\ link' = [link EXCEPT ![t] = IF taken[t] = Len(wrote[t]) /\ t \in exited
                                          THEN "closed" ELSE "cut"]
           /\ UNCHANGED <<taken, buffer>>
  <2>1. Pipe(wrote[t], taken[t], buffer[t], lines[t])'
    BY <1>2, <1>6
  <2>2. /\ link'[t] \in {"closed", "cut"}
        /\ link'[t] = "closed" => taken[t] = Len(wrote[t])
        /\ \A u \in Task \ {t} : link'[u] = link[u]
    BY <1>1, <1>6 DEF TaskTypes
  <2> QED
    BY <1>1, <1>6, <2>1, <2>2 DEF TaskTypes
<1> QED
  BY <1>4, <1>5, <1>6 DEF Update

LEMMA LoopStep ==
  ASSUME ConsoleInv, NEW t \in Task, Loop(t)
  PROVE  ConsoleInv'
<1> USE DEF Loop, exec, entry, pages
<1>1. TaskTypes /\ PumpInv(t) /\ Pipe(wrote[t], taken[t], buffer[t], lines[t])
  BY ConsoleParts, TaskFacts
<1>2. CASE link[t] = "open" /\ Update(t) /\ GotoThread(t, "out")
  <2>1. /\ thread'[t] = "out" /\ \A u \in Task \ {t} : thread'[u] = thread[u]
        /\ thread' \in [Task -> Threads]
    BY <1>1, <1>2, Goes DEF Threads
  <2>2. TaskTypes'
    BY <1>1, <1>2, <2>1, UpdateStep DEF TaskTypes
  <2>3. t \notin done
    BY <1>1 DEF PumpInv
  <2>4. PumpInv(t)'
    BY <1>2, <2>1, <2>3, UpdateStep DEF PumpInv
  <2> QED
    BY <1>2, <2>1, <2>2, <2>4, UpdateStep, PumpStep DEF TaskInv
<1>3. CASE link[t] # "open" /\ UNCHANGED pipe /\ GotoThread(t, "end")
  <2>1. /\ thread'[t] = "end" /\ \A u \in Task \ {t} : thread'[u] = thread[u]
        /\ thread' \in [Task -> Threads]
    BY <1>1, <1>3, Goes DEF Threads
  <2>2. TaskTypes'
    BY <1>1, <1>3, <2>1 DEF TaskTypes, pipe
  <2>3. PumpInv(t)'
    BY <1>1, <1>3, <2>1 DEF PumpInv, Read, pipe
  <2> QED
    BY <1>1, <1>3, <2>1, <2>2, <2>3, PumpStep DEF TaskInv, pipe
<1> QED
  BY <1>2, <1>3

LEMMA ReadingOf == Reading["out"] = "read out" /\ Reading["err"] = "read err"
BY DEF Reading

LEMMA PeekStep ==
  ASSUME ConsoleInv, NEW t \in Task, Peek(t)
  PROVE  ConsoleInv'
<1> USE DEF Peek, exec, entry, pages
<1>1. TaskTypes /\ PumpInv(t)
  BY ConsoleParts, TaskFacts
<1>2. /\ \/ thread[t] = "out" /\ thread'[t] = "read out"
         \/ thread[t] = "err" /\ thread'[t] = "read err"
      /\ thread' \in [Task -> Threads]
      /\ \A u \in Task \ {t} : thread'[u] = thread[u]
  <2>1. thread[t] = "out" \/ thread[t] = "err"
    BY DEF Channel
  <2>2. CASE thread[t] = "out"
    <3>1. GotoThread(t, "read out") /\ "read out" \in Threads
      BY <2>2, ReadingOf DEF Threads
    <3> QED
      BY <1>1, <2>2, <3>1, Goes
  <2>3. CASE thread[t] = "err"
    <3>1. GotoThread(t, "read err") /\ "read err" \in Threads
      BY <2>3, ReadingOf DEF Threads
    <3> QED
      BY <1>1, <2>3, <3>1, Goes
  <2> QED
    BY <2>1, <2>2, <2>3
<1>3. TaskTypes'
  BY <1>1, <1>2, UpdateStep DEF TaskTypes
<1>4. t \notin done
  BY <1>1, <1>2 DEF PumpInv
<1>5. link'[t] = "closed" => taken'[t] = Len(wrote[t])
  BY UpdateStep
<1>6. thread[t] = "err" /\ link'[t] # "open" => buffer'[t]["out"] = << >>
  BY <1>1, UpdateStep DEF PumpInv
<1>7. PumpInv(t)'
  BY <1>2, <1>4, <1>5, <1>6 DEF PumpInv
<1> QED
  BY <1>2, <1>3, <1>7, UpdateStep, PumpStep DEF TaskInv

\* One line of the channel c; next is where the thread goes when there is no more.
LEMMA ReadLineStep ==
  ASSUME ConsoleInv, NEW t \in Task, NEW c \in Channel, NEW next \in Threads,
         <<c, next>> \in {<<"out", "err">>, <<"err", "loop">>}, ReadLine(t, c, next)
  PROVE  ConsoleInv'
<1> USE DEF ReadLine, exec, pages
<1>1. TaskTypes /\ PumpInv(t)
  BY ConsoleParts, TaskFacts
<1>2. /\ wrote[t] \in Seq(Channel) /\ taken[t] \in Nat
      /\ buffer[t] \in Buffers /\ lines[t] \in Seq(Line)
      /\ Pipe(wrote[t], taken[t], buffer[t], lines[t])
  BY TaskFacts
<1>3. \/ c = "out" /\ next = "err" /\ thread[t] = "read out"
      \/ c = "err" /\ next = "loop" /\ thread[t] = "read err"
  <2>1. (c = "out" /\ next = "err") \/ (c = "err" /\ next = "loop")
    OBVIOUS
  <2> QED
    BY <2>1, ReadingOf
<1>4. t \notin done
  BY <1>1, <1>3 DEF PumpInv
<1>5. CASE /\ buffer[t][c] # <<>>
           /\ Store(t, Head(buffer[t][c]))
           /\ buffer' = [buffer EXCEPT ![t][c] = Tail(@)]
           /\ UNCHANGED thread
  <2> DEFINE b == [buffer[t] EXCEPT ![c] = Tail(@)]
             h == Head(buffer[t][c])
  <2>1. Pipe(wrote[t], taken[t], b, Append(lines[t], h)) /\ b \in Buffers /\ h \in 1 .. MaxChunks
    BY <1>2, <1>5, PipeStored
  <2>2. buffer' = [buffer EXCEPT ![t] = b] /\ lines' = [lines EXCEPT ![t] = Append(lines[t], h)]
    BY <1>5 DEF Store
  <2>o. c # "out" => b["out"] = buffer[t]["out"]
    BY <1>2 DEF Buffers, Channel
  <2>h. h \in Line /\ Append(lines[t], h) \in Seq(Line)
    BY <1>2, <2>1, TaskBoundsAssumption DEF Line
  <2> HIDE DEF b, h
  <2>3. buffer'[t] = b /\ buffer' \in [Task -> Buffers] /\ \A u \in Task \ {t} : buffer'[u] = buffer[u]
    BY <1>1, <2>1, <2>2 DEF TaskTypes
  <2>4. /\ lines'[t] = Append(lines[t], h) /\ lines' \in [Task -> Seq(Line)]
        /\ \A u \in Task \ {t} : lines'[u] = lines[u]
    BY <1>1, <2>2, <2>h DEF TaskTypes
  <2>5. TaskTypes'
    BY <1>1, <1>5, <2>3, <2>4 DEF TaskTypes
  <2>6. Pipe(wrote[t], taken[t], buffer[t], lines[t])'
    BY <2>1, <2>3, <2>4
  <2>7. PumpInv(t)'
    BY <1>1, <1>3, <1>4, <1>5, <2>o, <2>3 DEF PumpInv
  <2> QED
    BY <1>4, <1>5, <2>h, <2>3, <2>4, <2>5, <2>6, <2>7, PumpStep DEF TaskInv
<1>6. CASE /\ buffer[t][c] = <<>>
           /\ GotoThread(t, next)
           /\ UNCHANGED <<lines, buffer>>
  <2>1. /\ thread'[t] = next /\ \A u \in Task \ {t} : thread'[u] = thread[u]
        /\ thread' \in [Task -> Threads]
    BY <1>1, <1>6, Goes
  <2>2. TaskTypes'
    BY <1>1, <1>6, <2>1 DEF TaskTypes
  <2>3. next = "loop" /\ link[t] # "open" => Read(t)
    BY <1>1, <1>3, <1>6 DEF PumpInv, Read, Channel
  <2>4. PumpInv(t)'
    BY <1>1, <1>3, <1>4, <1>6, <2>1, <2>3 DEF PumpInv, Read
  <2> QED
    BY <1>2, <1>6, <2>1, <2>2, <2>4, PumpStep DEF TaskInv
<1> QED
  BY <1>5, <1>6

LEMMA RaiseStep ==
  ASSUME ConsoleInv, NEW t \in Task, Raise(t)
  PROVE  ConsoleInv'
<1> USE DEF Raise, exec, entry, pages
<1>1. TaskTypes /\ PumpInv(t) /\ Pipe(wrote[t], taken[t], buffer[t], lines[t])
  BY ConsoleParts, TaskFacts
<1>2. /\ thread'[t] = "error" /\ \A u \in Task \ {t} : thread'[u] = thread[u]
      /\ thread' \in [Task -> Threads]
  BY <1>1, Goes DEF Threads
<1>3. /\ link'[t] = "cut" /\ \A u \in Task \ {t} : link'[u] = link[u]
      /\ link' \in [Task -> {"none", "open", "closed", "cut"}]
  BY <1>1 DEF TaskTypes
<1>4. TaskTypes'
  BY <1>1, <1>2, <1>3 DEF TaskTypes
<1>5. PumpInv(t)'
  BY <1>1, <1>2, <1>3 DEF PumpInv
<1> QED
  BY <1>1, <1>2, <1>3, <1>4, <1>5, PumpStep DEF TaskInv

LEMMA ReportStep ==
  ASSUME ConsoleInv, NEW t \in Task, Report(t)
  PROVE  ConsoleInv'
<1> USE DEF Report, exec, pipe, pages
<1>1. TaskTypes /\ PumpInv(t)
  BY ConsoleParts, TaskFacts
<1>2. lines[t] \in Seq(Line) /\ Pipe(wrote[t], taken[t], buffer[t], lines[t])
  BY TaskFacts
<1>3. t \notin done
  BY <1>1 DEF PumpInv
<1>4. /\ thread'[t] = "end" /\ \A u \in Task \ {t} : thread'[u] = thread[u]
      /\ thread' \in [Task -> Threads]
  BY <1>1, Goes DEF Threads
<1>5. ErrorLine \in Line
  BY TaskBoundsAssumption DEF Line, ErrorLine
<1>6. /\ lines'[t] = Append(lines[t], ErrorLine) /\ lines' \in [Task -> Seq(Line)]
      /\ \A u \in Task \ {t} : lines'[u] = lines[u]
  BY <1>1, <1>2, <1>5 DEF TaskTypes, Store
<1>7. TaskTypes'
  BY <1>1, <1>4, <1>6 DEF TaskTypes
<1>8. Pipe(wrote[t], taken[t], buffer[t], lines[t])' /\ Has(lines'[t], ErrorLine)
  BY <1>2, <1>6, PipeReported
<1>9. PumpInv(t)'
  BY <1>1, <1>3, <1>4, <1>8 DEF PumpInv
<1> QED
  BY <1>3, <1>4, <1>5, <1>6, <1>7, <1>8, <1>9, PumpStep DEF TaskInv

LEMMA MarkDoneStep ==
  ASSUME ConsoleInv, NEW t \in Task, MarkDone(t)
  PROVE  ConsoleInv'
<1> USE DEF MarkDone, exec, pipe, pages
<1>1. TaskTypes /\ PumpInv(t) /\ Pipe(wrote[t], taken[t], buffer[t], lines[t])
  BY ConsoleParts, TaskFacts
<1>2. /\ thread'[t] = "over" /\ \A u \in Task \ {t} : thread'[u] = thread[u]
      /\ thread' \in [Task -> Threads]
  BY <1>1, Goes DEF Threads
<1>3. TaskTypes'
  BY <1>1, <1>2 DEF TaskTypes
<1>4. Has(lines[t], ErrorLine) \/ (Read(t) /\ link[t] # "open")
  BY <1>1 DEF PumpInv
<1>5. PumpInv(t)'
  BY <1>1, <1>2, <1>4 DEF PumpInv, Read
<1> QED
  BY <1>1, <1>2, <1>3, <1>5, PumpStep DEF TaskInv

\* The facts of a page that its steps start from.
LEMMA PageFacts ==
  ASSUME ConsoleInv, NEW p \in Page
  PROVE  /\ shows[p] \in Task /\ lines[shows[p]] \in Seq(Line) /\ shown[p] \in Seq(Line)
         /\ idx[p] \in Nat /\ upto[p] \in Nat
         /\ idx[p] <= upto[p] /\ upto[p] <= Len(lines[shows[p]])
         /\ cuts[p] \in 0 .. MaxCuts /\ PageInv(p)
         /\ p \in TaskPage => TaskPageInv(p)
<1>1. TaskTypes /\ PageTypes
  BY ConsoleParts
<1>2. shows[p] \in Task
  BY <1>1 DEF PageTypes
<1> QED
  BY <1>1, <1>2, ConsoleParts DEF TaskTypes, PageTypes

Sses == Streaming \union {"off", "lost", "done", "closed"}

\* Where the page's stream goes.
LEMMA StreamGoes ==
  ASSUME PageTypes, NEW p \in Page, NEW to \in Sses, GotoStream(p, to)
  PROVE  /\ sse'[p] = to /\ \A q \in Page \ {p} : sse'[q] = sse[q]
         /\ sse' \in [Page -> Sses]
BY DEF GotoStream, PageTypes, Sses

LEMMA SubscribeStep ==
  ASSUME ConsoleInv, NEW p \in Page, Subscribe(p)
  PROVE  ConsoleInv'
<1> USE DEF Subscribe, entry
<1>1. PageTypes
  BY ConsoleParts
<1>2. /\ shows[p] \in Task /\ lines[shows[p]] \in Seq(Line) /\ shown[p] \in Seq(Line)
      /\ p \in TaskPage => TaskPageInv(p)
  BY PageFacts
<1>3. /\ sse'[p] \in {"poll", "closed"} /\ \A q \in Page \ {p} : sse'[q] = sse[q]
      /\ sse' \in [Page -> Sses]
  BY <1>1, StreamGoes DEF Sses, Streaming
<1>4. /\ idx'[p] = 0 /\ upto'[p] = 0 /\ p \notin seen' /\ seen' \subseteq Page
      /\ idx' \in [Page -> Nat] /\ upto' \in [Page -> Nat]
      /\ \A q \in Page \ {p} : idx'[q] = idx[q] /\ upto'[q] = upto[q]
  BY <1>1 DEF PageTypes
<1>5. \A q \in Page : idx'[q] <= upto'[q] /\ upto'[q] <= Len(lines[shows[q]])
  <2>1. 0 <= Len(lines[shows[p]])
    BY <1>2
  <2>2. \A q \in Page \ {p} : idx'[q] <= upto'[q] /\ upto'[q] <= Len(lines[shows[q]])
    BY <1>1, <1>4 DEF PageTypes
  <2> QED
    BY <1>4, <2>1, <2>2
<1>6. PageTypes'
  BY <1>1, <1>3, <1>4, <1>5 DEF PageTypes, Sses
<1>7. PageInv(p)'
  <2>1. Shows(shown[p], 0, lines[shows[p]])
    BY <1>2 DEF Shows
  <2> QED
    BY <1>3, <1>4, <2>1 DEF PageInv
<1>8. p \in TaskPage => TaskPageInv(p)'
  <2> SUFFICES ASSUME p \in TaskPage PROVE TaskPageInv(p)'
    OBVIOUS
  <2>1. Begins(shown[p], lines[shows[p]]) /\ shown[p] = << >>
    BY <1>2 DEF TaskPageInv
  <2>2. Len(<< >>) = 0
    OBVIOUS
  <2> QED
    BY <1>3, <1>4, <2>1, <2>2 DEF TaskPageInv
<1> QED
  BY <1>3, <1>4, <1>6, <1>7, <1>8, PageStep

LEMMA PollStep ==
  ASSUME ConsoleInv, NEW p \in Page, Poll(p)
  PROVE  ConsoleInv'
<1> USE DEF Poll, entry
<1>1. PageTypes
  BY ConsoleParts
<1>2. /\ shows[p] \in Task /\ lines[shows[p]] \in Seq(Line) /\ idx[p] \in Nat
      /\ idx[p] <= upto[p] /\ upto[p] <= Len(lines[shows[p]]) /\ upto[p] \in Nat
      /\ PageInv(p)
      /\ p \in TaskPage => TaskPageInv(p)
  BY PageFacts
<1>3. /\ sse'[p] = "send" /\ \A q \in Page \ {p} : sse'[q] = sse[q]
      /\ sse' \in [Page -> Sses]
  BY <1>1, StreamGoes DEF Sses, Streaming
<1>4. /\ upto'[p] = Len(lines[shows[p]]) /\ upto' \in [Page -> Nat]
      /\ \A q \in Page \ {p} : upto'[q] = upto[q]
  BY <1>1, <1>2 DEF PageTypes
<1>5. /\ p \in seen' => shows[p] \in done
      /\ seen' \subseteq Page /\ \A q \in Page \ {p} : q \in seen' <=> q \in seen
  BY <1>1, <1>2 DEF PageTypes, PageInv, Streaming
<1>6. \A q \in Page : idx[q] <= upto'[q] /\ upto'[q] <= Len(lines[shows[q]])
  <2>1. idx[p] <= upto'[p] /\ upto'[p] <= Len(lines[shows[p]])
    BY <1>2, <1>4
  <2>2. \A q \in Page \ {p} : idx[q] <= upto'[q] /\ upto'[q] <= Len(lines[shows[q]])
    BY <1>1, <1>4 DEF PageTypes
  <2> QED
    BY <2>1, <2>2
<1>7. PageTypes'
  BY <1>1, <1>3, <1>4, <1>5, <1>6 DEF PageTypes, Sses
<1>8. PageInv(p)'
  BY <1>2, <1>3, <1>4, <1>5 DEF PageInv, Streaming
<1>9. p \in TaskPage => TaskPageInv(p)'
  BY <1>2, <1>3 DEF TaskPageInv, Streaming
<1> QED
  BY <1>3, <1>4, <1>5, <1>7, <1>8, <1>9, PageStep

LEMMA SendStep ==
  ASSUME ConsoleInv, NEW p \in Page, Send(p)
  PROVE  ConsoleInv'
<1> USE DEF Send, entry
<1> DEFINE l == lines[shows[p]]
           line == l[idx[p] + 1]
<1>1. PageTypes
  BY ConsoleParts
<1>2. /\ shows[p] \in Task /\ l \in Seq(Line) /\ shown[p] \in Seq(Line)
      /\ idx[p] \in Nat /\ upto[p] \in Nat /\ upto[p] <= Len(l)
      /\ PageInv(p)
      /\ p \in TaskPage => TaskPageInv(p)
  BY PageFacts
<1>3. idx[p] < upto[p] /\ idx[p] < Len(l) /\ line \in Line
  BY <1>2, ElementOfSeq
<1>4. /\ idx'[p] = idx[p] + 1 /\ idx' \in [Page -> Nat]
      /\ \A q \in Page \ {p} : idx'[q] = idx[q]
  BY <1>1, <1>2 DEF PageTypes
<1>5. shown' = [shown EXCEPT ![p] = Append(shown[p], line)]
  OBVIOUS
<1> HIDE DEF line
<1>6. /\ shown'[p] = Append(shown[p], line) /\ shown' \in [Page -> Seq(Line)]
      /\ \A q \in Page \ {p} : shown'[q] = shown[q]
  BY <1>1, <1>2, <1>3, <1>5 DEF PageTypes
<1>7. \A q \in Page : idx'[q] <= upto[q] /\ upto[q] <= Len(lines[shows[q]])
  <2>1. idx'[p] <= upto[p]
    BY <1>2, <1>3, <1>4
  <2>2. \A q \in Page \ {p} : idx'[q] <= upto[q]
    BY <1>1, <1>4 DEF PageTypes
  <2> QED
    BY <1>1, <2>1, <2>2 DEF PageTypes
<1>8. PageTypes'
  BY <1>1, <1>4, <1>6, <1>7 DEF PageTypes
<1>9. PageInv(p)'
  <2>1. Shows(shown[p], idx[p], l)
    BY <1>2 DEF PageInv, Streaming
  <2>2. Shows(Append(shown[p], line), idx[p] + 1, l)
    BY <1>2, <1>3, <2>1, ShowsNext DEF line
  <2> QED
    BY <1>2, <1>4, <1>6, <2>2 DEF PageInv
<1>10. p \in TaskPage => TaskPageInv(p)'
  <2> SUFFICES ASSUME p \in TaskPage PROVE TaskPageInv(p)'
    OBVIOUS
  <2>1. Begins(shown[p], l) /\ Len(shown[p]) = idx[p]
    BY <1>2 DEF TaskPageInv, Streaming
  <2>2. Begins(Append(shown[p], line), l) /\ Len(Append(shown[p], line)) = idx[p] + 1
    <3> DEFINE r == Append(shown[p], line)
    <3>1. /\ Len(r) = idx[p] + 1 /\ r[idx[p] + 1] = l[idx[p] + 1]
          /\ \A k \in 1 .. idx[p] : r[k] = shown[p][k]
      BY <1>2, <1>3, <2>1, AppendProperties DEF line
    <3> HIDE DEF r
    <3>2. \A k \in 1 .. idx[p] : r[k] = l[k]
      BY <2>1, <3>1 DEF Begins
    <3>3. \A k \in 1 .. idx[p] + 1 : k \in 1 .. idx[p] \/ k = idx[p] + 1
      BY <1>2
    <3>4. \A k \in 1 .. Len(r) : r[k] = l[k]
      BY <3>1, <3>2, <3>3
    <3>5. Len(r) <= Len(l)
      BY <1>2, <1>3, <3>1
    <3> QED
      BY <3>1, <3>4, <3>5 DEF Begins, r
  <2> QED
    BY <1>2, <1>4, <1>6, <2>2 DEF TaskPageInv
<1> QED
  BY <1>4, <1>6, <1>8, <1>9, <1>10, PageStep

LEMMA DrainedStep ==
  ASSUME ConsoleInv, NEW p \in Page, Drained(p)
  PROVE  ConsoleInv'
<1> USE DEF Drained, entry
<1>1. PageTypes
  BY ConsoleParts
<1>2. PageInv(p) /\ (p \in TaskPage => TaskPageInv(p))
  BY PageFacts
<1>3. /\ sse'[p] = (IF p \in seen THEN "done" ELSE "poll")
      /\ \A q \in Page \ {p} : sse'[q] = sse[q]
      /\ sse' \in [Page -> Sses]
  BY <1>1, StreamGoes DEF Sses, Streaming
<1>4. PageTypes'
  BY <1>1, <1>3 DEF PageTypes, Sses
<1>5. PageInv(p)'
  BY <1>2, <1>3 DEF PageInv, Streaming
<1>6. p \in TaskPage => TaskPageInv(p)'
  BY <1>2, <1>3 DEF TaskPageInv, Streaming
<1> QED
  BY <1>3, <1>4, <1>5, <1>6, PageStep

LEMMA CutStep ==
  ASSUME ConsoleInv, NEW p \in Page, Cut(p)
  PROVE  ConsoleInv'
<1> USE DEF Cut, entry
<1>1. PageTypes
  BY ConsoleParts
<1>2. /\ PageInv(p) /\ cuts[p] \in 0 .. MaxCuts
      /\ p \in TaskPage => TaskPageInv(p)
  BY PageFacts
<1>3. /\ sse'[p] = (IF p \in TaskPage THEN "closed" ELSE "lost")
      /\ \A q \in Page \ {p} : sse'[q] = sse[q]
      /\ sse' \in [Page -> Sses]
  BY <1>1, StreamGoes DEF Sses, OnError
<1>4. cuts[p] + 1 \in 0 .. MaxCuts
  BY <1>2, TaskBoundsAssumption
<1>5. PageTypes'
  BY <1>1, <1>3, <1>4 DEF PageTypes, Sses
<1>6. PageInv(p)'
  BY <1>2, <1>3 DEF PageInv, Streaming
<1>7. p \in TaskPage => TaskPageInv(p)'
  BY <1>2, <1>3 DEF TaskPageInv, Streaming
<1> QED
  BY <1>3, <1>5, <1>6, <1>7, PageStep

LEMMA RestartStep == ASSUME ConsoleInv, Restart PROVE ConsoleInv'
<1> USE DEF Restart, exec, pipe
<1>1. TaskTypes /\ PageTypes
  BY ConsoleParts
<1>2. thread' \in [Task -> Threads] /\ \A t \in Task : thread'[t] \in {"none", "over"}
  BY DEF Threads
<1>3. TaskTypes'
  BY <1>1, <1>2 DEF TaskTypes
<1>4. /\ sse' \in [Page -> Sses]
      /\ \A p \in Page : sse'[p] \notin Streaming /\ (sse'[p] = sse[p] \/ sse'[p] = OnError(p))
  BY <1>1 DEF PageTypes, Sses, Streaming, OnError
<1>5. PageTypes'
  BY <1>1, <1>4 DEF PageTypes, Sses
<1>6. ASSUME NEW t \in Task PROVE TaskInv(t)'
  <2>1. PumpInv(t) /\ Pipe(wrote[t], taken[t], buffer[t], lines[t])
    BY TaskFacts
  <2>2. t \in done => thread'[t] = "over"
    BY <2>1 DEF PumpInv
  <2>3. PumpInv(t)'
    BY <1>2, <2>1, <2>2 DEF PumpInv, Read
  <2> QED
    BY <2>1, <2>3 DEF TaskInv
<1>7. ASSUME NEW p \in Page PROVE PageInv(p)'
  <2>1. PageInv(p)
    BY PageFacts
  <2> QED
    BY <1>4, <2>1 DEF PageInv, OnError
<1>8. ASSUME NEW p \in TaskPage PROVE TaskPageInv(p)'
  <2>1. TaskPageInv(p) /\ p \in Page
    BY PageFacts DEF Page
  <2> QED
    BY <1>4, <2>1 DEF TaskPageInv, OnError
<1> QED
  BY <1>3, <1>5, <1>6, <1>7, <1>8, ConsolePartsNext

LEMMA TasksNextInv == ConsoleInv /\ [TasksNext]_tasksVars => ConsoleInv'
<1> SUFFICES ASSUME ConsoleInv, [TasksNext]_tasksVars PROVE ConsoleInv'
  OBVIOUS
<1>1. ASSUME NEW t \in Task, Launch(t) \/ Pump(t) \/ Raise(t) \/ Exit(t) \/ \E c \in Channel : Write(t, c)
      PROVE  ConsoleInv'
  <2>1. CASE Pump(t)
    <3>1. CASE ReadLine(t, "out", "err")
      BY <3>1, ReadLineStep DEF Channel, Threads
    <3>2. CASE ReadLine(t, "err", "loop")
      BY <3>2, ReadLineStep DEF Channel, Threads
    <3> QED
      BY <2>1, <3>1, <3>2, ConnectStep, LoopStep, PeekStep, ReportStep, MarkDoneStep DEF Pump
  <2> QED
    BY <1>1, <2>1, LaunchStep, RaiseStep, ExitStep, WriteStep
<1>2. ASSUME NEW p \in Page, Subscribe(p) \/ Stream(p) \/ Cut(p)
      PROVE  ConsoleInv'
  BY <1>2, SubscribeStep, PollStep, SendStep, DrainedStep, CutStep DEF Stream
<1>3. CASE UNCHANGED tasksVars
  <2>1. UNCHANGED <<wrote, exited, link, taken, buffer, thread, known, lines, done,
                    shows, sse, idx, upto, seen, shown, cuts>>
    BY <1>3 DEF tasksVars, exec, pipe, entry, pages
  <2>2. TaskTypes' /\ PageTypes'
    BY <2>1, ConsoleParts DEF TaskTypes, PageTypes
  <2>3. \A t \in Task : TaskInv(t)'
    BY <2>1, ConsoleParts DEF TaskInv, PumpInv, Read
  <2>4. \A p \in Page : PageInv(p)'
    BY <2>1, ConsoleParts DEF PageInv
  <2>5. \A p \in TaskPage : TaskPageInv(p)'
    BY <2>1, ConsoleParts DEF TaskPageInv
  <2> QED
    BY <2>2, <2>3, <2>4, <2>5, ConsolePartsNext
<1> QED
  BY <1>1, <1>2, <1>3, RestartStep DEF TasksNext

-----------------------------------------------------------------------------
(* What the transcripts are.                                                 *)

\* ConsoleTasks.StoredInOrder of a task, from what the pump has of its output.
LEMMA InvStoredInOrder == ConsoleInv => StoredInOrder
<1> SUFFICES ASSUME ConsoleInv, NEW t \in Task
             PROVE  /\ \A i, j \in DOMAIN lines[t] :
                         i < j /\ SameChannel(t, lines[t][i], lines[t][j]) => lines[t][i] < lines[t][j]
                    /\ \A i \in DOMAIN lines[t], n \in DOMAIN wrote[t] :
                         n < lines[t][i] /\ SameChannel(t, n, lines[t][i]) => n \in Range(lines[t])
                    /\ t \in done /\ link[t] = "closed" /\ ErrorLine \notin Range(lines[t]) =>
                         DOMAIN wrote[t] \subseteq Range(lines[t])
  BY DEF StoredInOrder
<1>1. /\ wrote[t] \in Seq(Channel) /\ taken[t] \in Nat /\ buffer[t] \in Buffers
      /\ lines[t] \in Seq(Line) /\ Pipe(wrote[t], taken[t], buffer[t], lines[t]) /\ PumpInv(t)
  BY TaskFacts
<1>2. DOMAIN lines[t] = 1 .. Len(lines[t]) /\ DOMAIN wrote[t] = 1 .. Len(wrote[t])
  BY <1>1
<1>3. \A n : Has(lines[t], n) <=> n \in Range(lines[t])
  BY <1>2 DEF Has, Range
<1>4. ASSUME NEW i \in DOMAIN lines[t], NEW j \in DOMAIN lines[t], i < j,
             SameChannel(t, lines[t][i], lines[t][j])
      PROVE  lines[t][i] < lines[t][j]
  BY <1>1, <1>2, <1>4 DEF SameChannel, Pipe, InOrder
<1>5. ASSUME NEW i \in DOMAIN lines[t], NEW n \in DOMAIN wrote[t], n < lines[t][i],
             SameChannel(t, n, lines[t][i])
      PROVE  n \in Range(lines[t])
  <2> DEFINE m == lines[t][i]
  <2>1. /\ m \in 1 .. taken[t]
        /\ \A j \in 1 .. Len(buffer[t][wrote[t][m]]) : m < buffer[t][wrote[t][m]][j]
    BY <1>1, <1>2, <1>5 DEF SameChannel, Pipe, Before
  <2> HIDE DEF m
  <2>2. n < m /\ wrote[t][n] = wrote[t][m] /\ n \in 1 .. Len(wrote[t])
    BY <1>2, <1>5 DEF SameChannel, m
  <2>3. n \in 1 .. taken[t] /\ wrote[t][n] \in Channel
    BY <1>1, <2>1, <2>2
  <2>4. \A j \in 1 .. Len(buffer[t][wrote[t][n]]) : buffer[t][wrote[t][n]][j] \in Nat
    BY <1>1, <2>3, BufferTypes
  <2>5. ~Has(buffer[t][wrote[t][n]], n)
    <3> SUFFICES ASSUME NEW j \in 1 .. Len(buffer[t][wrote[t][n]]), buffer[t][wrote[t][n]][j] = n
                 PROVE  FALSE
      BY DEF Has
    <3>1. m < n
      BY <2>1, <2>2
    <3> QED
      BY <2>1, <2>2, <2>3, <3>1
  <2> QED
    BY <1>1, <1>3, <2>3, <2>5 DEF Pipe, Kept
<1>6. ASSUME t \in done, link[t] = "closed", ErrorLine \notin Range(lines[t])
      PROVE  DOMAIN wrote[t] \subseteq Range(lines[t])
  <2>1. taken[t] = Len(wrote[t]) /\ \A c \in Channel : buffer[t][c] = << >>
    BY <1>1, <1>3, <1>6 DEF PumpInv, Read
  <2> SUFFICES ASSUME NEW n \in DOMAIN wrote[t] PROVE n \in Range(lines[t])
    OBVIOUS
  <2>2. n \in 1 .. taken[t] /\ wrote[t][n] \in Channel
    BY <1>1, <1>2, <2>1
  <2>3. ~Has(buffer[t][wrote[t][n]], n)
    BY <2>1, <2>2 DEF Has
  <2> QED
    BY <1>1, <1>3, <2>2, <2>3 DEF Pipe, Kept
<1> QED
  BY <1>4, <1>5, <1>6

LEMMA InvDoneIsLast == ConsoleInv => DoneIsLast
<1> SUFFICES ASSUME ConsoleInv, NEW p \in Page, sse[p] = "done"
             PROVE  shows[p] \in done /\ IsSuffix(lines[shows[p]], shown[p])
  BY DEF DoneIsLast
<1>1. lines[shows[p]] \in Seq(Line) /\ shown[p] \in Seq(Line) /\ PageInv(p)
  BY PageFacts
<1>2. /\ shows[p] \in done
      /\ Shows(shown[p], Len(lines[shows[p]]), lines[shows[p]])
  BY <1>1 DEF PageInv
<1> QED
  BY <1>1, <1>2, SuffixByIndex

\* Where the pump, the pipe and the pages are accounts for every line.
THEOREM ConsoleInvCorrect == TasksSpec => []ConsoleInv
BY TasksInitInv, TasksNextInv, PTL DEF TasksSpec

\* app.py:195, 426, 1621 - for any agents and pages, and however much is written: each
\* channel is stored in order and without a gap, and a page is told that its task is
\* done after the last of its lines.
THEOREM TranscriptsCorrect == TasksSpec => []TasksInv
<1>1. ConsoleInv => TasksInv
  BY InvStoredInOrder, InvDoneIsLast DEF ConsoleInv, TasksInv
<1> QED
  BY <1>1, ConsoleInvCorrect, PTL

\* app.py:964 - for any number of broken connections and restarts, the task page shows
\* a beginning of its task's lines, and none of them twice.
THEOREM ShownOnceCorrect == TasksSpec => []ShownOnce
<1>1. ConsoleInv => ShownOnce
  <2> SUFFICES ASSUME ConsoleInv, NEW p \in TaskPage PROVE IsPrefix(shown[p], lines[shows[p]])
    BY DEF ShownOnce
  <2>1. lines[shows[p]] \in Seq(Line) /\ shown[p] \in Seq(Line) /\ TaskPageInv(p)
    BY PageFacts DEF Page
  <2> QED
    BY <2>1, PrefixByIndex DEF TaskPageInv
<1> QED
  BY <1>1, ConsoleInvCorrect, PTL
===============================================================================
