-------------------------- MODULE ConsoleAgentsProofs --------------------------
(***************************************************************************)
(* What holds of the console's agents for any number of agents and restarts, *)
(* and of the shells in their sandboxes, for any number of pages and          *)
(* descriptors, and whatever is typed, pasted and written.                    *)
(***************************************************************************)
EXTENDS AgentLifecycle, WebShell, SequenceTheorems, TLAPS

\* The file, like memory, records tasks only under agents; once a write failed
\* no other is tried.
FileInv == /\ \A a \in file.tasks : file.agents[a] # "none"
           /\ disabled => ~diskOk

\* An agent that is being created is in neither memory nor file.
MakingInv == \A a \in Agent :
  making[a] # "over" => agents[a] = "none" /\ file.agents[a] = "none"

\* The reaper is only at agents of its list, and only the reaper, which then
\* drops it from the list, makes an agent an ERROR.
ListInv == \A a \in Agent :
  /\ found[a] # "nothing" => listed[a] # "none"
  /\ listed[a] # "none" => agents[a] # "ERROR"

Inv == TypeOK /\ Durable /\ FileInv /\ MakingInv /\ ListInv

File == [agents : [Agent -> States], tasks : SUBSET Agent]

-----------------------------------------------------------------------------

LEMMA InitInv == Init => Inv
<1> SUFFICES ASSUME Init PROVE Inv
  OBVIOUS
<1>0. Nobody \in [Agent -> States] /\ \A a \in Agent : Nobody[a] = "none"
  BY DEF Nobody, States
<1>1. TypeOK
  <2>1. file \in File /\ tasks \subseteq Agent
    BY <1>0, Zenon DEF Init, File
  <2>2. listed \in [Agent -> Active \union {"none"}] /\ box \in [Agent -> Phases]
    BY DEF Init, Nobody, Active, Phases
  <2>3. grant \in [Agent -> 0 .. GrantLife] /\ restarts \in 0 .. MaxRestarts
    BY BoundsAssumption DEF Init
  <2>4. /\ making \in [Agent -> {"no", "launch", "consent", "repo", "over"}]
        /\ found \in [Agent -> {"nothing", "READY", "ERROR", "UNKNOWN", "renew"}]
        /\ launcher \in [Agent -> {"idle", "create", "grant", "ok", "failed"}]
        /\ disabled \in BOOLEAN /\ diskOk \in BOOLEAN
        /\ deleting \subseteq Agent
    BY DEF Init
  <2> QED
    BY <1>0, <2>1, <2>2, <2>3, <2>4, Zenon DEF Init, TypeOK, File
<1>2. Durable /\ FileInv
  BY SMT DEF Init, Durable, FileInv
<1>3. MakingInv /\ ListInv
  BY <1>0, SMT DEF Init, MakingInv, ListInv
<1> QED
  BY <1>1, <1>2, <1>3 DEF Inv

-----------------------------------------------------------------------------
(* What the steps have in common.                                            *)

\* A change of the store that is saved, or is not, leaves a store in order: a
\* file that is as memory now is, or as it was if the disk failed.
LEMMA SaveOk ==
  ASSUME NEW as \in [Agent -> States], NEW ts \in SUBSET Agent, Inv,
         agents' = as, tasks' = ts, Save(as, ts),
         \A a \in ts : as[a] # "none"
  PROVE  /\ disabled' \in BOOLEAN /\ diskOk' \in BOOLEAN
         /\ file' \in [agents : [Agent -> States], tasks : SUBSET Agent]
         /\ Durable' /\ FileInv'
         /\ \A a \in Agent : as[a] = "none" /\ file.agents[a] = "none"
                               => file'.agents[a] = "none"
<1> DEFINE new == [agents |-> as, tasks |-> ts]
<1>1. new \in File /\ new.agents = as /\ new.tasks = ts
  BY DEF File
<1>2. /\ file \in File /\ disabled \in BOOLEAN /\ diskOk \in BOOLEAN
  BY Zenon DEF Inv, TypeOK, File
<1>3. file' = new \/ file' = file
  BY Zenon DEF Save
<1>4. /\ disabled' \in BOOLEAN /\ diskOk' \in BOOLEAN
      /\ diskOk' => file' = new
      /\ disabled' => ~diskOk'
  <2>1. disabled => ~diskOk
    BY DEF Inv, FileInv
  <2>2. CASE ~disabled /\ file' = new /\ UNCHANGED <<disabled, diskOk>>
    BY <1>2, <2>1, <2>2
  <2>3. CASE ~disabled /\ disabled' = TRUE /\ diskOk' = FALSE /\ UNCHANGED file
    BY <2>3
  <2>4. CASE disabled /\ UNCHANGED <<file, disabled, diskOk>>
    BY <1>2, <2>1, <2>4
  <2> QED
    BY <2>2, <2>3, <2>4, Zenon DEF Save
<1>5. \A a \in file.tasks : file.agents[a] # "none"
  BY Zenon DEF Inv, FileInv
<1> HIDE DEF new
<1>6. \A a \in file'.tasks : file'.agents[a] # "none"
  BY <1>1, <1>3, <1>5
<1>7. Durable'
  BY <1>4 DEF Durable, new
<1>8. \A a \in Agent : as[a] = "none" /\ file.agents[a] = "none"
                         => file'.agents[a] = "none"
  BY <1>1, <1>3
<1> QED
  BY <1>1, <1>2, <1>3, <1>4, <1>6, <1>7, <1>8, Zenon DEF FileInv, File

\* Where the store rests, it stays in order.
LEMMA StoreRests ==
  ASSUME Inv, UNCHANGED store
  PROVE  Durable' /\ FileInv'
  BY DEF Inv, Durable, FileInv, store

LEMMA NobodyOk == /\ Nobody \in [Agent -> States]
                  /\ Nobody \in [Agent -> Active \union {"none"}]
                  /\ \A a \in Agent : Nobody[a] = "none"
  BY DEF Nobody, States, Active
-----------------------------------------------------------------------------
(* The invariant in two halves: the store in order, all else well typed.     *)

StoreOk == /\ agents \in [Agent -> States] /\ tasks \in SUBSET Agent
           /\ disabled \in BOOLEAN /\ diskOk \in BOOLEAN
           /\ file \in [agents : [Agent -> States], tasks : SUBSET Agent]
           /\ Durable /\ FileInv

RestOk ==
  /\ making \in [Agent -> {"no", "launch", "consent", "repo", "over"}]
  /\ deleting \in SUBSET Agent
  /\ listed \in [Agent -> Active \union {"none"}]
  /\ found \in [Agent -> {"nothing", "READY", "ERROR", "UNKNOWN", "renew"}]
  /\ launcher \in [Agent -> {"idle", "create", "grant", "ok", "failed"}]
  /\ box \in [Agent -> Phases]
  /\ grant \in [Agent -> 0 .. GrantLife]
  /\ restarts \in 0 .. MaxRestarts

\* Who is not in memory after the step is not newly in the file.
FileFollows == \A a \in Agent : agents'[a] = "none" /\ file.agents[a] = "none"
                                  => file'.agents[a] = "none"

LEMMA Halves == Inv <=> StoreOk /\ RestOk /\ MakingInv /\ ListInv
  BY Zenon DEF Inv, TypeOK, StoreOk, RestOk

LEMMA Rests ==
  ASSUME Inv, UNCHANGED store
  PROVE  StoreOk' /\ FileFollows /\ agents' = agents /\ file' = file
<1>1. StoreOk
  BY Halves
<1> QED
  BY <1>1 DEF store, StoreOk, Durable, FileInv, FileFollows

LEMMA Updates ==
  ASSUME Inv, NEW a \in Agent, NEW state \in States \ {"none"}, Update(a, state)
  PROVE  StoreOk' /\ FileFollows /\ agents' = [agents EXCEPT ![a] = state]
<1>1. agents \in [Agent -> States] /\ tasks \in SUBSET Agent
  BY Zenon DEF Inv, TypeOK
<1> DEFINE as == [agents EXCEPT ![a] = state]
<1>2. as \in [Agent -> States]
  BY <1>1
<1>3. agents' = as /\ tasks' = tasks /\ Save(as, tasks)
  BY DEF Update
<1>4. \A b \in tasks : as[b] # "none"
  BY <1>1 DEF Inv, Durable
<1> HIDE DEF as
<1>5. /\ disabled' \in BOOLEAN /\ diskOk' \in BOOLEAN
      /\ file' \in [agents : [Agent -> States], tasks : SUBSET Agent]
      /\ Durable' /\ FileInv'
      /\ \A b \in Agent : as[b] = "none" /\ file.agents[b] = "none"
                            => file'.agents[b] = "none"
  BY <1>1, <1>2, <1>3, <1>4, SaveOk
<1>6. StoreOk'
  BY <1>1, <1>2, <1>3, <1>5 DEF StoreOk
<1>7. FileFollows
  BY <1>3, <1>5 DEF FileFollows
<1> QED
  BY <1>3, <1>6, <1>7 DEF as

\* No step takes what the other half says out of order.
Good == RestOk /\ MakingInv /\ ListInv

\* The steps that leave the store alone.
LEMMA QuietStep ==
  ASSUME Inv, UNCHANGED store,
         \/ \E a \in Agent :
              \/ Launcher(a) \/ Create(a) \/ Launched(a) \/ NotLaunched(a)
              \/ Consent(a) \/ Delete(a) \/ Check(a) \/ Skip(a)
              \/ StillReady(a) \/ Renew(a) \/ Sandbox(a)
         \/ BeginPass \/ Tick \/ UNCHANGED vars
  PROVE  Good'
<1>0. RestOk /\ MakingInv /\ ListInv
  BY Halves
<1>1. agents' = agents /\ file' = file
  BY DEF store
<1>2. GrantLife \in 0 .. GrantLife
  BY BoundsAssumption
<1> USE <1>0, <1>1, <1>2 DEF Good, RestOk, MakingInv, ListInv, cluster, reaper
<1>3. ASSUME NEW a \in Agent, LauncherCreates(a)
      PROVE  Good'
  BY <1>3, SMT DEF LauncherCreates, Phases
<1>4. ASSUME NEW a \in Agent, LauncherGrants(a)
      PROVE  Good'
  BY <1>4, SMT DEF LauncherGrants, WriteGrant
<1>5. ASSUME NEW a \in Agent, Create(a)
      PROVE  Good'
  BY <1>5, SMT DEF Create
<1>6. ASSUME NEW a \in Agent, Launched(a)
      PROVE  Good'
  BY <1>6, SMT DEF Launched
<1>7. ASSUME NEW a \in Agent, NotLaunched(a)
      PROVE  Good'
  BY <1>7, SMT DEF NotLaunched
<1>8. ASSUME NEW a \in Agent, Consent(a)
      PROVE  Good'
  BY <1>8, SMT DEF Consent, WriteGrant
<1>9. ASSUME NEW a \in Agent, Delete(a)
      PROVE  Good'
  BY <1>9, SMT DEF Delete
<1>10. ASSUME NEW a \in Agent, Check(a)
      PROVE  Good'
  BY <1>10, SMT DEF Check, Answer
<1>11. ASSUME NEW a \in Agent, Skip(a)
      PROVE  Good'
  BY <1>11, SMT DEF Skip, Pass
<1>12. ASSUME NEW a \in Agent, StillReady(a)
      PROVE  Good'
  BY <1>12, SMT DEF StillReady
<1>13. ASSUME NEW a \in Agent, Renew(a)
      PROVE  Good'
  BY <1>13, SMT DEF Renew, WriteGrant, Pass
<1>14. ASSUME NEW a \in Agent, Sandbox(a)
      PROVE  Good'
  BY <1>14, SMT DEF Sandbox, Phases
<1>15. CASE BeginPass
  BY <1>15, SMT DEF BeginPass, Idle, List, Nobody, Active
<1>16. CASE Tick
  BY <1>16, SMT DEF Tick
<1>17. CASE UNCHANGED vars
  BY <1>17, SMT DEF vars
<1> QED
  BY <1>3, <1>4, <1>5, <1>6, <1>7, <1>8, <1>9, <1>10, <1>11, <1>12, <1>13, <1>14, <1>15, <1>16, <1>17, Zenon DEF Launcher

\* The steps that update one agent: their effect on the rest, given what an
\* update does to the store.
LEMMA UpdateStep ==
  ASSUME Inv, NEW a \in Agent,
         Created(a) \/ Archive(a) \/ MarkError(a) \/ MarkReady(a)
  PROVE  StoreOk' /\ Good'
<1>0. RestOk /\ MakingInv /\ ListInv /\ agents \in [Agent -> States]
  BY Halves DEF StoreOk
<1>1. CASE UNCHANGED store /\ Pass(a) /\ UNCHANGED <<making, deleting, cluster, restarts>>
  <2>1. StoreOk' /\ agents' = agents /\ file' = file
    BY <1>1, Rests
  <2>2. RestOk'
    BY <1>0, <1>1, SMT DEF RestOk, cluster, Pass
  <2>3. MakingInv' /\ ListInv'
    BY <1>0, <1>1, <2>1, SMT DEF RestOk, MakingInv, ListInv, Pass
  <2> QED
    BY <2>1, <2>2, <2>3 DEF Good
<1>2. CASE Created(a)
  <2>1. /\ StoreOk' /\ FileFollows /\ agents' = [agents EXCEPT ![a] = "PROVISIONING"]
    BY <1>2, Updates DEF Created, States
  <2>2. Good'
    BY <1>0, <1>2, <2>1, SMT
       DEF Created, Good, RestOk, MakingInv, ListInv, cluster, reaper, FileFollows
  <2> QED
    BY <2>1, <2>2
<1>3. CASE Archive(a)
  <2>1. /\ StoreOk' /\ FileFollows /\ agents' = [agents EXCEPT ![a] = "ARCHIVED"]
    BY <1>3, Updates DEF Archive, States
  <2>2. Good'
    BY <1>0, <1>3, <2>1, SMT
       DEF Archive, Good, RestOk, MakingInv, ListInv, cluster, reaper, FileFollows
  <2> QED
    BY <2>1, <2>2
<1>4. CASE MarkError(a) /\ Stored(a) /\ Update(a, "ERROR")
  <2>1. /\ StoreOk' /\ FileFollows /\ agents' = [agents EXCEPT ![a] = "ERROR"]
    BY <1>4, Updates DEF States
  <2>2. Good'
    BY <1>0, <1>4, <2>1, SMT
       DEF MarkError, Stored, Pass, Good, RestOk, MakingInv, ListInv, cluster, FileFollows
  <2> QED
    BY <2>1, <2>2
<1>5. CASE /\ MarkReady(a) /\ Stored(a) /\ Update(a, "READY")
           /\ found' = [found EXCEPT ![a] = "renew"] /\ UNCHANGED listed
  <2>1. /\ StoreOk' /\ FileFollows /\ agents' = [agents EXCEPT ![a] = "READY"]
    BY <1>5, Updates DEF States
  <2>2. Good'
    BY <1>0, <1>5, <2>1, SMT
       DEF MarkReady, Stored, Good, RestOk, MakingInv, ListInv, cluster, FileFollows
  <2> QED
    BY <2>1, <2>2
<1> QED
  BY <1>1, <1>2, <1>3, <1>4, <1>5, Zenon DEF MarkError, MarkReady

LEMMA StartTaskStep ==
  ASSUME Inv, NEW a \in Agent, StartTask(a)
  PROVE  StoreOk' /\ Good'
<1>0. /\ RestOk /\ MakingInv /\ ListInv
      /\ agents \in [Agent -> States] /\ tasks \in SUBSET Agent
  BY Halves DEF StoreOk
<1> DEFINE ts == tasks \union {a}
<1>1. agents' = agents /\ tasks' = ts /\ Save(agents, ts) /\ ts \in SUBSET Agent
  BY <1>0 DEF StartTask
<1>2. \A b \in ts : agents[b] # "none"
  BY DEF StartTask, Active, Inv, Durable
<1> HIDE DEF ts
<1>3. /\ disabled' \in BOOLEAN /\ diskOk' \in BOOLEAN
      /\ file' \in [agents : [Agent -> States], tasks : SUBSET Agent]
      /\ Durable' /\ FileInv'
      /\ \A b \in Agent : agents[b] = "none" /\ file.agents[b] = "none"
                            => file'.agents[b] = "none"
  BY <1>0, <1>1, <1>2, SaveOk
<1>4. StoreOk'
  BY <1>0, <1>1, <1>3 DEF StoreOk
<1>5. UNCHANGED <<making, deleting, reaper, cluster, restarts>>
  BY DEF StartTask
<1>6. Good'
  BY <1>0, <1>1, <1>3, <1>5, SMT DEF Good, RestOk, MakingInv, ListInv, reaper, cluster
<1> QED
  BY <1>4, <1>6

LEMMA DeletedStep ==
  ASSUME Inv, NEW a \in Agent, Deleted(a)
  PROVE  StoreOk' /\ Good'
<1>0. /\ RestOk /\ MakingInv /\ ListInv
      /\ agents \in [Agent -> States] /\ tasks \in SUBSET Agent
  BY Halves DEF StoreOk
<1> DEFINE as == [agents EXCEPT ![a] = "none"]
           ts == tasks \ {a}
<1>1. /\ agents' = as /\ tasks' = ts /\ Save(as, ts)
      /\ as \in [Agent -> States] /\ ts \in SUBSET Agent
  BY <1>0 DEF Deleted, States
<1>2. \A b \in ts : as[b] # "none"
  BY <1>0 DEF Inv, Durable
<1>3. \A b \in Agent : as[b] = "none" \/ as[b] = agents[b]
  BY <1>0
<1> HIDE DEF as, ts
<1>4. /\ disabled' \in BOOLEAN /\ diskOk' \in BOOLEAN
      /\ file' \in [agents : [Agent -> States], tasks : SUBSET Agent]
      /\ Durable' /\ FileInv'
      /\ \A b \in Agent : as[b] = "none" /\ file.agents[b] = "none"
                            => file'.agents[b] = "none"
  BY <1>1, <1>2, SaveOk
<1>5. StoreOk'
  BY <1>1, <1>4 DEF StoreOk
<1>6. /\ UNCHANGED <<making, reaper, cluster, restarts>>
      /\ deleting' = deleting \ {a}
  BY DEF Deleted
<1>7. RestOk'
  BY <1>0, <1>6, SMT DEF RestOk, reaper, cluster
<1>8. MakingInv'
  <2> SUFFICES ASSUME NEW b \in Agent, making'[b] # "over"
               PROVE  agents'[b] = "none" /\ file'.agents[b] = "none"
    BY DEF MakingInv
  <2>1. agents[b] = "none" /\ file.agents[b] = "none"
    BY <1>0, <1>6 DEF MakingInv
  <2> QED
    BY <1>1, <1>3, <1>4, <2>1
<1>9. ListInv'
  <2> SUFFICES ASSUME NEW b \in Agent
               PROVE  /\ found'[b] # "nothing" => listed'[b] # "none"
                      /\ listed'[b] # "none" => agents'[b] # "ERROR"
    BY DEF ListInv
  <2>1. found' = found /\ listed' = listed
    BY <1>6 DEF reaper
  <2> QED
    BY <1>0, <1>1, <1>3, <2>1 DEF ListInv
<1> QED
  BY <1>5, <1>7, <1>8, <1>9 DEF Good

LEMMA RestartStep ==
  ASSUME Inv, Restart
  PROVE  StoreOk' /\ Good'
<1>0. /\ RestOk /\ MakingInv /\ ListInv
      /\ file \in File /\ FileInv
  BY Halves, Zenon DEF StoreOk, File
<1>1. file.agents \in [Agent -> States] /\ file.tasks \in SUBSET Agent
  BY <1>0 DEF File
<1>2. file' = file /\ disabled' = FALSE
  BY DEF Restart
<1>3. Good'
  <2>1. \A a \in Agent : making'[a] # "over" => agents'[a] = "none"
                                                /\ file.agents[a] = "none"
    BY <1>0, <1>1, NobodyOk, SMT DEF Restart, RestOk, MakingInv
  <2>2. MakingInv'
    BY <1>2, <2>1 DEF MakingInv
  <2>3. \A a \in Agent : listed'[a] = "none" /\ found'[a] = "nothing"
    BY NobodyOk DEF Restart
  <2>4. ListInv'
    BY <2>3 DEF ListInv
  <2>5. RestOk'
    BY <1>0, NobodyOk, BoundsAssumption, SMT DEF Restart, RestOk, cluster
  <2> QED
    BY <2>2, <2>4, <2>5 DEF Good
<1>4. CASE agents' = file.agents /\ tasks' = file.tasks /\ diskOk' = TRUE
  <2>1. file = [agents |-> file.agents, tasks |-> file.tasks]
    BY <1>0 DEF File
  <2>2. Durable' /\ FileInv'
    BY <1>0, <1>2, <1>4, <2>1 DEF Durable, FileInv
  <2>3. StoreOk'
    BY <1>0, <1>1, <1>2, <1>4, <2>2 DEF StoreOk, File
  <2> QED
    BY <1>3, <2>3
<1>5. CASE agents' = Nobody /\ tasks' = {} /\ diskOk' = FALSE
  <2>1. Durable' /\ FileInv'
    BY <1>0, <1>2, <1>5 DEF Durable, FileInv
  <2>2. StoreOk'
    BY <1>0, <1>2, <1>5, <2>1, NobodyOk DEF StoreOk, File
  <2> QED
    BY <1>3, <2>2
<1> QED
  BY <1>4, <1>5, Zenon DEF Restart

-----------------------------------------------------------------------------

LEMMA NextInv == Inv /\ [Next]_vars => Inv'
<1> SUFFICES ASSUME Inv, [Next]_vars PROVE StoreOk' /\ Good'
  BY Halves, PTL DEF Good
<1>1. ASSUME UNCHANGED store,
             \/ \E a \in Agent :
                  \/ Launcher(a) \/ Create(a) \/ Launched(a) \/ NotLaunched(a)
                  \/ Consent(a) \/ Delete(a) \/ Check(a) \/ Skip(a)
                  \/ StillReady(a) \/ Renew(a) \/ Sandbox(a)
             \/ BeginPass \/ Tick \/ UNCHANGED vars
      PROVE  StoreOk' /\ Good'
  BY <1>1, QuietStep, Rests
<1>2. ASSUME NEW a \in Agent,
             \/ Launcher(a) \/ Create(a) \/ Launched(a) \/ NotLaunched(a)
             \/ Consent(a) \/ Delete(a) \/ Check(a) \/ Skip(a)
             \/ StillReady(a) \/ Renew(a) \/ Sandbox(a)
      PROVE  UNCHANGED store
  BY <1>2, Zenon DEF Launcher, LauncherCreates, LauncherGrants, Create, Launched,
     NotLaunched, Consent, Delete, Check, Skip, StillReady, Renew, Sandbox
<1>3. BeginPass \/ Tick \/ UNCHANGED vars => UNCHANGED store
  BY Zenon DEF BeginPass, Tick, vars
<1>4. ASSUME NEW a \in Agent,
             \/ Created(a) \/ Archive(a) \/ MarkError(a) \/ MarkReady(a)
             \/ StartTask(a) \/ Deleted(a)
      PROVE  StoreOk' /\ Good'
  BY <1>4, UpdateStep, StartTaskStep, DeletedStep
<1> QED
  BY <1>1, <1>2, <1>3, <1>4, RestartStep, Zenon DEF Next, Request, Reap

\* The inductive invariant: the store in order, agents that are being created in
\* neither memory nor file, the reaper at agents of its list.
THEOREM InvCorrect == Spec => []Inv
  BY InitInv, NextInv, PTL DEF Spec

\* Every reachable state is well typed.
THEOREM TypeCorrect == Spec => []TypeOK
  BY InvCorrect, PTL DEF Inv

\* As long as the disk works, a restart brings back what the requests were told.
THEOREM DurableCorrect == Spec => []Durable
  BY InvCorrect, PTL DEF Inv

-----------------------------------------------------------------------------

\* One step of the lifecycle, as the action of the property Lifecycle.
LifecycleStep ==
  diskOk => \A a \in Agent :
    \/ Onward(agents[a], agents'[a])
    \/ agents[a] = "none" /\ making[a] = "repo" /\ agents'[a] = "PROVISIONING"
    \/ agents[a] = "ARCHIVED" /\ listed[a] # "none" /\ agents'[a] \in {"READY", "ERROR"}

LEMMA StepOnward == Inv /\ [Next]_vars => [LifecycleStep]_vars
<1> SUFFICES ASSUME Inv, Next, diskOk, NEW b \in Agent
             PROVE  \/ Onward(agents[b], agents'[b])
                    \/ /\ agents[b] = "none" /\ making[b] = "repo"
                       /\ agents'[b] = "PROVISIONING"
                    \/ /\ agents[b] = "ARCHIVED" /\ listed[b] # "none"
                       /\ agents'[b] \in {"READY", "ERROR"}
  BY DEF LifecycleStep
<1>0. /\ agents \in [Agent -> States] /\ listed \in [Agent -> Active \union {"none"}]
      /\ MakingInv /\ ListInv /\ file.agents = agents
  BY DEF Inv, TypeOK, Durable
<1>1. CASE agents' = agents
  BY <1>1 DEF Onward
<1>2. ASSUME NEW a \in Agent, Created(a) \/ Archive(a) \/ MarkError(a) \/ MarkReady(a),
             agents' # agents
      PROVE  \/ /\ agents[a] = "none" /\ making[a] = "repo"
                /\ agents' = [agents EXCEPT ![a] = "PROVISIONING"]
             \/ /\ agents[a] \notin {"none", "ARCHIVED"}
                /\ agents' = [agents EXCEPT ![a] = "ARCHIVED"]
             \/ /\ agents[a] # "none" /\ found[a] # "nothing"
                /\ agents' = [agents EXCEPT ![a] = "ERROR"]
             \/ /\ agents[a] # "none" /\ found[a] # "nothing" /\ listed[a] = "PROVISIONING"
                /\ agents' = [agents EXCEPT ![a] = "READY"]
  <2>1. CASE Created(a)
    BY <1>0, <2>1 DEF Created, Update, MakingInv
  <2>2. CASE Archive(a)
    BY <2>2 DEF Archive, Update
  <2>3. CASE MarkError(a)
    BY <1>2, <2>3 DEF MarkError, Stored, Update, store
  <2>4. CASE MarkReady(a)
    BY <1>2, <2>4 DEF MarkReady, Stored, Update, store
  <2> QED
    BY <1>2, <2>1, <2>2, <2>3, <2>4
<1>3. ASSUME NEW a \in Agent, Created(a) \/ Archive(a) \/ MarkError(a) \/ MarkReady(a),
             agents' # agents
      PROVE  \/ Onward(agents[b], agents'[b])
             \/ /\ agents[b] = "none" /\ making[b] = "repo"
                /\ agents'[b] = "PROVISIONING"
             \/ /\ agents[b] = "ARCHIVED" /\ listed[b] # "none"
                /\ agents'[b] \in {"READY", "ERROR"}
  BY <1>0, <1>2, <1>3, SMT DEF Onward, ListInv, States, Active
<1>4. ASSUME NEW a \in Agent, Deleted(a)
      PROVE  Onward(agents[b], agents'[b])
  BY <1>0, <1>4 DEF Deleted, Onward
<1>5. CASE Restart
  BY <1>0, <1>5, NobodyOk DEF Restart, Onward
<1>6. ASSUME NEW a \in Agent,
             \/ Launcher(a) \/ Create(a) \/ Launched(a) \/ NotLaunched(a)
             \/ Consent(a) \/ Delete(a) \/ Check(a) \/ Skip(a) \/ StartTask(a)
             \/ StillReady(a) \/ Renew(a) \/ Sandbox(a)
      PROVE  agents' = agents
  BY <1>6, Zenon DEF Launcher, LauncherCreates, LauncherGrants, Create, Launched,
     NotLaunched, Consent, Delete, Check, Skip, StillReady, Renew, Sandbox,
     StartTask, store
<1>7. BeginPass \/ Tick => agents' = agents
  BY Zenon DEF BeginPass, Tick, store
<1> QED
  BY <1>1, <1>3, <1>4, <1>5, <1>6, <1>7, Zenon DEF Next, Request, Reap

\* Nobody takes an agent off its lifecycle but a pass of the reaper that listed
\* it before it was archived, as long as the disk works.
THEOREM LifecycleCorrect == Spec => Lifecycle
<1>1. Inv /\ [Next]_vars => [LifecycleStep]_vars
  BY StepOnward
<1>2. Lifecycle <=> [][LifecycleStep]_vars
  BY DEF Lifecycle, LifecycleStep
<1> QED
  BY <1>1, <1>2, InvCorrect, PTL DEF Spec

-----------------------------------------------------------------------------
(* The shells: what is at each place of a bridge, and whose descriptors are.  *)

\* The sequence q goes on from a.
RunsOn(q, a) == \A i \in 1 .. Len(q) : q[i] = a + i

Held(s) == bridge[s] \in {"exec", "pump", "stop"}
Before(s) == bridge[s] \in {"none", "accepted", "exec"}

\* A descriptor is the terminal of the one bridge that holds it, and is watched while
\* that one pumps.
FdInv == \A s \in Shell :
  /\ fd[s] # None <=> Held(s)
  /\ \A f \in Fd : /\ owner[f] = s <=> fd[s] = f
                   /\ reader[f] = s <=> fd[s] = f /\ bridge[s] = "pump"

\* What there is at each place of open_bridge.
PlaceInv(s) ==
  /\ Before(s) => child[s] = "none"
  /\ bridge[s] = "pump" => child[s] \in {"alive", "dead"}
  /\ bridge[s] = "stop" => child[s] = "dead"
  /\ bridge[s] = "closed" => child[s] \in {"none", "reaped"} /\ down[s] = << >>
  /\ bridge[s] # "pump" => rest[s] = << >> /\ pump[s] = {} /\ queue[s] = << >>
  /\ Before(s) => /\ input[s] = << >> /\ output[s] = << >> /\ down[s] = << >>
                  /\ taken[s] = << >> /\ written[s] = << >> /\ shown[s] = << >>

\* What the page and its bridge know of each other.
PageInv(s) ==
  /\ bridge[s] = "none" => page[s] = "connecting"
  /\ page[s] = "closed" => bridge[s] = "closed"
  /\ bridge[s] = "closed" => page[s] \in {"closed", "left"}
  /\ page[s] = "connecting" => up[s] = << >>
  /\ page[s] \in {"open", "left"} => outQueue[s] = << >>
  /\ \A i \in 1 .. Len(up[s]) : "bye" \in DOMAIN up[s][i] => page[s] = "left"
  /\ bridge[s] = "pump" /\ "in" \notin pump[s] => page[s] = "left"

IsSize(frame) == "resize" \in DOMAIN frame

Sized(q) == \E i \in 1 .. Len(q) : IsSize(q[i])
LastSize(q, w) == \A i \in 1 .. Len(q) :
  IsSize(q[i]) /\ (\A j \in i + 1 .. Len(q) : ~IsSize(q[j])) => q[i].resize = w

\* The last size on its way is the window's, and so is the terminal's if there is none.
SizeInv(s) == page[s] = "open" /\ (Before(s) \/ bridge[s] = "pump") =>
  /\ Sized(up[s]) \/ (bridge[s] = "pump" /\ size[s] = win[s])
  /\ LastSize(up[s], win[s])

HasKeys(frame) == "keys" \in DOMAIN frame

\* A frame takes the count of keys from m to n.
Piece(frame, m, n) == IF HasKeys(frame) THEN /\ RunsOn(frame.keys, m)
                                             /\ n = m + Len(frame.keys)
                                        ELSE n = m

\* The frames of q bring the keys after a, up to z.
Bring(q, a, z) ==
  /\ \E e \in [0 .. Len(q) -> Nat] :
       /\ e[0] = a /\ e[Len(q)] = z
       /\ \A i \in 1 .. Len(q) : Piece(q[i], e[i - 1], e[i])
  /\ \A n \in Nat : a < n /\ n <= z =>
       \E i \in 1 .. Len(q) : HasKeys(q[i]) /\ n \in Range(q[i].keys)

Past(s) == Len(taken[s]) + Len(input[s]) + Len(rest[s])

\* Every key that was typed is on its way, in order, until oc is gone.
KeysInv(s) ==
  /\ RunsOn(taken[s], 0)
  /\ Before(s) \/ child[s] = "alive" =>
       /\ RunsOn(input[s], Len(taken[s]))
       /\ RunsOn(rest[s], Len(taken[s]) + Len(input[s]))
       /\ page[s] = "connecting" => Past(s) = 0 /\ Bring(Typed(s), 0, typed[s])
       /\ page[s] \in {"open", "left"} => Bring(up[s], Past(s), typed[s])

\* The output queue q: whether the end is noted, how many chunks come before, and that
\* they go on from a.
Ended(q) == q # << >> /\ q[Len(q)] = Eof
Words(q) == IF Ended(q) THEN Len(q) - 1 ELSE Len(q)
Says(q, a) == \A i \in 1 .. Words(q) : q[i] = a + i

Sent(s)  == Len(shown[s]) + Len(down[s])

\* Every chunk that was written is on its way, in order, unless the page has left.
WordsInv(s) ==
  /\ RunsOn(written[s], 0)
  /\ page[s] # "left" =>
       /\ RunsOn(shown[s], 0) /\ RunsOn(down[s], Len(shown[s]))
       /\ "out" \in pump[s] =>
            /\ Says(queue[s], Sent(s))
            /\ RunsOn(output[s], Sent(s) + Words(queue[s]))
            /\ Sent(s) + Words(queue[s]) + Len(output[s]) = Len(written[s])
            /\ Ended(queue[s]) => output[s] = << >> /\ child[s] # "alive"
       /\ "out" \notin pump[s] => Sent(s) = Len(written[s]) /\ child[s] # "alive"

BridgeInv ==
  /\ ShellTypeOK /\ FdInv
  /\ \A s \in Shell : PlaceInv(s) /\ PageInv(s) /\ SizeInv(s) /\ KeysInv(s) /\ WordsInv(s)

-----------------------------------------------------------------------------
(* Sequences that go on.                                                     *)

LEMMA RunsAppend ==
  ASSUME NEW q \in Seq(Nat), NEW a \in Nat, RunsOn(q, a)
  PROVE  /\ RunsOn(Append(q, a + Len(q) + 1), a)
         /\ Append(q, a + Len(q) + 1) \in Seq(Nat)
         /\ Len(Append(q, a + Len(q) + 1)) = Len(q) + 1
<1>1. Len(q) \in Nat /\ a + Len(q) + 1 \in Nat
  OBVIOUS
<1> DEFINE r == Append(q, a + Len(q) + 1)
<1>2. /\ r \in Seq(Nat) /\ Len(r) = Len(q) + 1 /\ r[Len(q) + 1] = a + Len(q) + 1
      /\ \A i \in 1 .. Len(q) : r[i] = q[i]
  BY <1>1, AppendProperties
<1> HIDE DEF r
<1>3. ASSUME NEW i \in 1 .. Len(r) PROVE r[i] = a + i
  <2>1. CASE i \in 1 .. Len(q)
    BY <1>2, <2>1 DEF RunsOn
  <2>2. CASE i = Len(q) + 1
    BY <1>1, <1>2, <2>2
  <2> QED
    BY <1>1, <1>2, <2>1, <2>2
<1> QED
  BY <1>2, <1>3 DEF RunsOn, r

LEMMA RunsConcat ==
  ASSUME NEW q \in Seq(Nat), NEW r \in Seq(Nat), NEW a \in Nat,
         RunsOn(q, a), RunsOn(r, a + Len(q))
  PROVE  RunsOn(q \o r, a) /\ q \o r \in Seq(Nat) /\ Len(q \o r) = Len(q) + Len(r)
<1>1. Len(q) \in Nat /\ Len(r) \in Nat
  OBVIOUS
<1> DEFINE c == q \o r
<1>2. /\ c \in Seq(Nat) /\ Len(c) = Len(q) + Len(r)
      /\ \A i \in 1 .. Len(c) : c[i] = IF i <= Len(q) THEN q[i] ELSE r[i - Len(q)]
  BY ConcatProperties
<1> HIDE DEF c
<1>3. ASSUME NEW i \in 1 .. Len(c) PROVE c[i] = a + i
  <2>1. CASE i <= Len(q)
    <3>1. c[i] = q[i]
      BY <1>2, <2>1
    <3>2. i \in 1 .. Len(q)
      BY <1>1, <2>1
    <3> QED
      BY <3>1, <3>2 DEF RunsOn
  <2>2. CASE ~(i <= Len(q))
    <3>1. c[i] = r[i - Len(q)]
      BY <1>2, <2>2
    <3>2. i - Len(q) \in 1 .. Len(r)
      BY <1>1, <1>2, <2>2
    <3>3. r[i - Len(q)] = (a + Len(q)) + (i - Len(q))
      BY <3>2 DEF RunsOn
    <3> QED
      BY <1>1, <3>1, <3>3
  <2> QED
    BY <2>1, <2>2
<1> QED
  BY <1>2, <1>3 DEF RunsOn, c

LEMMA RunsTail ==
  ASSUME NEW q \in Seq(Nat), NEW a \in Nat, q # << >>, RunsOn(q, a)
  PROVE  /\ Head(q) = a + 1 /\ RunsOn(Tail(q), a + 1)
         /\ Tail(q) \in Seq(Nat) /\ Len(Tail(q)) = Len(q) - 1 /\ Len(q) \in Nat \ {0}
<1>1. /\ Len(q) \in Nat \ {0} /\ Head(q) = q[1] /\ Tail(q) \in Seq(Nat)
      /\ Len(Tail(q)) = Len(q) - 1 /\ \A i \in 1 .. Len(Tail(q)) : Tail(q)[i] = q[i + 1]
  BY HeadTailProperties, EmptySeq
<1>2. ASSUME NEW i \in 1 .. Len(Tail(q)) PROVE Tail(q)[i] = (a + 1) + i
  <2>1. i + 1 \in 1 .. Len(q)
    BY <1>1
  <2> QED
    BY <1>1, <2>1 DEF RunsOn
<1>3. Head(q) = a + 1
  BY <1>1 DEF RunsOn
<1> QED
  BY <1>1, <1>2, <1>3 DEF RunsOn

LEMMA RunsSplit ==
  ASSUME NEW q \in Seq(Nat), NEW a \in Nat, RunsOn(q, a), NEW n \in 0 .. Len(q)
  PROVE  /\ SubSeq(q, 1, n) \in Seq(Nat) /\ Len(SubSeq(q, 1, n)) = n /\ RunsOn(SubSeq(q, 1, n), a)
         /\ SubSeq(q, n + 1, Len(q)) \in Seq(Nat) /\ Len(SubSeq(q, n + 1, Len(q))) = Len(q) - n
         /\ RunsOn(SubSeq(q, n + 1, Len(q)), a + n)
<1>1. Len(q) \in Nat
  OBVIOUS
<1>2. /\ SubSeq(q, 1, n) \in Seq(Nat) /\ Len(SubSeq(q, 1, n)) = n
      /\ \A i \in 1 .. n : SubSeq(q, 1, n)[i] = q[i]
  BY <1>1, SubSeqProperties
<1>3. /\ SubSeq(q, n + 1, Len(q)) \in Seq(Nat) /\ Len(SubSeq(q, n + 1, Len(q))) = Len(q) - n
      /\ \A i \in 1 .. Len(q) - n : SubSeq(q, n + 1, Len(q))[i] = q[n + i]
  BY <1>1, SubSeqProperties
<1>4. RunsOn(SubSeq(q, 1, n), a)
  BY <1>1, <1>2 DEF RunsOn
<1>5. ASSUME NEW i \in 1 .. Len(q) - n PROVE q[n + i] = (a + n) + i
  <2>1. n + i \in 1 .. Len(q)
    BY <1>1
  <2> QED
    BY <2>1 DEF RunsOn
<1> QED
  BY <1>2, <1>3, <1>4, <1>5 DEF RunsOn

-----------------------------------------------------------------------------
(* Frames.                                                                   *)

LEMMA FrameKinds ==
  ASSUME NEW x \in Frame
  PROVE  \/ HasKeys(x) /\ x.keys \in Seq(Nat) /\ ~IsSize(x)
         \/ IsSize(x) /\ x.resize \in Sizes /\ ~HasKeys(x)
         \/ "bye" \in DOMAIN x /\ ~HasKeys(x) /\ ~IsSize(x)
BY DEF Frame, HasKeys, IsSize

LEMMA FrameForms ==
  /\ \A k \in Seq(Nat) : LET x == [keys |-> k] IN
       x \in Frame /\ HasKeys(x) /\ ~IsSize(x) /\ x.keys = k /\ "bye" \notin DOMAIN x
  /\ \A z \in Sizes : LET x == [resize |-> z] IN
       x \in Frame /\ IsSize(x) /\ ~HasKeys(x) /\ x.resize = z /\ "bye" \notin DOMAIN x
  /\ LET x == [bye |-> TRUE] IN x \in Frame /\ ~IsSize(x) /\ ~HasKeys(x)
BY DEF Frame, HasKeys, IsSize

LEMMA BringNone == ASSUME NEW a \in Nat PROVE Bring(<< >>, a, a)
<1>1. [i \in 0 .. 0 |-> a] \in [0 .. 0 -> Nat] /\ Len(<< >>) = 0
  OBVIOUS
<1>2. \E e \in [0 .. Len(<< >>) -> Nat] :
        /\ e[0] = a /\ e[Len(<< >>)] = a
        /\ \A i \in 1 .. Len(<< >>) : Piece(<< >>[i], e[i - 1], e[i])
  <2> WITNESS [i \in 0 .. 0 |-> a] \in [0 .. Len(<< >>) -> Nat]
  <2> QED
    BY <1>1
<1>3. ASSUME NEW n \in Nat, a < n, n <= a PROVE FALSE
  BY <1>3
<1> QED
  BY <1>2, <1>3 DEF Bring

\* Another frame is sent.
LEMMA BringMore ==
  ASSUME NEW q \in Seq(Frame), NEW x \in Frame, NEW a \in Nat, NEW z \in Nat, NEW y \in Nat,
         Bring(q, a, z), Piece(x, z, y)
  PROVE  Bring(Append(q, x), a, y)
<1> DEFINE r == Append(q, x)
           l == Len(q)
<1>1. l \in Nat
  OBVIOUS
<1>2. /\ r \in Seq(Frame) /\ Len(r) = l + 1 /\ r[l + 1] = x
      /\ \A i \in 1 .. l : r[i] = q[i]
  BY AppendProperties
<1> HIDE DEF r
<1>3. PICK e \in [0 .. l -> Nat] : /\ e[0] = a /\ e[l] = z
                                   /\ \A i \in 1 .. l : Piece(q[i], e[i - 1], e[i])
  BY DEF Bring
<1> DEFINE g == [i \in 0 .. l + 1 |-> IF i = l + 1 THEN y ELSE e[i]]
<1>4. /\ g \in [0 .. Len(r) -> Nat] /\ g[0] = a /\ g[Len(r)] = y
      /\ \A i \in 0 .. l : g[i] = e[i]
  BY <1>1, <1>2, <1>3
<1> HIDE DEF g
<1>5. ASSUME NEW i \in 1 .. Len(r) PROVE Piece(r[i], g[i - 1], g[i])
  <2>1. CASE i \in 1 .. l
    <3>1. i - 1 \in 0 .. l /\ i \in 0 .. l
      BY <1>1, <2>1
    <3> QED
      BY <1>2, <1>3, <1>4, <2>1, <3>1
  <2>2. CASE i = l + 1
    <3>1. i - 1 = l /\ l \in 0 .. l
      BY <1>1, <2>2
    <3> QED
      BY <1>2, <1>3, <1>4, <2>2, <3>1
  <2> QED
    BY <1>1, <1>2, <2>1, <2>2
<1>6. ASSUME NEW n \in Nat, a < n, n <= y
      PROVE  \E i \in 1 .. Len(r) : HasKeys(r[i]) /\ n \in Range(r[i].keys)
  <2>1. CASE n <= z
    <3>1. PICK i \in 1 .. l : HasKeys(q[i]) /\ n \in Range(q[i].keys)
      BY <1>6, <2>1 DEF Bring
    <3>2. i \in 1 .. Len(r) /\ r[i] = q[i]
      BY <1>1, <1>2
    <3> QED
      BY <3>1, <3>2
  <2>2. CASE z < n
    <3>1. HasKeys(x)
      BY <1>6, <2>2 DEF Piece
    <3>2. /\ x.keys \in Seq(Nat) /\ RunsOn(x.keys, z) /\ y = z + Len(x.keys)
      BY <3>1, FrameKinds DEF Piece
    <3>3. n - z \in 1 .. Len(x.keys)
      BY <1>6, <2>2, <3>2
    <3>4. x.keys[n - z] = z + (n - z)
      BY <3>2, <3>3 DEF RunsOn
    <3>5. n \in Range(x.keys)
      BY <2>2, <3>2, <3>3, <3>4 DEF Range
    <3>6. l + 1 \in 1 .. Len(r)
      BY <1>1, <1>2
    <3> QED
      BY <1>2, <3>1, <3>5, <3>6
  <2> QED
    BY <2>1, <2>2
<1>7. \E c \in [0 .. Len(r) -> Nat] : /\ c[0] = a /\ c[Len(r)] = y
                                      /\ \A i \in 1 .. Len(r) : Piece(r[i], c[i - 1], c[i])
  BY <1>4, <1>5
<1> QED
  BY <1>6, <1>7 DEF Bring, r

\* The first frame is taken.
LEMMA BringFirst ==
  ASSUME NEW q \in Seq(Frame), q # << >>, NEW a \in Nat, NEW z \in Nat, Bring(q, a, z)
  PROVE  \E b \in Nat : Piece(Head(q), a, b) /\ Bring(Tail(q), b, z)
<1> DEFINE r == Tail(q)
           l == Len(r)
<1>1. /\ r \in Seq(Frame) /\ l \in Nat /\ Len(q) = l + 1 /\ q[1] = Head(q) /\ Head(q) \in Frame
      /\ \A i \in 1 .. l : r[i] = q[i + 1]
  BY HeadTailProperties, EmptySeq
<1> HIDE DEF r
<1>2. PICK e \in [0 .. l + 1 -> Nat] : /\ e[0] = a /\ e[l + 1] = z
                                       /\ \A i \in 1 .. l + 1 : Piece(q[i], e[i - 1], e[i])
  BY <1>1 DEF Bring
<1> DEFINE b == e[1]
           g == [i \in 0 .. l |-> e[i + 1]]
<1>3. b \in Nat /\ Piece(Head(q), a, b)
  <2>1. 1 \in 0 .. l + 1 /\ 1 \in 1 .. l + 1 /\ 1 - 1 = 0
    BY <1>1
  <2> QED
    BY <1>1, <1>2, <2>1
<1>4. /\ g \in [0 .. l -> Nat] /\ g[0] = b /\ g[l] = z
      /\ \A i \in 0 .. l : g[i] = e[i + 1]
  <2>1. \A i \in 0 .. l : i + 1 \in 0 .. l + 1
    BY <1>1
  <2>2. 0 \in 0 .. l /\ l \in 0 .. l /\ 0 + 1 = 1
    BY <1>1
  <2> QED
    BY <1>2, <2>1, <2>2
<1> HIDE DEF g
<1>5. ASSUME NEW i \in 1 .. l PROVE Piece(r[i], g[i - 1], g[i])
  <2>1. i - 1 \in 0 .. l /\ i \in 0 .. l /\ (i - 1) + 1 = i /\ i + 1 \in 1 .. l + 1 /\ (i + 1) - 1 = i
    BY <1>1
  <2>2. Piece(q[i + 1], e[i], e[i + 1])
    BY <1>2, <2>1
  <2>3. g[i - 1] = e[i] /\ g[i] = e[i + 1] /\ r[i] = q[i + 1]
    BY <1>1, <1>4, <2>1
  <2> QED
    BY <2>2, <2>3
<1>6. ASSUME NEW n \in Nat, b < n, n <= z
      PROVE  \E i \in 1 .. l : HasKeys(r[i]) /\ n \in Range(r[i].keys)
  <2>1. a <= b
    BY <1>1, <1>3, FrameKinds DEF Piece
  <2>2. a < n
    BY <1>3, <1>6, <2>1
  <2>3. PICK i \in 1 .. Len(q) : HasKeys(q[i]) /\ n \in Range(q[i].keys)
    BY <1>6, <2>2 DEF Bring
  <2>4. i # 1
    <3> SUFFICES ASSUME i = 1 PROVE FALSE
      OBVIOUS
    <3>1. HasKeys(Head(q)) /\ n \in Range(Head(q).keys)
      BY <1>1, <2>3
    <3>2. /\ Head(q).keys \in Seq(Nat) /\ RunsOn(Head(q).keys, a) /\ b = a + Len(Head(q).keys)
      BY <1>1, <1>3, <3>1, FrameKinds DEF Piece
    <3>3. PICK j \in 1 .. Len(Head(q).keys) : Head(q).keys[j] = n
      BY <3>1, <3>2 DEF Range
    <3>4. n = a + j /\ j <= Len(Head(q).keys)
      BY <3>2, <3>3 DEF RunsOn
    <3> QED
      BY <1>3, <1>6, <3>2, <3>4
  <2>5. i - 1 \in 1 .. l /\ (i - 1) + 1 = i
    BY <1>1, <2>4
  <2>6. r[i - 1] = q[i]
    BY <1>1, <2>5
  <2> QED
    BY <2>3, <2>5, <2>6
<1>7. \E c \in [0 .. l -> Nat] : /\ c[0] = b /\ c[l] = z
                                 /\ \A i \in 1 .. l : Piece(r[i], c[i - 1], c[i])
  BY <1>4, <1>5
<1>8. Bring(r, b, z)
  BY <1>6, <1>7 DEF Bring
<1> QED
  BY <1>3, <1>8 DEF r

\* A frame without keys comes before them.
LEMMA BringAfter ==
  ASSUME NEW q \in Seq(Frame), NEW x \in Frame, ~HasKeys(x), NEW a \in Nat, NEW z \in Nat,
         Bring(q, a, z)
  PROVE  Bring(<<x>> \o q, a, z)
<1> DEFINE r == <<x>> \o q
           l == Len(q)
<1>1. /\ r \in Seq(Frame) /\ l \in Nat /\ Len(r) = l + 1 /\ r[1] = x
      /\ \A i \in 1 .. l : r[i + 1] = q[i]
  <2>1. <<x>> \in Seq(Frame) /\ Len(<<x>>) = 1 /\ <<x>>[1] = x /\ l \in Nat
    OBVIOUS
  <2>2. /\ r \in Seq(Frame) /\ Len(r) = 1 + l
        /\ \A i \in 1 .. 1 + l : r[i] = IF i <= 1 THEN <<x>>[i] ELSE q[i - 1]
    BY <2>1, ConcatProperties
  <2>3. ASSUME NEW i \in 1 .. l PROVE r[i + 1] = q[i]
    <3>1. i + 1 \in 1 .. 1 + l /\ ~(i + 1 <= 1) /\ (i + 1) - 1 = i
      BY <2>1
    <3> QED
      BY <2>2, <3>1
  <2>4. 1 \in 1 .. 1 + l
    BY <2>1
  <2> QED
    BY <2>1, <2>2, <2>3, <2>4
<1> HIDE DEF r
<1>2. PICK e \in [0 .. l -> Nat] : /\ e[0] = a /\ e[l] = z
                                   /\ \A i \in 1 .. l : Piece(q[i], e[i - 1], e[i])
  BY DEF Bring
<1> DEFINE g == [i \in 0 .. l + 1 |-> IF i = 0 THEN a ELSE e[i - 1]]
<1>3. /\ g \in [0 .. l + 1 -> Nat] /\ g[0] = a /\ g[l + 1] = z
      /\ \A i \in 1 .. l + 1 : g[i] = e[i - 1]
  <2>1. \A i \in 1 .. l + 1 : i - 1 \in 0 .. l
    BY <1>1
  <2>2. 0 \in 0 .. l + 1 /\ l + 1 \in 1 .. l + 1 /\ (l + 1) - 1 = l
    BY <1>1
  <2> QED
    BY <1>1, <1>2, <2>1, <2>2
<1> HIDE DEF g
<1>4. ASSUME NEW i \in 1 .. l + 1 PROVE Piece(r[i], g[i - 1], g[i])
  <2>1. CASE i = 1
    <3>1. g[0] = a /\ g[1] = e[0] /\ r[1] = x
      BY <1>1, <1>3
    <3> QED
      BY <1>2, <2>1, <3>1 DEF Piece
  <2>2. CASE i # 1
    <3>1. i - 1 \in 1 .. l /\ i - 1 \in 1 .. l + 1 /\ (i - 1) + 1 = i
      BY <1>1, <2>2
    <3>2. r[i] = q[i - 1] /\ g[i] = e[i - 1] /\ g[i - 1] = e[(i - 1) - 1]
      BY <1>1, <1>3, <3>1
    <3> QED
      BY <1>2, <3>1, <3>2
  <2> QED
    BY <2>1, <2>2
<1>5. ASSUME NEW n \in Nat, a < n, n <= z
      PROVE  \E i \in 1 .. l + 1 : HasKeys(r[i]) /\ n \in Range(r[i].keys)
  <2>1. PICK i \in 1 .. l : HasKeys(q[i]) /\ n \in Range(q[i].keys)
    BY <1>5 DEF Bring
  <2>2. i + 1 \in 1 .. l + 1 /\ r[i + 1] = q[i]
    BY <1>1
  <2> QED
    BY <2>1, <2>2
<1>6. \E c \in [0 .. l + 1 -> Nat] : /\ c[0] = a /\ c[l + 1] = z
                                     /\ \A i \in 1 .. l + 1 : Piece(r[i], c[i - 1], c[i])
  BY <1>3, <1>4
<1> QED
  BY <1>1, <1>5, <1>6 DEF Bring, r

-----------------------------------------------------------------------------
(* Sizes.                                                                    *)

\* Another frame, which is no size, or that of the window.
LEMMA SizeMore ==
  ASSUME NEW q \in Seq(Frame), NEW x \in Frame, NEW w
  PROVE  /\ ~IsSize(x) /\ LastSize(q, w) => LastSize(Append(q, x), w)
         /\ IsSize(x) /\ x.resize = w => LastSize(Append(q, x), w)
         /\ Sized(q) \/ IsSize(x) => Sized(Append(q, x))
<1> DEFINE r == Append(q, x)
           l == Len(q)
<1>1. /\ l \in Nat /\ Len(r) = l + 1 /\ r[l + 1] = x
      /\ \A i \in 1 .. l : r[i] = q[i]
  BY AppendProperties
<1> HIDE DEF r
<1>2. /\ l + 1 \in 1 .. Len(r)
      /\ \A i \in 1 .. l : i \in 1 .. Len(r) /\ l + 1 \in i + 1 .. Len(r)
      /\ \A i \in 1 .. Len(r) : i \in 1 .. l \/ i = l + 1
      /\ \A i \in 1 .. l : \A j \in i + 1 .. l : j \in i + 1 .. Len(r) /\ j \in 1 .. l
  BY <1>1
<1>3. ASSUME ~IsSize(x), LastSize(q, w) PROVE LastSize(r, w)
  <2> SUFFICES ASSUME NEW i \in 1 .. Len(r), IsSize(r[i]), \A j \in i + 1 .. Len(r) : ~IsSize(r[j])
               PROVE  r[i].resize = w
    BY DEF LastSize
  <2>1. i \in 1 .. l /\ r[i] = q[i]
    BY <1>1, <1>2, <1>3
  <2>2. \A j \in i + 1 .. l : ~IsSize(q[j])
    BY <1>1, <1>2, <2>1
  <2> QED
    BY <1>3, <2>1, <2>2 DEF LastSize
<1>4. ASSUME IsSize(x), x.resize = w PROVE LastSize(r, w)
  <2> SUFFICES ASSUME NEW i \in 1 .. Len(r), IsSize(r[i]), \A j \in i + 1 .. Len(r) : ~IsSize(r[j])
               PROVE  r[i].resize = w
    BY DEF LastSize
  <2>1. i = l + 1
    BY <1>1, <1>2, <1>4
  <2> QED
    BY <1>1, <1>4, <2>1
<1>5. Sized(q) \/ IsSize(x) => Sized(r)
  BY <1>1, <1>2 DEF Sized
<1> QED
  BY <1>3, <1>4, <1>5 DEF r

\* The first frame is taken.
LEMMA SizeFirst ==
  ASSUME NEW q \in Seq(Frame), q # << >>, NEW w, LastSize(q, w)
  PROVE  /\ LastSize(Tail(q), w)
         /\ IsSize(Head(q)) /\ ~Sized(Tail(q)) => Head(q).resize = w
         /\ Sized(q) => Sized(Tail(q)) \/ IsSize(Head(q))
<1> DEFINE r == Tail(q)
           l == Len(r)
<1>1. /\ l \in Nat /\ Len(q) = l + 1 /\ q[1] = Head(q) /\ \A i \in 1 .. l : r[i] = q[i + 1]
  BY HeadTailProperties, EmptySeq
<1> HIDE DEF r
<1>2. /\ 1 \in 1 .. Len(q)
      /\ \A i \in 1 .. l : i + 1 \in 1 .. Len(q)
      /\ \A j \in 2 .. Len(q) : j - 1 \in 1 .. l /\ (j - 1) + 1 = j
      /\ \A i \in 1 .. l : \A j \in (i + 1) + 1 .. Len(q) : j - 1 \in i + 1 .. l /\ j \in 2 .. Len(q)
      /\ \A j \in 1 + 1 .. Len(q) : j \in 2 .. Len(q)
      /\ \A j \in 1 .. Len(q) : j = 1 \/ j \in 2 .. Len(q)
  BY <1>1
<1>3. \A j \in 2 .. Len(q) : r[j - 1] = q[j]
  BY <1>1, <1>2
<1>4. LastSize(r, w)
  <2> SUFFICES ASSUME NEW i \in 1 .. l, IsSize(r[i]), \A j \in i + 1 .. l : ~IsSize(r[j])
               PROVE  r[i].resize = w
    BY DEF LastSize
  <2>1. \A j \in (i + 1) + 1 .. Len(q) : ~IsSize(q[j])
    BY <1>2, <1>3
  <2> QED
    BY <1>1, <1>2, <2>1 DEF LastSize
<1>5. ASSUME IsSize(Head(q)), ~Sized(r) PROVE Head(q).resize = w
  <2>1. \A j \in 1 + 1 .. Len(q) : ~IsSize(q[j])
    BY <1>2, <1>3, <1>5 DEF Sized
  <2> QED
    BY <1>1, <1>2, <1>5, <2>1 DEF LastSize
<1>6. Sized(q) => Sized(r) \/ IsSize(Head(q))
  BY <1>1, <1>2, <1>3 DEF Sized
<1> QED
  BY <1>4, <1>5, <1>6 DEF r

\* The window's size goes first, and there is no other.
LEMMA SizeAlone ==
  ASSUME NEW q \in Seq(Frame), NEW x \in Frame, IsSize(x), ~Sized(q)
  PROVE  Sized(<<x>> \o q) /\ LastSize(<<x>> \o q, x.resize)
<1> DEFINE r == <<x>> \o q
<1>1. /\ Len(q) \in Nat /\ Len(r) = Len(q) + 1 /\ r[1] = x
      /\ \A i \in 2 .. Len(r) : i - 1 \in 1 .. Len(q) /\ r[i] = q[i - 1]
  <2>1. <<x>> \in Seq(Frame) /\ Len(<<x>>) = 1 /\ <<x>>[1] = x /\ Len(q) \in Nat
    OBVIOUS
  <2>2. /\ Len(r) = 1 + Len(q)
        /\ \A i \in 1 .. 1 + Len(q) : r[i] = IF i <= 1 THEN <<x>>[i] ELSE q[i - 1]
    BY <2>1, ConcatProperties
  <2>3. ASSUME NEW i \in 2 .. Len(r) PROVE i - 1 \in 1 .. Len(q) /\ r[i] = q[i - 1]
    <3>1. i \in 1 .. 1 + Len(q) /\ ~(i <= 1) /\ i - 1 \in 1 .. Len(q)
      BY <2>1, <2>2
    <3> QED
      BY <2>2, <3>1
  <2>4. 1 \in 1 .. 1 + Len(q)
    BY <2>1
  <2> QED
    BY <2>1, <2>2, <2>3, <2>4
<1> HIDE DEF r
<1>2. \A i \in 1 .. Len(r) : IsSize(r[i]) => i = 1
  <2>1. \A i \in 1 .. Len(r) : i = 1 \/ i \in 2 .. Len(r)
    BY <1>1
  <2> QED
    BY <1>1, <2>1 DEF Sized
<1>3. 1 \in 1 .. Len(r)
  BY <1>1
<1> QED
  BY <1>1, <1>2, <1>3 DEF Sized, LastSize, r

-----------------------------------------------------------------------------
(* What was typed before the socket was open.                                *)

Framed(q) == [i \in 1 .. Len(q) |-> [keys |-> q[i]]]

LEMMA FramedType ==
  ASSUME NEW q \in Seq(Seq(Nat))
  PROVE  /\ Framed(q) \in Seq(Frame) /\ Len(Framed(q)) = Len(q) /\ Len(q) \in Nat
         /\ \A i \in 1 .. Len(q) : Framed(q)[i] = [keys |-> q[i]]
         /\ ~Sized(Framed(q))
         /\ \A i \in 1 .. Len(Framed(q)) : "bye" \notin DOMAIN Framed(q)[i]
<1>1. Len(q) \in Nat /\ \A i \in 1 .. Len(q) : q[i] \in Seq(Nat)
  OBVIOUS
<1>2. \A i \in 1 .. Len(q) : [keys |-> q[i]] \in Frame
  BY <1>1, FrameForms
<1>3. \A i \in 1 .. Len(q) : ~IsSize([keys |-> q[i]]) /\ "bye" \notin DOMAIN [keys |-> q[i]]
  BY <1>1, FrameForms
<1>4. Framed(q) \in Seq(Frame) /\ Len(Framed(q)) = Len(q)
  BY <1>1, <1>2 DEF Framed
<1>5. \A i \in 1 .. Len(q) : Framed(q)[i] = [keys |-> q[i]]
  BY DEF Framed
<1>6. ~Sized(Framed(q))
  BY <1>3, <1>4, <1>5 DEF Sized
<1>7. \A i \in 1 .. Len(Framed(q)) : "bye" \notin DOMAIN Framed(q)[i]
  BY <1>3, <1>4, <1>5
<1> QED
  BY <1>1, <1>4, <1>5, <1>6, <1>7

LEMMA FramedAppend ==
  ASSUME NEW q \in Seq(Seq(Nat)), NEW k \in Seq(Nat)
  PROVE  Framed(Append(q, k)) = Append(Framed(q), [keys |-> k])
<1> DEFINE r == Append(q, k)
           x == [keys |-> k]
           t == Append(Framed(q), x)
           l == Len(q)
<1>1. /\ l \in Nat /\ r \in Seq(Seq(Nat)) /\ Len(r) = l + 1 /\ r[l + 1] = k
      /\ \A i \in 1 .. l : r[i] = q[i]
  BY AppendProperties
<1>2. Framed(q) \in Seq(Frame) /\ Len(Framed(q)) = l /\ \A i \in 1 .. l : Framed(q)[i] = [keys |-> q[i]]
  BY FramedType
<1>3. x \in Frame
  BY FrameForms
<1> HIDE DEF x
<1>4. /\ t \in Seq(Frame) /\ Len(t) = l + 1 /\ t[l + 1] = x
      /\ \A i \in 1 .. l : t[i] = [keys |-> q[i]]
  BY <1>2, <1>3, AppendProperties
<1> HIDE DEF r, t
<1>5. Framed(r) \in Seq(Frame) /\ Len(Framed(r)) = l + 1 /\ \A i \in 1 .. l + 1 : Framed(r)[i] = [keys |-> r[i]]
  BY <1>1, FramedType
<1>6. ASSUME NEW i \in 1 .. l + 1 PROVE Framed(r)[i] = t[i]
  <2>1. CASE i = l + 1
    BY <1>1, <1>4, <1>5, <2>1 DEF x
  <2>2. CASE i \in 1 .. l
    BY <1>1, <1>4, <1>5, <2>2
  <2> QED
    BY <1>1, <2>1, <2>2
<1>7. Framed(r) = t
  BY <1>4, <1>5, <1>6, SeqEqual
<1> QED
  BY <1>7 DEF r, t, x

-----------------------------------------------------------------------------
(* The output queue.                                                         *)

LEMMA WordsConcat ==
  ASSUME NEW q \in Seq(Nat), NEW r \in Seq(Nat), NEW a \in Nat, r # << >>,
         ~Ended(q), Says(q, a), RunsOn(r, a + Words(q))
  PROVE  /\ q \o r \in Seq(Nat) /\ ~Ended(q \o r) /\ Says(q \o r, a)
         /\ Words(q \o r) = Words(q) + Len(r) /\ Words(q) \in Nat
<1>1. Len(q) \in Nat /\ Len(r) \in Nat \ {0} /\ Words(q) = Len(q)
  BY EmptySeq DEF Words
<1>2. RunsOn(q, a) /\ RunsOn(r, a + Len(q))
  BY <1>1 DEF Says, RunsOn
<1> DEFINE c == q \o r
<1>3. RunsOn(c, a) /\ c \in Seq(Nat) /\ Len(c) = Len(q) + Len(r)
  BY <1>2, RunsConcat
<1> HIDE DEF c
<1>4. Len(c) \in 1 .. Len(c)
  BY <1>1, <1>3
<1>5. c[Len(c)] = a + Len(c)
  BY <1>3, <1>4 DEF RunsOn
<1>6. ~Ended(c)
  BY <1>1, <1>3, <1>5 DEF Ended, Eof
<1>7. Words(c) = Len(c)
  BY <1>6 DEF Words
<1>8. Says(c, a)
  BY <1>3, <1>7 DEF Says, RunsOn
<1> QED
  BY <1>1, <1>3, <1>6, <1>7, <1>8 DEF c

LEMMA WordsEnd ==
  ASSUME NEW q \in Seq(Nat), NEW a \in Nat, ~Ended(q), Says(q, a)
  PROVE  /\ Append(q, Eof) \in Seq(Nat) /\ Ended(Append(q, Eof)) /\ Says(Append(q, Eof), a)
         /\ Words(Append(q, Eof)) = Words(q)
<1>1. Len(q) \in Nat /\ Words(q) = Len(q) /\ Eof \in Nat
  BY DEF Words, Eof
<1> DEFINE c == Append(q, Eof)
<1>2. /\ c \in Seq(Nat) /\ Len(c) = Len(q) + 1 /\ c[Len(q) + 1] = Eof
      /\ \A i \in 1 .. Len(q) : c[i] = q[i]
  BY <1>1, AppendProperties
<1> HIDE DEF c
<1>3. c # << >>
  BY <1>1, <1>2
<1>4. Ended(c)
  BY <1>2, <1>3 DEF Ended
<1>5. Words(c) = Len(q)
  BY <1>1, <1>2, <1>4 DEF Words
<1>6. Says(c, a)
  BY <1>1, <1>2, <1>5 DEF Says
<1> QED
  BY <1>1, <1>2, <1>4, <1>5, <1>6 DEF c

LEMMA WordsHead ==
  ASSUME NEW q \in Seq(Nat), NEW a \in Nat, q # << >>, Head(q) # Eof, Says(q, a)
  PROVE  /\ Head(q) = a + 1 /\ Tail(q) \in Seq(Nat) /\ (Ended(Tail(q)) <=> Ended(q))
         /\ Says(Tail(q), a + 1) /\ Words(Tail(q)) = Words(q) - 1 /\ Words(q) \in Nat \ {0}
<1> DEFINE r == Tail(q)
           l == Len(r)
<1>1. /\ r \in Seq(Nat) /\ l \in Nat /\ Len(q) = l + 1 /\ q[1] = Head(q)
      /\ \A i \in 1 .. l : r[i] = q[i + 1]
  BY HeadTailProperties, EmptySeq
<1> HIDE DEF r
<1>2. r # << >> => l # 0
  BY <1>1, EmptySeq
<1>3. Ended(r) <=> Ended(q)
  <2>1. CASE l = 0
    <3>1. q[Len(q)] # Eof /\ ~Ended(q)
      BY <1>1, <2>1 DEF Ended
    <3>2. ~Ended(r)
      BY <1>2, <2>1 DEF Ended
    <3> QED
      BY <3>1, <3>2
  <2>2. CASE l # 0
    <3>1. l \in 1 .. l /\ r # << >>
      BY <1>1, <2>2
    <3>2. r[l] = q[l + 1]
      BY <1>1, <3>1
    <3> QED
      BY <1>1, <3>1, <3>2 DEF Ended
  <2> QED
    BY <2>1, <2>2
<1>4. Words(q) \in Nat \ {0} /\ Words(r) = Words(q) - 1
  <2>1. CASE Ended(q)
    <3>1. l # 0
      BY <1>2, <1>3, <2>1 DEF Ended
    <3>2. Words(q) = (l + 1) - 1 /\ Words(r) = l - 1
      BY <1>1, <1>3, <2>1 DEF Words
    <3> QED
      BY <1>1, <3>1, <3>2
  <2>2. CASE ~Ended(q)
    <3>1. Words(q) = l + 1 /\ Words(r) = l
      BY <1>1, <1>3, <2>2 DEF Words
    <3> QED
      BY <1>1, <3>1
  <2> QED
    BY <2>1, <2>2
<1>5. Words(q) <= l + 1
  BY <1>1 DEF Words
<1>6. Head(q) = a + 1
  <2>1. 1 \in 1 .. Words(q)
    BY <1>4
  <2> QED
    BY <1>1, <2>1 DEF Says
<1>7. Says(r, a + 1)
  <2> SUFFICES ASSUME NEW i \in 1 .. Words(r) PROVE r[i] = (a + 1) + i
    BY DEF Says
  <2>1. i + 1 \in 1 .. Words(q) /\ i \in 1 .. l
    BY <1>1, <1>4, <1>5
  <2>2. r[i] = q[i + 1] /\ q[i + 1] = a + (i + 1)
    BY <1>1, <2>1 DEF Says
  <2> QED
    BY <2>2
<1> QED
  BY <1>1, <1>3, <1>4, <1>6, <1>7 DEF r

LEMMA WordsOver ==
  ASSUME NEW q \in Seq(Nat), NEW a \in Nat, q # << >>, Head(q) = Eof, Says(q, a)
  PROVE  Ended(q) /\ Words(q) = 0 /\ Tail(q) \in Seq(Nat)
<1>1. Len(q) \in Nat \ {0} /\ Head(q) = q[1] /\ Tail(q) \in Seq(Nat)
  BY HeadTailProperties, EmptySeq
<1>2. Words(q) \in Nat
  BY <1>1 DEF Words
<1>3. 1 \notin 1 .. Words(q)
  <2> SUFFICES ASSUME 1 \in 1 .. Words(q) PROVE FALSE
    OBVIOUS
  <2>1. q[1] = a + 1
    BY DEF Says
  <2> QED
    BY <1>1, <2>1 DEF Eof
<1>4. Words(q) = 0
  BY <1>2, <1>3
<1>5. Ended(q)
  BY <1>1, <1>4 DEF Words
<1> QED
  BY <1>1, <1>4, <1>5

-----------------------------------------------------------------------------
(* The parts of the invariant.                                               *)

BrowserTypes ==
  /\ page \in [Shell -> {"connecting", "open", "left", "closed"}] /\ typed \in [Shell -> Nat]
  /\ outQueue \in [Shell -> Seq(Seq(Nat))] /\ win \in [Shell -> Sizes]
  /\ shown \in [Shell -> Seq(Nat)]
  /\ \A s \in Shell : typed[s] <= Keys[s]
SocketTypes ==
  /\ up \in [Shell -> Seq(Frame)] /\ down \in [Shell -> Seq(Nat)]
  /\ \A s \in Shell : Len(down[s]) <= DownCap
ConsoleTypes ==
  /\ bridge \in [Shell -> {"none", "accepted", "exec", "pump", "stop", "closed"}]
  /\ fd \in [Shell -> Fd \union {None}] /\ pump \in [Shell -> SUBSET {"in", "out"}]
  /\ queue \in [Shell -> Seq(Nat)] /\ rest \in [Shell -> Seq(Nat)]
  /\ owner \in [Fd -> Shell \union {None}] /\ reader \in [Fd -> Shell \union {None}]
TerminalTypes ==
  /\ input \in [Shell -> Seq(Nat)] /\ output \in [Shell -> Seq(Nat)]
  /\ size \in [Shell -> Sizes \union {Default}]
  /\ \A s \in Shell : Len(input[s]) <= InCap /\ Len(output[s]) <= OutCap
SandboxTypes ==
  /\ child \in [Shell -> {"none", "alive", "dead", "reaped"}]
  /\ taken \in [Shell -> Seq(Nat)] /\ written \in [Shell -> Seq(Nat)]
  /\ \A s \in Shell : Len(written[s]) <= Outputs[s]

Types == BrowserTypes /\ SocketTypes /\ ConsoleTypes /\ TerminalTypes /\ SandboxTypes
OneInv(s) == PlaceInv(s) /\ PageInv(s) /\ SizeInv(s) /\ KeysInv(s) /\ WordsInv(s)

LEMMA Parts ==
  BridgeInv => /\ Types /\ FdInv
               /\ \A s \in Shell : OneInv(s)
BY DEF BridgeInv, ShellTypeOK, OneInv, Types, BrowserTypes, SocketTypes, ConsoleTypes,
       TerminalTypes, SandboxTypes

\* What is known of a shell.
LEMMA ShellFacts ==
  ASSUME BridgeInv, NEW s \in Shell
  PROVE  /\ page[s] \in {"connecting", "open", "left", "closed"} /\ typed[s] \in Nat
         /\ outQueue[s] \in Seq(Seq(Nat)) /\ win[s] \in Sizes /\ shown[s] \in Seq(Nat)
         /\ up[s] \in Seq(Frame) /\ down[s] \in Seq(Nat)
         /\ bridge[s] \in {"none", "accepted", "exec", "pump", "stop", "closed"}
         /\ fd[s] \in Fd \union {None} /\ pump[s] \subseteq {"in", "out"}
         /\ queue[s] \in Seq(Nat) /\ rest[s] \in Seq(Nat)
         /\ input[s] \in Seq(Nat) /\ output[s] \in Seq(Nat)
         /\ taken[s] \in Seq(Nat) /\ written[s] \in Seq(Nat)
         /\ PlaceInv(s) /\ PageInv(s) /\ SizeInv(s) /\ KeysInv(s) /\ WordsInv(s)
BY Parts DEF Types, BrowserTypes, SocketTypes, ConsoleTypes, TerminalTypes, SandboxTypes, OneInv

Same(u) ==
  /\ page'[u] = page[u] /\ typed'[u] = typed[u] /\ outQueue'[u] = outQueue[u]
  /\ win'[u] = win[u] /\ shown'[u] = shown[u] /\ up'[u] = up[u] /\ down'[u] = down[u]
  /\ bridge'[u] = bridge[u] /\ fd'[u] = fd[u] /\ pump'[u] = pump[u]
  /\ queue'[u] = queue[u] /\ rest'[u] = rest[u]
  /\ input'[u] = input[u] /\ output'[u] = output[u] /\ size'[u] = size[u]
  /\ child'[u] = child[u] /\ taken'[u] = taken[u] /\ written'[u] = written[u]

LEMMA SameInv == ASSUME NEW u, OneInv(u), Same(u) PROVE OneInv(u)'
<1>1. PlaceInv(u)'
  BY DEF OneInv, Same, PlaceInv, Before
<1>2. PageInv(u)'
  BY DEF OneInv, Same, PageInv
<1>3. SizeInv(u)'
  BY DEF OneInv, Same, SizeInv, Before
<1>4. KeysInv(u)'
  BY DEF OneInv, Same, KeysInv, Before, Past, Typed
<1>5. WordsInv(u)'
  BY DEF OneInv, Same, WordsInv, Sent
<1> QED
  BY <1>1, <1>2, <1>3, <1>4, <1>5 DEF OneInv

\* A step that is one shell's.
LEMMA ShellStep ==
  ASSUME BridgeInv, NEW s \in Shell, Types', FdInv', \A u \in Shell \ {s} : Same(u),
         PlaceInv(s)', PageInv(s)', SizeInv(s)', KeysInv(s)', WordsInv(s)'
  PROVE  BridgeInv'
<1>1. ShellTypeOK'
  BY DEF ShellTypeOK, Types, BrowserTypes, SocketTypes, ConsoleTypes, TerminalTypes, SandboxTypes
<1>2. ASSUME NEW u \in Shell, u # s PROVE OneInv(u)'
  BY <1>2, SameInv, Parts
<1> QED
  BY <1>1, <1>2 DEF BridgeInv, OneInv

LEMMA SetTo ==
  ASSUME NEW A, NEW B, NEW f \in [A -> B], NEW a \in A, NEW v \in B
  PROVE  LET g == [f EXCEPT ![a] = v] IN
         g \in [A -> B] /\ g[a] = v /\ \A u \in A \ {a} : g[u] = f[u]
OBVIOUS

LEMMA ShellInitInv == ShellInit => BridgeInv
<1> SUFFICES ASSUME ShellInit PROVE BridgeInv
  OBVIOUS
<1> USE DEF ShellInit
<1>0. Len(<< >>) = 0 /\ << >> \in Seq(Nat) /\ << >> \in Seq(Frame) /\ << >> \in Seq(Seq(Nat))
  OBVIOUS
<1>1. \A s \in Shell : Keys[s] \in Nat /\ Outputs[s] \in Nat
  BY CapsAssumption
<1>2. InCap \in Nat /\ OutCap \in Nat /\ DownCap \in Nat
  BY CapsAssumption
<1>3. BrowserTypes
  BY <1>0, <1>1 DEF BrowserTypes, Sizes
<1>4. SocketTypes /\ TerminalTypes
  BY <1>0, <1>2 DEF SocketTypes, TerminalTypes
<1>5. ConsoleTypes
  BY <1>0 DEF ConsoleTypes
<1>6. SandboxTypes
  BY <1>0, <1>1 DEF SandboxTypes
<1>7. ShellTypeOK
  BY <1>3, <1>4, <1>5, <1>6 DEF ShellTypeOK, BrowserTypes, SocketTypes, ConsoleTypes,
                              TerminalTypes, SandboxTypes
<1>8. FdInv
  BY ShellAssumption DEF FdInv, Held
<1>9. ASSUME NEW s \in Shell PROVE OneInv(s)
  <2>1. PlaceInv(s) /\ PageInv(s) /\ SizeInv(s)
    BY DEF PlaceInv, PageInv, SizeInv, Before
  <2>2. Typed(s) = << >>
    BY <1>0 DEF Typed
  <2>3. KeysInv(s)
    BY <1>0, <2>2, BringNone DEF KeysInv, RunsOn, Past
  <2>4. WordsInv(s)
    BY <1>0 DEF WordsInv, RunsOn, Sent
  <2> QED
    BY <2>1, <2>3, <2>4 DEF OneInv
<1> QED
  BY <1>7, <1>8, <1>9 DEF BridgeInv, OneInv

-----------------------------------------------------------------------------
(* The page's steps.                                                         *)

LEMMA TypedFrames ==
  ASSUME BridgeInv, NEW s \in Shell
  PROVE  /\ Typed(s) \in Seq(Frame) /\ Len(Typed(s)) = Len(outQueue[s])
         /\ \A i \in 1 .. Len(outQueue[s]) : Typed(s)[i] = [keys |-> outQueue[s][i]]
         /\ ~Sized(Typed(s)) /\ \A i \in 1 .. Len(Typed(s)) : "bye" \notin DOMAIN Typed(s)[i]
<1>1. outQueue[s] \in Seq(Seq(Nat))
  BY ShellFacts
<1>2. Typed(s) = Framed(outQueue[s])
  BY DEF Typed, Framed
<1> QED
  BY <1>1, <1>2, FramedType

LEMMA PastNat == ASSUME BridgeInv, NEW s \in Shell PROVE Past(s) \in Nat
<1>1. taken[s] \in Seq(Nat) /\ input[s] \in Seq(Nat) /\ rest[s] \in Seq(Nat)
  BY ShellFacts
<1>2. Len(taken[s]) \in Nat /\ Len(input[s]) \in Nat /\ Len(rest[s]) \in Nat
  BY <1>1
<1>3. \A k, m, n \in Nat : k + m + n \in Nat
  OBVIOUS
<1> QED
  BY <1>2, <1>3, Zenon DEF Past

\* A page in which only the page's variables and what it sends change.
LEMMA PageStep ==
  ASSUME BridgeInv, NEW s \in Shell, UNCHANGED <<console, terminal, sandbox>>,
         BrowserTypes', SocketTypes',
         \A u \in Shell \ {s} :
           /\ page'[u] = page[u] /\ typed'[u] = typed[u] /\ outQueue'[u] = outQueue[u]
           /\ win'[u] = win[u] /\ shown'[u] = shown[u] /\ up'[u] = up[u] /\ down'[u] = down[u],
         PlaceInv(s)', PageInv(s)', SizeInv(s)', KeysInv(s)', WordsInv(s)'
  PROVE  BridgeInv'
<1> USE DEF console, terminal, sandbox
<1>1. Types'
  BY Parts DEF Types, ConsoleTypes, TerminalTypes, SandboxTypes
<1>2. FdInv'
  BY Parts DEF FdInv, Held
<1>3. \A u \in Shell \ {s} : Same(u)
  BY DEF Same
<1> QED
  BY <1>1, <1>2, <1>3, ShellStep

LEMMA NoBye ==
  ASSUME NEW x \in Frame, NEW q \in Seq(Frame), "bye" \notin DOMAIN x,
         \A i \in 1 .. Len(q) : "bye" \notin DOMAIN q[i]
  PROVE  /\ <<x>> \o q \in Seq(Frame)
         /\ \A i \in 1 .. Len(<<x>> \o q) : "bye" \notin DOMAIN (<<x>> \o q)[i]
<1> DEFINE r == <<x>> \o q
<1>1. <<x>> \in Seq(Frame) /\ Len(<<x>>) = 1 /\ <<x>>[1] = x /\ Len(q) \in Nat
  OBVIOUS
<1>2. /\ r \in Seq(Frame) /\ Len(r) = 1 + Len(q)
      /\ \A i \in 1 .. 1 + Len(q) : r[i] = IF i <= 1 THEN <<x>>[i] ELSE q[i - 1]
  BY <1>1, ConcatProperties
<1> HIDE DEF r
<1>3. ASSUME NEW i \in 1 .. Len(r) PROVE "bye" \notin DOMAIN r[i]
  <2>1. CASE i <= 1
    <3>1. i = 1
      BY <1>1, <1>2, <2>1
    <3> QED
      BY <1>1, <1>2, <2>1, <3>1
  <2>2. CASE ~(i <= 1)
    <3>1. i - 1 \in 1 .. Len(q) /\ i \in 1 .. 1 + Len(q)
      BY <1>1, <1>2, <2>2
    <3>2. r[i] = q[i - 1]
      BY <1>2, <2>2, <3>1
    <3> QED
      BY <3>1, <3>2
  <2> QED
    BY <2>1, <2>2
<1> QED
  BY <1>2, <1>3 DEF r

LEMMA OpenedStep == ASSUME BridgeInv, NEW s \in Shell, Opened(s) PROVE BridgeInv'
<1> USE DEF Opened, UnchangedByPage, Set, console, terminal, sandbox
<1> DEFINE x == Resized(s)
           q == <<x>> \o Typed(s)
<1>1. Types
  BY Parts
<1>2. /\ page[s] = "connecting" /\ bridge[s] # "none" /\ win[s] \in Sizes /\ typed[s] \in Nat
      /\ PlaceInv(s) /\ PageInv(s) /\ KeysInv(s) /\ WordsInv(s)
  BY ShellFacts
<1>3. x \in Frame /\ IsSize(x) /\ ~HasKeys(x) /\ x.resize = win[s]
  BY <1>2, FrameForms DEF Resized
<1>4. Typed(s) \in Seq(Frame) /\ ~Sized(Typed(s))
  BY TypedFrames
<1> HIDE DEF x
<1>5. q \in Seq(Frame) /\ \A i \in 1 .. Len(q) : "bye" \notin DOMAIN q[i]
  <2>1. "bye" \notin DOMAIN x
    BY DEF x, Resized
  <2> QED
    BY <1>3, <1>4, <2>1, TypedFrames, NoBye
<1>6. page' = [page EXCEPT ![s] = "open"] /\ up' = [up EXCEPT ![s] = q] /\ outQueue' = [outQueue EXCEPT ![s] = << >>]
  BY DEF x
<1> HIDE DEF q
<1>7. /\ page'[s] = "open" /\ up'[s] = q /\ outQueue'[s] = << >>
      /\ \A u \in Shell \ {s} : page'[u] = page[u] /\ up'[u] = up[u] /\ outQueue'[u] = outQueue[u]
  BY <1>1, <1>6 DEF Types, BrowserTypes, SocketTypes
<1>8. BrowserTypes'
  <2>1. << >> \in Seq(Seq(Nat))
    OBVIOUS
  <2> QED
    BY <1>1, <1>6, <2>1 DEF Types, BrowserTypes
<1>9. SocketTypes'
  BY <1>1, <1>5, <1>6 DEF Types, SocketTypes
<1>10. PlaceInv(s)'
  BY <1>2 DEF PlaceInv, Before
<1>11. PageInv(s)'
  <2>1. bridge[s] \notin {"none", "closed"} /\ ("in" \notin pump[s] => bridge[s] # "pump")
    BY <1>2 DEF PageInv
  <2> QED
    BY <1>5, <1>7, <2>1 DEF PageInv
<1>12. SizeInv(s)'
  BY <1>3, <1>4, <1>7, SizeAlone DEF SizeInv, q
<1>13. KeysInv(s)'
  <2>1. RunsOn(taken[s], 0)
    BY <1>2 DEF KeysInv
  <2>2. Before(s) \/ child[s] = "alive" =>
          /\ RunsOn(input[s], Len(taken[s])) /\ RunsOn(rest[s], Len(taken[s]) + Len(input[s]))
          /\ Past(s) = 0 /\ Bring(Typed(s), 0, typed[s])
    BY <1>2 DEF KeysInv
  <2>3. Bring(Typed(s), 0, typed[s]) => Bring(q, 0, typed[s])
    BY <1>2, <1>3, <1>4, BringAfter DEF q
  <2> QED
    BY <1>7, <2>1, <2>2, <2>3 DEF KeysInv, Before, Past
<1>14. WordsInv(s)'
  BY <1>2, <1>7 DEF WordsInv, Sent
<1> QED
  BY <1>7, <1>8, <1>9, <1>10, <1>11, <1>12, <1>13, <1>14, PageStep

\* A frame is sent, after which typed[s] is z.
LEMMA SendKeys ==
  ASSUME BridgeInv, NEW s \in Shell, NEW x \in Frame, NEW z \in Nat, Piece(x, typed[s], z),
         page[s] = "open", page'[s] \in {"open", "left"}, up'[s] = Append(up[s], x), typed'[s] = z,
         UNCHANGED <<bridge, child, taken, input, rest>>
  PROVE  KeysInv(s)'
<1>1. KeysInv(s) /\ up[s] \in Seq(Frame) /\ typed[s] \in Nat
  BY ShellFacts
<1>2. Past(s) \in Nat
  BY PastNat
<1>3. Bring(up[s], Past(s), typed[s]) => Bring(Append(up[s], x), Past(s), z)
  BY <1>1, <1>2, BringMore
<1> QED
  BY <1>1, <1>3 DEF KeysInv, Before, Past

LEMMA TypeStep ==
  ASSUME BridgeInv, NEW s \in Shell, NEW n \in 1 .. Keys[s], Type(s, n)
  PROVE  BridgeInv'
<1> USE DEF Type, UnchangedByPage, Set, Add, console, terminal, sandbox
<1> DEFINE k == [i \in 1 .. n |-> typed[s] + i]
           x == [keys |-> k]
<1>1. Types
  BY Parts
<1>2. /\ typed[s] \in Nat /\ up[s] \in Seq(Frame) /\ outQueue[s] \in Seq(Seq(Nat))
      /\ PlaceInv(s) /\ PageInv(s) /\ SizeInv(s) /\ KeysInv(s) /\ WordsInv(s)
  BY ShellFacts
<1>0. Keys[s] \in Nat /\ n \in Nat \ {0}
  BY CapsAssumption
<1>3. k \in Seq(Nat) /\ RunsOn(k, typed[s]) /\ Len(k) = n
  BY <1>0, <1>2 DEF RunsOn
<1>4. /\ page[s] \in {"connecting", "open"} /\ typed[s] + n <= Keys[s]
      /\ typed' = [typed EXCEPT ![s] = typed[s] + n]
      /\ \/ page[s] = "open" /\ up' = [up EXCEPT ![s] = Append(up[s], x)] /\ UNCHANGED outQueue
         \/ page[s] = "connecting" /\ outQueue' = [outQueue EXCEPT ![s] = Append(outQueue[s], k)] /\ UNCHANGED up
  OBVIOUS
<1> HIDE DEF k
<1>5. x \in Frame /\ HasKeys(x) /\ ~IsSize(x) /\ x.keys = k /\ "bye" \notin DOMAIN x
  BY <1>3, FrameForms
<1> HIDE DEF x
<1>6. Piece(x, typed[s], typed[s] + n)
  BY <1>3, <1>5 DEF Piece
<1>7. /\ typed' \in [Shell -> Nat] /\ typed'[s] = typed[s] + n
      /\ \A u \in Shell \ {s} : typed'[u] = typed[u]
  BY <1>0, <1>1, <1>2, <1>4 DEF Types, BrowserTypes
<1>8. \A u \in Shell : typed'[u] <= Keys[u]
  BY <1>1, <1>4, <1>7 DEF Types, BrowserTypes
<1>9. PlaceInv(s)' /\ WordsInv(s)'
  <2>1. PlaceInv(s)'
    BY <1>2 DEF PlaceInv, Before
  <2> QED
    BY <1>2, <2>1 DEF WordsInv, Sent
<1>10. CASE page[s] = "open"
  <2>1. up' = [up EXCEPT ![s] = Append(up[s], x)] /\ UNCHANGED outQueue
    BY <1>4, <1>10
  <2>2. Append(up[s], x) \in Seq(Frame)
    BY <1>2, <1>5
  <2>3. /\ up' \in [Shell -> Seq(Frame)] /\ up'[s] = Append(up[s], x)
        /\ \A u \in Shell \ {s} : up'[u] = up[u]
    BY <1>1, <2>1, <2>2 DEF Types, SocketTypes
  <2>4. BrowserTypes' /\ SocketTypes'
    BY <1>1, <1>7, <1>8, <2>1, <2>3 DEF Types, BrowserTypes, SocketTypes
  <2>5. PageInv(s)'
    <3>1. \A i \in 1 .. Len(Append(up[s], x)) : "bye" \in DOMAIN Append(up[s], x)[i] => page[s] = "left"
      BY <1>2, <1>5, AppendProperties DEF PageInv
    <3> QED
      BY <1>2, <1>10, <2>1, <2>3, <3>1 DEF PageInv
  <2>6. SizeInv(s)'
    BY <1>2, <1>5, <2>3, SizeMore DEF SizeInv, Before
  <2>7. KeysInv(s)'
    BY <1>0, <1>2, <1>5, <1>6, <1>7, <1>10, <2>3, SendKeys
  <2> QED
    BY <1>7, <1>9, <2>1, <2>3, <2>4, <2>5, <2>6, <2>7, PageStep
<1>11. CASE page[s] = "connecting"
  <2>1. outQueue' = [outQueue EXCEPT ![s] = Append(outQueue[s], k)] /\ UNCHANGED up
    BY <1>4, <1>11
  <2>2. Append(outQueue[s], k) \in Seq(Seq(Nat))
    BY <1>2, <1>3
  <2>3. /\ outQueue' \in [Shell -> Seq(Seq(Nat))] /\ outQueue'[s] = Append(outQueue[s], k)
        /\ \A u \in Shell \ {s} : outQueue'[u] = outQueue[u]
    BY <1>1, <2>1, <2>2 DEF Types, BrowserTypes
  <2>4. BrowserTypes' /\ SocketTypes'
    BY <1>1, <1>7, <1>8, <2>1, <2>3 DEF Types, BrowserTypes, SocketTypes
  <2>5. PageInv(s)' /\ SizeInv(s)'
    BY <1>2, <1>11, <2>1 DEF PageInv, SizeInv
  <2>6. Typed(s)' = Append(Typed(s), x)
    <3>1. Typed(s)' = Framed(Append(outQueue[s], k)) /\ Typed(s) = Framed(outQueue[s])
      BY <2>3 DEF Typed, Framed
    <3> QED
      BY <1>2, <1>3, <3>1, FramedAppend DEF x
  <2>7. KeysInv(s)'
    <3>1. Bring(Typed(s), 0, typed[s]) => Bring(Append(Typed(s), x), 0, typed[s] + n)
      BY <1>0, <1>2, <1>5, <1>6, TypedFrames, BringMore
    <3> QED
      BY <1>2, <1>7, <1>11, <2>6, <3>1 DEF KeysInv, Before, Past
  <2> QED
    BY <1>7, <1>9, <2>1, <2>3, <2>4, <2>5, <2>7, PageStep
<1> QED
  BY <1>4, <1>10, <1>11

LEMMA ByeAppend ==
  ASSUME NEW q \in Seq(Frame), NEW x \in Frame, NEW b,
         \A i \in 1 .. Len(q) : "bye" \in DOMAIN q[i] => b,
         "bye" \in DOMAIN x => b
  PROVE  \A i \in 1 .. Len(Append(q, x)) : "bye" \in DOMAIN Append(q, x)[i] => b
BY AppendProperties

LEMMA ResizeStep == ASSUME BridgeInv, NEW s \in Shell, Resize(s) PROVE BridgeInv'
<1> USE DEF Resize, UnchangedByPage, Set, Add, console, terminal, sandbox
<1> DEFINE x == [resize |-> "large"]
<1>1. Types
  BY Parts
<1>2. /\ typed[s] \in Nat /\ up[s] \in Seq(Frame)
      /\ PlaceInv(s) /\ PageInv(s) /\ SizeInv(s) /\ KeysInv(s) /\ WordsInv(s)
  BY ShellFacts
<1>3. x \in Frame /\ IsSize(x) /\ ~HasKeys(x) /\ x.resize = "large" /\ "bye" \notin DOMAIN x
  BY FrameForms DEF Sizes
<1>4. /\ page[s] \in {"connecting", "open"} /\ win' = [win EXCEPT ![s] = "large"]
      /\ \/ page[s] = "open" /\ up' = [up EXCEPT ![s] = Append(up[s], x)]
         \/ page[s] = "connecting" /\ UNCHANGED up
  OBVIOUS
<1> HIDE DEF x
<1>5. /\ win' \in [Shell -> Sizes] /\ win'[s] = "large"
      /\ \A u \in Shell \ {s} : win'[u] = win[u]
  BY <1>1, <1>4 DEF Types, BrowserTypes, Sizes
<1>6. BrowserTypes'
  BY <1>1, <1>5 DEF Types, BrowserTypes
<1>7. PlaceInv(s)' /\ WordsInv(s)'
  <2>1. PlaceInv(s)'
    BY <1>2 DEF PlaceInv, Before
  <2> QED
    BY <1>2, <2>1 DEF WordsInv, Sent
<1>8. CASE page[s] = "open"
  <2>1. up' = [up EXCEPT ![s] = Append(up[s], x)] /\ Append(up[s], x) \in Seq(Frame)
    BY <1>2, <1>3, <1>4, <1>8
  <2>2. /\ up' \in [Shell -> Seq(Frame)] /\ up'[s] = Append(up[s], x)
        /\ \A u \in Shell \ {s} : up'[u] = up[u]
    BY <1>1, <2>1 DEF Types, SocketTypes
  <2>3. SocketTypes'
    BY <1>1, <2>2 DEF Types, SocketTypes
  <2>4. PageInv(s)'
    <3>1. \A i \in 1 .. Len(Append(up[s], x)) : "bye" \in DOMAIN Append(up[s], x)[i] => page[s] = "left"
      BY <1>2, <1>3, ByeAppend DEF PageInv
    <3> QED
      BY <1>2, <1>8, <2>2, <3>1 DEF PageInv
  <2>5. SizeInv(s)'
    BY <1>2, <1>3, <1>5, <2>2, SizeMore DEF SizeInv, Before
  <2>6. KeysInv(s)'
    BY <1>2, <1>3, <1>8, <2>2, SendKeys DEF Piece
  <2> QED
    BY <1>5, <1>6, <1>7, <2>2, <2>3, <2>4, <2>5, <2>6, PageStep
<1>9. CASE page[s] = "connecting"
  <2>1. UNCHANGED up
    BY <1>4, <1>9
  <2>2. SocketTypes'
    BY <1>1, <2>1 DEF Types, SocketTypes
  <2>3. PageInv(s)' /\ SizeInv(s)'
    BY <1>2, <1>9, <2>1 DEF PageInv, SizeInv
  <2>4. KeysInv(s)'
    BY <1>2, <2>1 DEF KeysInv, Before, Past, Typed
  <2> QED
    BY <1>5, <1>6, <1>7, <2>1, <2>2, <2>3, <2>4, PageStep
<1> QED
  BY <1>4, <1>8, <1>9

LEMMA ShowStep == ASSUME BridgeInv, NEW s \in Shell, Show(s) PROVE BridgeInv'
<1> USE DEF Show, Set, Add, console, terminal, sandbox
<1>1. Types
  BY Parts
<1>2. /\ shown[s] \in Seq(Nat) /\ down[s] \in Seq(Nat) /\ down[s] # << >> /\ page[s] = "open"
      /\ PlaceInv(s) /\ PageInv(s) /\ SizeInv(s) /\ KeysInv(s) /\ WordsInv(s)
  BY ShellFacts
<1>3. RunsOn(shown[s], 0) /\ RunsOn(down[s], Len(shown[s])) /\ Len(shown[s]) \in Nat
  BY <1>2 DEF WordsInv
<1> DEFINE h == Head(down[s])
           a == Append(shown[s], h)
           d == Tail(down[s])
<1>4. /\ h = Len(shown[s]) + 1 /\ RunsOn(d, Len(shown[s]) + 1)
      /\ d \in Seq(Nat) /\ Len(d) = Len(down[s]) - 1 /\ Len(down[s]) \in Nat \ {0}
  BY <1>2, <1>3, RunsTail
<1>5. RunsOn(a, 0) /\ a \in Seq(Nat) /\ Len(a) = Len(shown[s]) + 1
  <2>1. 0 + Len(shown[s]) + 1 = h
    BY <1>3, <1>4
  <2> QED
    BY <1>2, <1>3, <2>1, RunsAppend
<1>6. shown' = [shown EXCEPT ![s] = a] /\ down' = [down EXCEPT ![s] = d]
  OBVIOUS
<1> HIDE DEF h, a, d
<1>7. /\ shown' \in [Shell -> Seq(Nat)] /\ shown'[s] = a /\ down' \in [Shell -> Seq(Nat)] /\ down'[s] = d
      /\ \A u \in Shell \ {s} : shown'[u] = shown[u] /\ down'[u] = down[u]
  BY <1>1, <1>4, <1>5, <1>6 DEF Types, BrowserTypes, SocketTypes
<1>8. \A u \in Shell : Len(down'[u]) <= DownCap
  <2>1. \A u \in Shell : Len(down[u]) <= DownCap
    BY <1>1 DEF Types, SocketTypes
  <2>2. DownCap \in Nat
    BY CapsAssumption
  <2>3. Len(down'[s]) <= DownCap
    BY <1>4, <1>7, <2>1, <2>2
  <2> QED
    BY <1>7, <2>1, <2>3
<1>9. BrowserTypes' /\ SocketTypes'
  BY <1>1, <1>7, <1>8 DEF Types, BrowserTypes, SocketTypes
<1>10. PlaceInv(s)'
  BY <1>2 DEF PlaceInv, Before
<1>11. PageInv(s)' /\ SizeInv(s)'
  BY <1>2 DEF PageInv, SizeInv, Before
<1>12. KeysInv(s)'
  BY <1>2 DEF KeysInv, Before, Past, Typed
<1>13. Sent(s)' = Sent(s)
  BY <1>3, <1>4, <1>5, <1>7 DEF Sent
<1>14. WordsInv(s)'
  <2>1. RunsOn(shown'[s], 0) /\ RunsOn(down'[s], Len(shown'[s]))
    BY <1>4, <1>5, <1>7
  <2> QED
    BY <1>2, <1>13, <2>1 DEF WordsInv
<1> QED
  BY <1>7, <1>9, <1>10, <1>11, <1>12, <1>14, PageStep

LEMMA LeaveStep == ASSUME BridgeInv, NEW s \in Shell, Leave(s) PROVE BridgeInv'
<1> USE DEF Leave, UnchangedByPage, Set, Add, console, terminal, sandbox
<1> DEFINE x == [bye |-> TRUE]
<1>1. Types
  BY Parts
<1>2. /\ page[s] = "open" /\ typed[s] \in Nat /\ up[s] \in Seq(Frame)
      /\ PlaceInv(s) /\ PageInv(s) /\ KeysInv(s) /\ WordsInv(s)
  BY ShellFacts
<1>3. x \in Frame /\ ~HasKeys(x)
  BY FrameForms
<1>4. page' = [page EXCEPT ![s] = "left"] /\ up' = [up EXCEPT ![s] = Append(up[s], x)]
  OBVIOUS
<1> HIDE DEF x
<1>5. Append(up[s], x) \in Seq(Frame)
  BY <1>2, <1>3
<1>6. /\ up' \in [Shell -> Seq(Frame)] /\ up'[s] = Append(up[s], x) /\ page'[s] = "left"
      /\ page' \in [Shell -> {"connecting", "open", "left", "closed"}]
      /\ \A u \in Shell \ {s} : up'[u] = up[u] /\ page'[u] = page[u]
  BY <1>1, <1>4, <1>5 DEF Types, BrowserTypes, SocketTypes
<1>7. BrowserTypes' /\ SocketTypes'
  BY <1>1, <1>6 DEF Types, BrowserTypes, SocketTypes
<1>8. PlaceInv(s)'
  BY <1>2 DEF PlaceInv, Before
<1>9. PageInv(s)' /\ SizeInv(s)'
  BY <1>2, <1>6 DEF PageInv, SizeInv
<1>10. KeysInv(s)'
  BY <1>2, <1>3, <1>6, SendKeys DEF Piece
<1>11. WordsInv(s)'
  BY <1>2, <1>6 DEF WordsInv
<1> QED
  BY <1>6, <1>7, <1>8, <1>9, <1>10, <1>11, PageStep

-----------------------------------------------------------------------------
(* A bridge begins and ends.                                                 *)

LEMMA AcceptStep == ASSUME BridgeInv, NEW s \in Shell, Accept(s) PROVE BridgeInv'
<1> USE DEF Accept, Set, browser, socket, terminal, sandbox
<1>1. Types /\ FdInv
  BY Parts
<1>2. /\ bridge[s] = "none" /\ page[s] = "connecting"
      /\ PlaceInv(s) /\ PageInv(s) /\ KeysInv(s) /\ WordsInv(s)
  BY ShellFacts
<1>3. /\ bridge' \in [Shell -> {"none", "accepted", "exec", "pump", "stop", "closed"}]
      /\ bridge'[s] = "accepted" /\ \A u \in Shell \ {s} : bridge'[u] = bridge[u]
  BY <1>1 DEF Types, ConsoleTypes
<1>4. Types'
  BY <1>1, <1>3 DEF Types, BrowserTypes, SocketTypes, ConsoleTypes, TerminalTypes, SandboxTypes
<1>5. FdInv'
  BY <1>1, <1>2, <1>3 DEF FdInv, Held
<1>6. PlaceInv(s)' /\ PageInv(s)' /\ SizeInv(s)'
  BY <1>2, <1>3 DEF PlaceInv, PageInv, SizeInv, Before
<1>7. KeysInv(s)'
  BY <1>2, <1>3 DEF KeysInv, Before, Past, Typed
<1>8. WordsInv(s)'
  BY <1>2 DEF WordsInv, Sent
<1>9. \A u \in Shell \ {s} : Same(u)
  BY <1>3 DEF Same
<1> QED
  BY <1>4, <1>5, <1>6, <1>7, <1>8, <1>9, ShellStep

\* What Hangup makes of a bridge that pumps no more, and of its page.
LEMMA HangupStep ==
  ASSUME BridgeInv, NEW s \in Shell, Hangup(s), bridge[s] \in {"accepted", "exec", "stop"},
         UNCHANGED <<pump, queue, rest, taken, written>>, SandboxTypes',
         owner' \in [Fd -> Shell \union {None}], UNCHANGED reader, FdInv',
         \A u \in Shell \ {s} : child'[u] = child[u],
         child'[s] \in {"none", "reaped"}
  PROVE  BridgeInv'
<1> USE DEF Hangup, Set
<1>1. Types
  BY Parts
<1>2. /\ shown[s] \in Seq(Nat) /\ down[s] \in Seq(Nat)
      /\ page[s] \in {"connecting", "open", "left", "closed"}
      /\ PlaceInv(s) /\ PageInv(s) /\ KeysInv(s) /\ WordsInv(s)
  BY ShellFacts
<1>0. << >> \in Seq(Nat) /\ << >> \in Seq(Frame) /\ Len(<< >>) = 0
  BY EmptySeq
<1> DEFINE b == IF page[s] = "left" THEN shown[s] ELSE shown[s] \o down[s]
           p == IF page[s] = "left" THEN "left" ELSE "closed"
<1>3. b \in Seq(Nat)
  BY <1>2
<1>4. page' = [page EXCEPT ![s] = p] /\ shown' = [shown EXCEPT ![s] = b]
  OBVIOUS
<1>5. p \in {"left", "closed"} /\ (p = "left" <=> page[s] = "left")
  OBVIOUS
<1>6. page[s] # "left" => b = shown[s] \o down[s]
  OBVIOUS
<1> HIDE DEF b, p
<1>7. /\ page' \in [Shell -> {"connecting", "open", "left", "closed"}] /\ page'[s] = p
      /\ shown' \in [Shell -> Seq(Nat)] /\ shown'[s] = b
      /\ \A u \in Shell \ {s} : page'[u] = page[u] /\ shown'[u] = shown[u]
  BY <1>1, <1>3, <1>4, <1>5 DEF Types, BrowserTypes
<1>8. BrowserTypes'
  BY <1>1, <1>7 DEF Types, BrowserTypes
<1>9. /\ up' \in [Shell -> Seq(Frame)] /\ up'[s] = << >>
      /\ down' \in [Shell -> Seq(Nat)] /\ down'[s] = << >>
      /\ \A u \in Shell \ {s} : up'[u] = up[u] /\ down'[u] = down[u]
  BY <1>0, <1>1 DEF Types, SocketTypes
<1>c. InCap \in Nat /\ OutCap \in Nat /\ DownCap \in Nat /\ 0 <= InCap /\ 0 <= OutCap /\ 0 <= DownCap
  BY CapsAssumption
<1>10. SocketTypes'
  BY <1>0, <1>1, <1>9, <1>c DEF Types, SocketTypes
<1>11. /\ bridge' \in [Shell -> {"none", "accepted", "exec", "pump", "stop", "closed"}]
       /\ bridge'[s] = "closed" /\ fd' \in [Shell -> Fd \union {None}] /\ fd'[s] = None
       /\ \A u \in Shell \ {s} : bridge'[u] = bridge[u] /\ fd'[u] = fd[u]
  BY <1>1 DEF Types, ConsoleTypes
<1>12. ConsoleTypes'
  BY <1>1, <1>11 DEF Types, ConsoleTypes
<1>13. /\ input' \in [Shell -> Seq(Nat)] /\ input'[s] = << >>
       /\ output' \in [Shell -> Seq(Nat)] /\ output'[s] = << >>
       /\ size' \in [Shell -> Sizes \union {Default}]
       /\ \A u \in Shell \ {s} : input'[u] = input[u] /\ output'[u] = output[u] /\ size'[u] = size[u]
  BY <1>0, <1>1 DEF Types, TerminalTypes
<1>14. TerminalTypes'
  BY <1>0, <1>1, <1>13, <1>c DEF Types, TerminalTypes
<1>15. rest[s] = << >> /\ pump[s] = {} /\ queue[s] = << >>
  BY <1>2 DEF PlaceInv
<1>16. PlaceInv(s)' /\ SizeInv(s)'
  BY <1>9, <1>11, <1>15 DEF PlaceInv, SizeInv, Before
<1>17. PageInv(s)'
  BY <1>0, <1>2, <1>5, <1>7, <1>9, <1>11 DEF PageInv
<1>18. KeysInv(s)'
  BY <1>2, <1>11 DEF KeysInv, Before
<1>19. WordsInv(s)'
  <2>1. RunsOn(written[s], 0)
    BY <1>2 DEF WordsInv
  <2>2. ASSUME page[s] # "left"
        PROVE  RunsOn(b, 0) /\ Len(b) = Len(written[s])
    <3>1. RunsOn(shown[s], 0) /\ RunsOn(down[s], Len(shown[s])) /\ Sent(s) = Len(written[s])
      BY <1>2, <1>15, <2>2 DEF WordsInv
    <3>2. 0 + Len(shown[s]) = Len(shown[s])
      BY <1>2
    <3>3. RunsOn(shown[s] \o down[s], 0) /\ Len(shown[s] \o down[s]) = Len(shown[s]) + Len(down[s])
      BY <1>2, <3>1, <3>2, RunsConcat
    <3> QED
      BY <1>6, <2>2, <3>1, <3>3 DEF Sent
  <2>3. RunsOn(<< >>, Len(b)) /\ Len(b) + 0 = Len(b)
    BY <1>0, <1>3 DEF RunsOn
  <2> QED
    BY <1>0, <1>5, <1>7, <1>9, <1>15, <2>1, <2>2, <2>3 DEF WordsInv, Sent
<1>20. \A u \in Shell \ {s} : Same(u)
  BY <1>7, <1>9, <1>11, <1>13 DEF Same
<1>21. Types'
  BY <1>8, <1>10, <1>12, <1>14 DEF Types
<1> QED
  BY <1>16, <1>17, <1>18, <1>19, <1>20, <1>21, ShellStep

LEMMA RefuseStep == ASSUME BridgeInv, NEW s \in Shell, Refuse(s) PROVE BridgeInv'
<1>1. Types /\ FdInv
  BY Parts
<1>2. bridge[s] = "accepted" /\ PlaceInv(s) /\ fd[s] = None
  BY <1>1, ShellFacts DEF Refuse, FdInv, Held
<1>3. child[s] = "none"
  BY <1>2 DEF PlaceInv, Before
<1>4. SandboxTypes' /\ UNCHANGED <<owner, reader, child, taken, written, pump, queue, rest>>
  BY <1>1 DEF Types, SandboxTypes, Refuse, sandbox
<1>5. /\ bridge'[s] = "closed" /\ fd'[s] = None
      /\ \A u \in Shell \ {s} : bridge'[u] = bridge[u] /\ fd'[u] = fd[u]
  BY <1>1 DEF Types, ConsoleTypes, Refuse, Hangup, Set
<1>6. FdInv'
  BY <1>1, <1>2, <1>4, <1>5, ShellAssumption DEF FdInv, Held
<1>7. owner' \in [Fd -> Shell \union {None}]
  BY <1>1, <1>4 DEF Types, ConsoleTypes
<1> QED
  BY <1>2, <1>3, <1>4, <1>6, <1>7, HangupStep DEF Refuse

LEMMA OpenPtyStep == ASSUME BridgeInv, NEW s \in Shell, OpenPty(s) PROVE BridgeInv'
<1> USE DEF OpenPty, Set, browser, socket, sandbox
<1>1. Types /\ FdInv
  BY Parts
<1>2. PICK f \in Fd : owner[f] = None /\ owner' = [owner EXCEPT ![f] = s] /\ fd' = [fd EXCEPT ![s] = f]
  OBVIOUS
<1>3. /\ bridge[s] = "accepted"
      /\ PlaceInv(s) /\ PageInv(s) /\ SizeInv(s) /\ KeysInv(s) /\ WordsInv(s)
  BY ShellFacts
<1>4. /\ bridge' \in [Shell -> {"none", "accepted", "exec", "pump", "stop", "closed"}]
      /\ bridge'[s] = "exec" /\ fd' \in [Shell -> Fd \union {None}] /\ fd'[s] = f
      /\ \A u \in Shell \ {s} : bridge'[u] = bridge[u] /\ fd'[u] = fd[u]
  BY <1>1, <1>2 DEF Types, ConsoleTypes
<1>5. /\ owner' \in [Fd -> Shell \union {None}] /\ owner'[f] = s
      /\ \A g \in Fd \ {f} : owner'[g] = owner[g]
  BY <1>1, <1>2 DEF Types, ConsoleTypes
<1>6. /\ size' \in [Shell -> Sizes \union {Default}]
      /\ \A u \in Shell \ {s} : size'[u] = size[u]
  BY <1>1 DEF Types, TerminalTypes
<1>7. Types'
  BY <1>1, <1>4, <1>5, <1>6 DEF Types, BrowserTypes, SocketTypes, ConsoleTypes, TerminalTypes, SandboxTypes
<1>8. FdInv'
  <2>1. f # None /\ s # None /\ fd[s] = None
    BY <1>1, <1>3, ShellAssumption DEF FdInv, Held
  <2>2. \A u \in Shell : fd[u] # f
    BY <1>1, <1>2, ShellAssumption DEF FdInv
  <2>3. \A g \in Fd : reader[g] # s
    BY <1>1, <1>3 DEF FdInv
  <2>4. \A u \in Shell : fd'[u] # None <=> Held(u)'
    BY <1>1, <1>4, <2>1 DEF FdInv, Held
  <2>5. \A u \in Shell, g \in Fd : owner'[g] = u <=> fd'[u] = g
    <3> SUFFICES ASSUME NEW u \in Shell, NEW g \in Fd PROVE owner'[g] = u <=> fd'[u] = g
      OBVIOUS
    <3>1. owner[g] = u <=> fd[u] = g
      BY <1>1 DEF FdInv
    <3> QED
      BY <1>4, <1>5, <2>1, <2>2, <3>1, ShellAssumption
  <2>6. \A u \in Shell, g \in Fd : reader'[g] = u <=> fd'[u] = g /\ bridge'[u] = "pump"
    BY <1>1, <1>4, <2>3 DEF FdInv
  <2> QED
    BY <2>4, <2>5, <2>6 DEF FdInv
<1>9. PlaceInv(s)' /\ PageInv(s)' /\ SizeInv(s)'
  BY <1>3, <1>4 DEF PlaceInv, PageInv, SizeInv, Before
<1>10. KeysInv(s)'
  BY <1>3, <1>4 DEF KeysInv, Before, Past, Typed
<1>11. WordsInv(s)'
  BY <1>3 DEF WordsInv, Sent
<1>12. \A u \in Shell \ {s} : Same(u)
  BY <1>4, <1>6 DEF Same
<1> QED
  BY <1>7, <1>8, <1>9, <1>10, <1>11, <1>12, ShellStep

\* The descriptor of a bridge that ends is nobody's.
LEMMA FdFreed ==
  ASSUME BridgeInv, NEW s \in Shell, bridge[s] \in {"exec", "stop"},
         owner' = [owner EXCEPT ![fd[s]] = None], UNCHANGED reader, Hangup(s)
  PROVE  FdInv' /\ owner' \in [Fd -> Shell \union {None}]
<1>1. Types /\ FdInv
  BY Parts
<1>2. fd[s] \in Fd /\ s # None
  BY <1>1, ShellAssumption DEF FdInv, Held, Types, ConsoleTypes
<1>3. /\ owner' \in [Fd -> Shell \union {None}] /\ owner'[fd[s]] = None
      /\ \A g \in Fd \ {fd[s]} : owner'[g] = owner[g]
  BY <1>1, <1>2 DEF Types, ConsoleTypes
<1>4. /\ bridge'[s] = "closed" /\ fd'[s] = None
      /\ \A u \in Shell \ {s} : bridge'[u] = bridge[u] /\ fd'[u] = fd[u]
  BY <1>1 DEF Types, ConsoleTypes, Hangup, Set
<1>5. \A u \in Shell : fd'[u] # None <=> Held(u)'
  BY <1>1, <1>4 DEF FdInv, Held
<1>6. \A u \in Shell, g \in Fd : owner'[g] = u <=> fd'[u] = g
  <2> SUFFICES ASSUME NEW u \in Shell, NEW g \in Fd PROVE owner'[g] = u <=> fd'[u] = g
    OBVIOUS
  <2>1. owner[g] = u <=> fd[u] = g
    BY <1>1 DEF FdInv
  <2>2. owner[g] = s <=> fd[s] = g
    BY <1>1 DEF FdInv
  <2> QED
    BY <1>2, <1>3, <1>4, <2>1, <2>2, ShellAssumption
<1>7. \A u \in Shell, g \in Fd : reader'[g] = u <=> fd'[u] = g /\ bridge'[u] = "pump"
  BY <1>1, <1>4, ShellAssumption DEF FdInv
<1> QED
  BY <1>3, <1>5, <1>6, <1>7 DEF FdInv

LEMMA SpawnFailsStep == ASSUME BridgeInv, NEW s \in Shell, SpawnFails(s) PROVE BridgeInv'
<1>1. Types
  BY Parts
<1>2. bridge[s] = "exec" /\ PlaceInv(s)
  BY ShellFacts DEF SpawnFails
<1>3. child[s] = "none"
  BY <1>2 DEF PlaceInv, Before
<1>4. SandboxTypes' /\ UNCHANGED <<reader, child, taken, written, pump, queue, rest>>
  BY <1>1 DEF Types, SandboxTypes, SpawnFails, sandbox
<1>5. FdInv' /\ owner' \in [Fd -> Shell \union {None}]
  BY <1>2, <1>4, FdFreed DEF SpawnFails, Set
<1> QED
  BY <1>2, <1>3, <1>4, <1>5, HangupStep DEF SpawnFails

LEMMA CloseStep == ASSUME BridgeInv, NEW s \in Shell, Close(s) PROVE BridgeInv'
<1>1. Types
  BY Parts
<1>2. bridge[s] = "stop"
  BY DEF Close
<1>3. /\ child' \in [Shell -> {"none", "alive", "dead", "reaped"}] /\ child'[s] = "reaped"
      /\ \A u \in Shell \ {s} : child'[u] = child[u]
  BY <1>1 DEF Types, SandboxTypes, Close, Set
<1>4. SandboxTypes' /\ UNCHANGED <<reader, taken, written, pump, queue, rest>>
  BY <1>1, <1>3 DEF Types, SandboxTypes, Close
<1>5. FdInv' /\ owner' \in [Fd -> Shell \union {None}]
  BY <1>2, <1>4, FdFreed DEF Close, Set
<1> QED
  BY <1>2, <1>3, <1>4, <1>5, HangupStep DEF Close

LEMMA SpawnedStep == ASSUME BridgeInv, NEW s \in Shell, Spawned(s) PROVE BridgeInv'
<1> USE DEF Spawned, Set, browser, socket, terminal
<1>1. Types /\ FdInv
  BY Parts
<1>2. /\ bridge[s] = "exec"
      /\ PlaceInv(s) /\ PageInv(s) /\ SizeInv(s) /\ KeysInv(s) /\ WordsInv(s)
  BY ShellFacts
<1>3. fd[s] \in Fd /\ s # None
  BY <1>1, <1>2, ShellAssumption DEF FdInv, Held, Types, ConsoleTypes
<1>4. /\ bridge' \in [Shell -> {"none", "accepted", "exec", "pump", "stop", "closed"}]
      /\ bridge'[s] = "pump" /\ pump' \in [Shell -> SUBSET {"in", "out"}] /\ pump'[s] = {"in", "out"}
      /\ child' \in [Shell -> {"none", "alive", "dead", "reaped"}] /\ child'[s] = "alive"
      /\ \A u \in Shell \ {s} : bridge'[u] = bridge[u] /\ pump'[u] = pump[u] /\ child'[u] = child[u]
  BY <1>1 DEF Types, ConsoleTypes, SandboxTypes
<1>5. /\ reader' \in [Fd -> Shell \union {None}] /\ reader'[fd[s]] = s
      /\ \A g \in Fd \ {fd[s]} : reader'[g] = reader[g]
  BY <1>1, <1>3 DEF Types, ConsoleTypes
<1>6. Types'
  BY <1>1, <1>4, <1>5 DEF Types, BrowserTypes, SocketTypes, ConsoleTypes, TerminalTypes, SandboxTypes
<1>7. FdInv'
  <2>1. \A u \in Shell : fd'[u] # None <=> Held(u)'
    BY <1>1, <1>2, <1>4 DEF FdInv, Held
  <2>2. \A u \in Shell, g \in Fd : owner'[g] = u <=> fd'[u] = g
    BY <1>1 DEF FdInv
  <2>3. \A u \in Shell, g \in Fd : reader'[g] = u <=> fd'[u] = g /\ bridge'[u] = "pump"
    <3> SUFFICES ASSUME NEW u \in Shell, NEW g \in Fd
                 PROVE  reader'[g] = u <=> fd'[u] = g /\ bridge'[u] = "pump"
      OBVIOUS
    <3>1. /\ reader[g] = u <=> fd[u] = g /\ bridge[u] = "pump"
          /\ owner[g] = u <=> fd[u] = g
          /\ owner[g] = s <=> fd[s] = g
          /\ reader[g] = s <=> fd[s] = g /\ bridge[s] = "pump"
      BY <1>1 DEF FdInv
    <3> QED
      BY <1>2, <1>4, <1>5, <3>1
  <2> QED
    BY <2>1, <2>2, <2>3 DEF FdInv
<1>8. /\ input[s] = << >> /\ output[s] = << >> /\ down[s] = << >> /\ taken[s] = << >>
      /\ written[s] = << >> /\ shown[s] = << >> /\ queue[s] = << >>
  BY <1>2 DEF PlaceInv, Before
<1>9. PlaceInv(s)' /\ PageInv(s)' /\ SizeInv(s)'
  BY <1>2, <1>4 DEF PlaceInv, PageInv, SizeInv, Before
<1>10. KeysInv(s)'
  BY <1>2 DEF KeysInv, Before, Past, Typed
<1>11. WordsInv(s)'
  <2>1. Len(<< >>) = 0
    OBVIOUS
  <2>2. Sent(s)' = 0 /\ Words(queue[s])' = 0 /\ ~Ended(queue[s])'
    BY <1>8, <2>1 DEF Sent, Words, Ended
  <2> QED
    BY <1>4, <1>8, <2>1, <2>2 DEF WordsInv, RunsOn, Says
<1>12. \A u \in Shell \ {s} : Same(u)
  BY <1>4 DEF Same
<1> QED
  BY <1>6, <1>7, <1>9, <1>10, <1>11, <1>12, ShellStep

LEMMA TeardownStep == ASSUME BridgeInv, NEW s \in Shell, Teardown(s) PROVE BridgeInv'
<1> USE DEF Teardown, Set, browser, socket, terminal
<1>1. Types /\ FdInv
  BY Parts
<1>2. /\ bridge[s] = "pump" /\ pump[s] # {"in", "out"} /\ pump[s] \subseteq {"in", "out"}
      /\ PageInv(s) /\ KeysInv(s) /\ WordsInv(s)
  BY ShellFacts
<1>3. fd[s] \in Fd /\ s # None
  BY <1>1, <1>2, ShellAssumption DEF FdInv, Held, Types, ConsoleTypes
<1>0. << >> \in Seq(Nat)
  OBVIOUS
<1>4. /\ bridge' \in [Shell -> {"none", "accepted", "exec", "pump", "stop", "closed"}]
      /\ bridge'[s] = "stop" /\ pump' \in [Shell -> SUBSET {"in", "out"}] /\ pump'[s] = {}
      /\ queue' \in [Shell -> Seq(Nat)] /\ queue'[s] = << >>
      /\ child' \in [Shell -> {"none", "alive", "dead", "reaped"}] /\ child'[s] = "dead"
      /\ \A u \in Shell \ {s} : /\ bridge'[u] = bridge[u] /\ pump'[u] = pump[u]
                                /\ queue'[u] = queue[u] /\ child'[u] = child[u]
  BY <1>0, <1>1 DEF Types, ConsoleTypes, SandboxTypes
<1>5. /\ reader' \in [Fd -> Shell \union {None}] /\ reader'[fd[s]] = None
      /\ \A g \in Fd \ {fd[s]} : reader'[g] = reader[g]
  BY <1>1, <1>3 DEF Types, ConsoleTypes
<1>6. Types'
  BY <1>1, <1>4, <1>5 DEF Types, BrowserTypes, SocketTypes, ConsoleTypes, TerminalTypes, SandboxTypes
<1>7. FdInv'
  <2>1. \A u \in Shell : fd'[u] # None <=> Held(u)'
    BY <1>1, <1>2, <1>4 DEF FdInv, Held
  <2>2. \A u \in Shell, g \in Fd : owner'[g] = u <=> fd'[u] = g
    BY <1>1 DEF FdInv
  <2>3. \A u \in Shell, g \in Fd : reader'[g] = u <=> fd'[u] = g /\ bridge'[u] = "pump"
    <3> SUFFICES ASSUME NEW u \in Shell, NEW g \in Fd
                 PROVE  reader'[g] = u <=> fd'[u] = g /\ bridge'[u] = "pump"
      OBVIOUS
    <3>1. /\ reader[g] = u <=> fd[u] = g /\ bridge[u] = "pump"
          /\ owner[g] = u <=> fd[u] = g
          /\ owner[g] = s <=> fd[s] = g
          /\ reader[g] = s <=> fd[s] = g /\ bridge[s] = "pump"
      BY <1>1 DEF FdInv
    <3> QED
      BY <1>2, <1>4, <1>5, <3>1, ShellAssumption
  <2> QED
    BY <2>1, <2>2, <2>3 DEF FdInv
<1>8. rest[s] = << >>
  BY DEF LoopTurns
<1>9. PlaceInv(s)' /\ SizeInv(s)'
  BY <1>4, <1>8 DEF PlaceInv, SizeInv, Before
<1>10. PageInv(s)'
  BY <1>2, <1>4 DEF PageInv
<1>11. KeysInv(s)'
  BY <1>2, <1>4 DEF KeysInv, Before
<1>12. WordsInv(s)'
  <2>1. page[s] # "left" => "out" \notin pump[s]
    BY <1>2 DEF PageInv
  <2> QED
    BY <1>2, <1>4, <2>1 DEF WordsInv, Sent
<1>13. \A u \in Shell \ {s} : Same(u)
  BY <1>4 DEF Same
<1> QED
  BY <1>6, <1>7, <1>9, <1>10, <1>11, <1>12, <1>13, ShellStep

-----------------------------------------------------------------------------
(* The pumps.                                                                *)

LEMMA Pumping ==
  ASSUME BridgeInv, NEW s \in Shell, bridge[s] = "pump"
  PROVE  /\ fd[s] \in Fd /\ owner[fd[s]] = s /\ s # None /\ ~Before(s)
         /\ child[s] \in {"alive", "dead"} /\ page[s] # "closed"
<1>1. FdInv /\ fd[s] \in Fd \union {None}
  BY Parts, ShellFacts
<1>2. PlaceInv(s) /\ PageInv(s)
  BY ShellFacts
<1>3. fd[s] \in Fd /\ owner[fd[s]] = s /\ s # None
  BY <1>1, ShellAssumption DEF FdInv, Held
<1> QED
  BY <1>2, <1>3 DEF PlaceInv, PageInv, Before

\* What is left for a write, and an oc that stands, belong to a bridge that pumps.
LEMMA BusyPumps ==
  ASSUME BridgeInv, NEW s \in Shell, rest[s] # << >> \/ child[s] = "alive"
  PROVE  bridge[s] = "pump"
<1>1. PlaceInv(s) /\ bridge[s] \in {"none", "accepted", "exec", "pump", "stop", "closed"}
  BY ShellFacts
<1> QED
  BY <1>1 DEF PlaceInv, Before

\* Sums, for the leaves that have other facts to deal with.
LEMMA Sums ==
  /\ \A k, m \in Nat : k + m \in Nat /\ k + (m + 1) = (k + m) + 1 /\ k + 0 = k
  /\ \A k \in Nat, m \in Nat \ {0} : (k + 1) + (m - 1) = k + m /\ (m - 1) + 1 = m
  /\ \A k, m, n \in Nat : k + (m + n) = (k + m) + n /\ k + (m + n) + 0 = (k + m) + n
OBVIOUS

LEMMA OneLess ==
  ASSUME NEW k \in Nat, NEW m \in Nat \ {0}, NEW n, n = m - 1 PROVE (k + 1) + n = k + m
OBVIOUS

LEMMA OneMore ==
  ASSUME NEW k \in Nat, NEW m \in Nat, NEW n, n = m + 1 PROVE k + n = (k + m) + 1
OBVIOUS

LEMMA SentNat ==
  ASSUME BridgeInv, NEW s \in Shell
  PROVE  Len(shown[s]) \in Nat /\ Len(down[s]) \in Nat /\ Sent(s) \in Nat
<1>1. shown[s] \in Seq(Nat) /\ down[s] \in Seq(Nat)
  BY ShellFacts
<1>2. Len(shown[s]) \in Nat /\ Len(down[s]) \in Nat
  BY <1>1
<1> QED
  BY <1>2, Sums, Zenon DEF Sent

LEMMA FdSame == ASSUME BridgeInv, UNCHANGED <<bridge, fd, owner, reader>> PROVE FdInv'
BY Parts DEF FdInv, Held

LEMMA ReadableStep == ASSUME BridgeInv, NEW f \in Fd, Readable(f) PROVE BridgeInv'
<1> USE DEF Set, Add, browser, socket, sandbox
<1>1. Types /\ FdInv
  BY Parts
<1>2. PICK s \in Shell : reader[f] = s /\ owner[f] = s /\ bridge[s] = "pump"
  BY <1>1 DEF Types, ConsoleTypes, FdInv, Readable
<1>3. /\ queue[s] \in Seq(Nat) /\ output[s] \in Seq(Nat)
      /\ shown[s] \in Seq(Nat) /\ down[s] \in Seq(Nat)
      /\ PlaceInv(s) /\ PageInv(s) /\ SizeInv(s) /\ KeysInv(s) /\ WordsInv(s) /\ ~Before(s)
  BY <1>2, ShellFacts, Pumping
<1>4. UNCHANGED <<page, typed, outQueue, win, shown, up, down, bridge, fd, pump, rest, owner,
                  reader, input, size, child, taken, written>>
  BY DEF Readable
<1>5. Sent(s) \in Nat /\ Sent(s)' = Sent(s)
  BY <1>4, SentNat DEF Sent
<1> DEFINE c == queue[s] \o output[s]
           e == Append(queue[s], Eof)
<1>6. \/ output[s] # << >> /\ queue' = [queue EXCEPT ![s] = c] /\ output' = [output EXCEPT ![s] = << >>]
      \/ /\ output[s] = << >> /\ child[s] # "alive" /\ Eof \notin Range(queue[s])
         /\ queue' = [queue EXCEPT ![s] = e] /\ UNCHANGED output
  BY <1>2 DEF Readable
<1>7. c \in Seq(Nat) /\ e \in Seq(Nat) /\ << >> \in Seq(Nat) /\ Len(<< >>) = 0
  BY <1>3 DEF Eof
<1> HIDE DEF c, e
<1>8. /\ queue' \in [Shell -> Seq(Nat)] /\ output' \in [Shell -> Seq(Nat)]
      /\ \A u \in Shell \ {s} : queue'[u] = queue[u] /\ output'[u] = output[u]
      /\ \/ output[s] # << >> /\ queue'[s] = c /\ output'[s] = << >>
         \/ /\ output[s] = << >> /\ child[s] # "alive" /\ Eof \notin Range(queue[s])
            /\ queue'[s] = e /\ output'[s] = << >>
  <2>1. queue \in [Shell -> Seq(Nat)] /\ output \in [Shell -> Seq(Nat)]
    BY <1>1 DEF Types, ConsoleTypes, TerminalTypes
  <2>2. CASE output[s] # << >>
    BY <1>2, <1>6, <1>7, <2>1, <2>2
  <2>3. CASE output[s] = << >>
    <3>1. queue' = [queue EXCEPT ![s] = e] /\ UNCHANGED output /\ child[s] # "alive" /\ Eof \notin Range(queue[s])
      BY <1>6, <2>3
    <3> QED
      BY <1>2, <1>7, <2>1, <2>3, <3>1
  <2> QED
    BY <2>2, <2>3
<1>9. \A u \in Shell : Len(output'[u]) <= OutCap
  <2>1. 0 <= OutCap /\ \A u \in Shell : Len(output[u]) <= OutCap
    BY <1>1, CapsAssumption DEF Types, TerminalTypes
  <2> QED
    BY <1>7, <1>8, <2>1
<1>10. Types'
  BY <1>1, <1>4, <1>8, <1>9 DEF Types, BrowserTypes, SocketTypes, ConsoleTypes, TerminalTypes, SandboxTypes
<1>11. FdInv'
  BY <1>4, FdSame
<1>12. PlaceInv(s)' /\ PageInv(s)' /\ SizeInv(s)'
  BY <1>2, <1>3, <1>4 DEF PlaceInv, PageInv, SizeInv, Before
<1>13. KeysInv(s)'
  BY <1>3, <1>4 DEF KeysInv, Before, Past, Typed
<1>14. WordsInv(s)'
  <2> DEFINE q == queue'[s]
  <2> SUFFICES ASSUME page[s] # "left", "out" \in pump[s]
               PROVE  /\ Says(q, Sent(s)) /\ RunsOn(<< >>, Sent(s) + Words(q))
                      /\ Sent(s) + Words(q) + 0 = Len(written[s])
                      /\ Ended(q) => child[s] # "alive"
    BY <1>3, <1>4, <1>5, <1>7, <1>8 DEF WordsInv
  <2> HIDE DEF q
  <2>0. RunsOn(<< >>, Sent(s) + Words(q))
    BY <1>7 DEF RunsOn
  <2>1. /\ Says(queue[s], Sent(s)) /\ RunsOn(output[s], Sent(s) + Words(queue[s]))
        /\ Sent(s) + Words(queue[s]) + Len(output[s]) = Len(written[s])
        /\ Ended(queue[s]) => output[s] = << >> /\ child[s] # "alive"
    BY <1>3 DEF WordsInv
  <2>2. CASE output[s] # << >>
    <3>1. q = c /\ ~Ended(queue[s])
      BY <1>8, <2>1, <2>2 DEF q
    <3>2. /\ ~Ended(c) /\ Says(c, Sent(s)) /\ Words(c) = Words(queue[s]) + Len(output[s])
          /\ Words(queue[s]) \in Nat
      BY <1>3, <1>5, <2>1, <2>2, <3>1, WordsConcat DEF c
    <3>3. Len(output[s]) \in Nat
      BY <1>3
    <3>4. Sent(s) + Words(c) + 0 = Len(written[s])
      BY <1>5, <2>1, <3>2, <3>3
    <3> QED
      BY <2>0, <3>1, <3>2, <3>4
  <2>3. CASE output[s] = << >>
    <3>1. q = e /\ child[s] # "alive" /\ Eof \notin Range(queue[s])
      BY <1>8, <2>3 DEF q
    <3>2. ~Ended(queue[s])
      <4> SUFFICES ASSUME Ended(queue[s]) PROVE FALSE
        OBVIOUS
      <4>1. Len(queue[s]) \in 1 .. Len(queue[s])
        BY <1>3, EmptySeq DEF Ended
      <4> QED
        BY <1>3, <3>1, <4>1 DEF Range, Ended
    <3>3. Says(e, Sent(s)) /\ Words(e) = Words(queue[s])
      BY <1>3, <1>5, <2>1, <3>2, WordsEnd DEF e
    <3>4. Sent(s) + Words(queue[s]) + 0 = Len(written[s])
      BY <1>7, <2>1, <2>3
    <3> QED
      BY <2>0, <3>1, <3>3, <3>4
  <2> QED
    BY <2>2, <2>3
<1>15. \A u \in Shell \ {s} : Same(u)
  BY <1>4, <1>8 DEF Same
<1> QED
  BY <1>2, <1>10, <1>11, <1>12, <1>13, <1>14, <1>15, ShellStep

LEMMA PumpOutputStep == ASSUME BridgeInv, NEW s \in Shell, PumpOutput(s) PROVE BridgeInv'
<1> USE DEF Set, Add, browser, terminal, sandbox
<1>1. Types
  BY Parts
<1>2. /\ bridge[s] = "pump" /\ "out" \in pump[s] /\ queue[s] # << >>
      /\ queue' = [queue EXCEPT ![s] = Tail(queue[s])]
      /\ UNCHANGED <<page, typed, outQueue, win, shown, up, bridge, fd, rest, owner, reader,
                     input, output, size, child, taken, written>>
  BY DEF PumpOutput
<1>3. \/ /\ Head(queue[s]) # Eof /\ page[s] # "left" /\ Len(down[s]) < DownCap
         /\ down' = [down EXCEPT ![s] = Append(down[s], Head(queue[s]))] /\ UNCHANGED pump
      \/ Head(queue[s]) # Eof /\ page[s] = "left" /\ UNCHANGED <<down, pump>>
      \/ /\ Head(queue[s]) = Eof \/ page[s] = "left"
         /\ pump' = [pump EXCEPT ![s] = pump[s] \ {"out"}] /\ UNCHANGED down
  BY DEF PumpOutput
<1>4. /\ queue[s] \in Seq(Nat) /\ output[s] \in Seq(Nat) /\ pump[s] \subseteq {"in", "out"}
      /\ shown[s] \in Seq(Nat) /\ down[s] \in Seq(Nat)
      /\ PlaceInv(s) /\ PageInv(s) /\ SizeInv(s) /\ KeysInv(s) /\ WordsInv(s) /\ ~Before(s)
  BY <1>2, ShellFacts, Pumping
<1> DEFINE h == Head(queue[s])
           q == Tail(queue[s])
           d == Append(down[s], h)
<1>5. h \in Nat /\ q \in Seq(Nat) /\ d \in Seq(Nat) /\ Len(d) = Len(down[s]) + 1
  <2>1. h \in Nat /\ q \in Seq(Nat)
    BY <1>2, <1>4, HeadTailProperties
  <2> HIDE DEF h
  <2> QED
    BY <1>4, <2>1, AppendProperties
<1>6. \/ /\ h # Eof /\ page[s] # "left" /\ Len(down[s]) < DownCap
         /\ down' = [down EXCEPT ![s] = d] /\ UNCHANGED pump
      \/ h # Eof /\ page[s] = "left" /\ UNCHANGED <<down, pump>>
      \/ /\ h = Eof \/ page[s] = "left"
         /\ pump' = [pump EXCEPT ![s] = pump[s] \ {"out"}] /\ UNCHANGED down
  BY <1>3
<1> HIDE DEF h, q, d
<1>7. /\ queue' \in [Shell -> Seq(Nat)] /\ queue'[s] = q
      /\ \A u \in Shell \ {s} : queue'[u] = queue[u]
  BY <1>1, <1>2, <1>5 DEF Types, ConsoleTypes, q
<1>8. /\ down' \in [Shell -> Seq(Nat)] /\ \A u \in Shell \ {s} : down'[u] = down[u]
      /\ down'[s] = IF h # Eof /\ page[s] # "left" THEN d ELSE down[s]
      /\ h # Eof /\ page[s] # "left" => Len(down[s]) < DownCap
  BY <1>1, <1>5, <1>6 DEF Types, SocketTypes
<1>9. /\ pump' \in [Shell -> SUBSET {"in", "out"}] /\ \A u \in Shell \ {s} : pump'[u] = pump[u]
      /\ pump'[s] \in {pump[s], pump[s] \ {"out"}}
      /\ page[s] # "left" => pump'[s] = IF h # Eof THEN pump[s] ELSE pump[s] \ {"out"}
  BY <1>1, <1>6 DEF Types, ConsoleTypes
<1>10. \A u \in Shell : Len(down'[u]) <= DownCap
  <2>1. \A u \in Shell : Len(down[u]) <= DownCap
    BY <1>1 DEF Types, SocketTypes
  <2>2. DownCap \in Nat /\ Len(down[s]) \in Nat
    BY <1>4, CapsAssumption
  <2>3. Len(down'[s]) <= DownCap
    BY <1>5, <1>8, <2>1, <2>2
  <2> QED
    BY <1>8, <2>1, <2>3
<1>11. Types'
  BY <1>1, <1>2, <1>7, <1>8, <1>9, <1>10
     DEF Types, BrowserTypes, SocketTypes, ConsoleTypes, TerminalTypes, SandboxTypes
<1>12. FdInv'
  BY <1>2, FdSame
<1>13. PlaceInv(s)' /\ SizeInv(s)'
  BY <1>2, <1>4 DEF PlaceInv, SizeInv, Before
<1>14. PageInv(s)'
  BY <1>2, <1>4, <1>9 DEF PageInv
<1>15. KeysInv(s)'
  BY <1>2, <1>4 DEF KeysInv, Before, Past, Typed
<1>16. WordsInv(s)'
  <2>1. RunsOn(written[s], 0)
    BY <1>4 DEF WordsInv
  <2>2. CASE page[s] = "left"
    BY <1>2, <2>1, <2>2 DEF WordsInv
  <2>3. CASE page[s] # "left"
    <3>1. /\ RunsOn(shown[s], 0) /\ RunsOn(down[s], Len(shown[s]))
          /\ Says(queue[s], Sent(s)) /\ RunsOn(output[s], Sent(s) + Words(queue[s]))
          /\ Sent(s) + Words(queue[s]) + Len(output[s]) = Len(written[s])
          /\ Ended(queue[s]) => output[s] = << >> /\ child[s] # "alive"
      BY <1>2, <1>4, <2>3 DEF WordsInv
    <3>2. Len(shown[s]) \in Nat /\ Len(down[s]) \in Nat /\ Len(output[s]) \in Nat
      BY <1>4
    <3>3. Sent(s) = Len(shown[s]) + Len(down[s]) /\ Sent(s) \in Nat
      BY SentNat DEF Sent
    <3>4. CASE h # Eof
      <4>1. /\ h = Sent(s) + 1 /\ (Ended(q) <=> Ended(queue[s])) /\ Says(q, Sent(s) + 1)
            /\ Words(q) = Words(queue[s]) - 1 /\ Words(queue[s]) \in Nat \ {0}
        BY <1>2, <1>4, <3>1, <3>3, <3>4, WordsHead DEF h, q
      <4>2. h = Len(shown[s]) + Len(down[s]) + 1
        BY <3>3, <4>1
      <4>3. RunsOn(d, Len(shown[s]))
        BY <1>4, <3>1, <3>2, <4>2, RunsAppend DEF d
      <4>4. down'[s] = d /\ pump'[s] = pump[s]
        BY <1>8, <1>9, <2>3, <3>4
      <4>5. Sent(s)' = Sent(s) + 1
        <5>1. Sent(s)' = Len(shown[s]) + Len(d)
          BY <1>2, <4>4 DEF Sent
        <5>2. Len(shown[s]) + Len(d) = (Len(shown[s]) + Len(down[s])) + 1
          BY <1>5, <3>2, OneMore
        <5> QED
          BY <3>3, <5>1, <5>2, Zenon
      <4>6. (Sent(s) + 1) + Words(q) = Sent(s) + Words(queue[s])
        BY <3>3, <4>1, OneLess
      <4> QED
        BY <1>2, <1>7, <2>1, <3>1, <4>1, <4>3, <4>4, <4>5, <4>6 DEF WordsInv
    <3>5. CASE h = Eof
      <4>1. Ended(queue[s]) /\ Words(queue[s]) = 0
        BY <1>2, <1>4, <3>1, <3>3, <3>5, WordsOver DEF h
      <4>2. child[s] # "alive" /\ Len(output[s]) = 0
        BY <3>1, <4>1
      <4>3. Sent(s) = Len(written[s])
        <5>1. (Sent(s) + 0) + 0 = Sent(s)
          BY <3>3, Sums, Zenon
        <5> QED
          BY <3>1, <4>1, <4>2, <5>1, Zenon
      <4>4. down'[s] = down[s] /\ "out" \notin pump'[s]
        BY <1>8, <1>9, <2>3, <3>5
      <4>5. Sent(s)' = Sent(s)
        BY <1>2, <4>4 DEF Sent
      <4> QED
        BY <1>2, <2>1, <3>1, <4>2, <4>3, <4>4, <4>5 DEF WordsInv
    <3> QED
      BY <3>4, <3>5
  <2> QED
    BY <2>2, <2>3
<1>17. \A u \in Shell \ {s} : Same(u)
  BY <1>2, <1>7, <1>8, <1>9 DEF Same
<1> QED
  BY <1>11, <1>12, <1>13, <1>14, <1>15, <1>16, <1>17, ShellStep

LEMMA LeastBounds ==
  ASSUME NEW l \in Nat, NEW c \in Nat, NEW m \in Nat, m <= c
  PROVE  Least(l, c - m) \in 0 .. l /\ Least(l, c - m) \in Nat /\ m + Least(l, c - m) <= c
BY DEF Least

LEMMA WriteSums ==
  ASSUME NEW t \in Nat, NEW i \in Nat, NEW k \in Nat, NEW n \in 0 .. k
  PROVE  t + (i + n) = (t + i) + n /\ t + (i + n) + (k - n) = t + i + k
OBVIOUS

\* A write puts in the terminal what there is room for, and keeps the rest; nothing is
\* dropped while oc stands.
WritesAll(s, k) ==
  /\ input' \in [Shell -> Seq(Nat)] /\ rest' \in [Shell -> Seq(Nat)]
  /\ \A u \in Shell : Len(input'[u]) <= InCap
  /\ \A u \in Shell \ {s} : input'[u] = input[u] /\ rest'[u] = rest[u]
  /\ child[s] = "alive" /\ RunsOn(input[s], Len(taken[s]))
       /\ RunsOn(k, Len(taken[s]) + Len(input[s]))
     => /\ RunsOn(input'[s], Len(taken[s]))
        /\ RunsOn(rest'[s], Len(taken[s]) + Len(input'[s]))
        /\ Len(taken[s]) + Len(input'[s]) + Len(rest'[s])
             = Len(taken[s]) + Len(input[s]) + Len(k)

LEMMA WriteFacts ==
  ASSUME BridgeInv, NEW s \in Shell, bridge[s] = "pump", NEW k \in Seq(Nat), Write(s, k)
  PROVE  WritesAll(s, k)
<1>1. Types /\ owner[fd[s]] = s
  BY Parts, Pumping
<1>2. input[s] \in Seq(Nat) /\ taken[s] \in Seq(Nat)
  BY ShellFacts
<1>3. Len(input[s]) \in Nat /\ Len(taken[s]) \in Nat /\ Len(k) \in Nat
  BY <1>2
<1>4. InCap \in Nat /\ Len(input[s]) <= InCap
  BY <1>1, CapsAssumption DEF Types, TerminalTypes
<1> DEFINE n == Least(Len(k), Room(s))
           p == SubSeq(k, 1, n)
           r == SubSeq(k, n + 1, Len(k))
           c == input[s] \o p
<1>5. n \in 0 .. Len(k) /\ n \in Nat /\ Len(input[s]) + n <= InCap
  BY <1>3, <1>4, LeastBounds DEF Room
<1>6. /\ input' = [input EXCEPT ![s] = c]
      /\ rest' = [rest EXCEPT ![s] = r] \/ (child[s] = "dead" /\ rest' = [rest EXCEPT ![s] = << >>])
  BY <1>1 DEF Write, Set
<1> HIDE DEF n
<1>7. p \in Seq(Nat) /\ Len(p) = n /\ r \in Seq(Nat) /\ Len(r) = Len(k) - n
  BY <1>3, <1>5, SubSeqProperties
<1> HIDE DEF p, r
<1>8. c \in Seq(Nat) /\ Len(c) = Len(input[s]) + n /\ << >> \in Seq(Nat)
  <2>1. c \in Seq(Nat) /\ Len(c) = Len(input[s]) + Len(p)
    BY <1>2, <1>7, ConcatProperties
  <2> QED
    BY <1>7, <2>1
<1> HIDE DEF c
<1>9. input \in [Shell -> Seq(Nat)] /\ rest \in [Shell -> Seq(Nat)]
  BY <1>1 DEF Types, ConsoleTypes, TerminalTypes
<1>10. /\ input' \in [Shell -> Seq(Nat)] /\ input'[s] = c
       /\ \A u \in Shell \ {s} : input'[u] = input[u]
  BY <1>6, <1>8, <1>9
<1>11. /\ rest' \in [Shell -> Seq(Nat)]
       /\ rest'[s] = r \/ child[s] = "dead"
       /\ \A u \in Shell \ {s} : rest'[u] = rest[u]
  <2>1. CASE rest' = [rest EXCEPT ![s] = r]
    BY <1>7, <1>9, <2>1
  <2>2. CASE child[s] = "dead" /\ rest' = [rest EXCEPT ![s] = << >>]
    BY <1>8, <1>9, <2>2
  <2> QED
    BY <1>6, <2>1, <2>2
<1>12. ASSUME NEW u \in Shell PROVE Len(input'[u]) <= InCap
  <2>1. Len(input'[s]) <= InCap
    BY <1>5, <1>8, <1>10
  <2>2. Len(input[u]) <= InCap
    BY <1>1 DEF Types, TerminalTypes
  <2> QED
    BY <1>10, <2>1, <2>2
<1>13. ASSUME child[s] = "alive", RunsOn(input[s], Len(taken[s])),
              RunsOn(k, Len(taken[s]) + Len(input[s]))
       PROVE  /\ RunsOn(c, Len(taken[s])) /\ RunsOn(r, Len(taken[s]) + Len(c))
              /\ Len(taken[s]) + Len(c) + Len(r) = Len(taken[s]) + Len(input[s]) + Len(k)
              /\ rest'[s] = r
  <2>0. /\ Len(taken[s]) + (Len(input[s]) + n) = (Len(taken[s]) + Len(input[s])) + n
        /\ Len(taken[s]) + (Len(input[s]) + n) + (Len(k) - n) = Len(taken[s]) + Len(input[s]) + Len(k)
    BY <1>3, <1>5, WriteSums
  <2>1. Len(taken[s]) + Len(input[s]) \in Nat
    BY <1>3, Sums, Zenon
  <2>2. /\ RunsOn(p, Len(taken[s]) + Len(input[s]))
        /\ RunsOn(r, (Len(taken[s]) + Len(input[s])) + n)
    BY <1>5, <1>13, <2>1, RunsSplit DEF p, r
  <2>3. RunsOn(c, Len(taken[s]))
    BY <1>2, <1>3, <1>7, <1>13, <2>2, RunsConcat DEF c
  <2>4. Len(taken[s]) + Len(c) = (Len(taken[s]) + Len(input[s])) + n
    BY <1>8, <2>0, Zenon
  <2>5. Len(taken[s]) + Len(c) + Len(r) = Len(taken[s]) + Len(input[s]) + Len(k)
    BY <1>7, <1>8, <2>0, Zenon
  <2>6. RunsOn(r, Len(taken[s]) + Len(c))
    BY <2>2, <2>4, Zenon
  <2> QED
    BY <1>11, <1>13, <2>3, <2>5, <2>6
<1> QED
  BY <1>10, <1>11, <1>12, <1>13 DEF WritesAll

\* The frames that are on their way when a bridge takes the first.
LEMMA FirstFrame ==
  ASSUME BridgeInv, NEW s \in Shell, bridge[s] = "pump", up[s] # << >>
  PROVE  /\ Tail(up[s]) \in Seq(Frame) /\ Head(up[s]) \in Frame
         /\ page[s] \in {"open", "left"}
         /\ "bye" \in DOMAIN Head(up[s]) => page[s] = "left"
         /\ \A i \in 1 .. Len(Tail(up[s])) : "bye" \in DOMAIN Tail(up[s])[i] => page[s] = "left"
         /\ page[s] = "open" =>
              /\ LastSize(Tail(up[s]), win[s])
              /\ IsSize(Head(up[s])) /\ ~Sized(Tail(up[s])) => Head(up[s]).resize = win[s]
              /\ Sized(Tail(up[s])) \/ IsSize(Head(up[s])) \/ size[s] = win[s]
         /\ child[s] = "alive" =>
              \E b \in Nat : Piece(Head(up[s]), Past(s), b) /\ Bring(Tail(up[s]), b, typed[s])
<1>1. /\ up[s] \in Seq(Frame) /\ page[s] \in {"connecting", "open", "left", "closed"}
      /\ typed[s] \in Nat /\ PageInv(s) /\ SizeInv(s) /\ KeysInv(s)
  BY ShellFacts
<1>2. /\ Tail(up[s]) \in Seq(Frame) /\ Head(up[s]) \in Frame /\ Len(Tail(up[s])) \in Nat
      /\ Len(up[s]) = Len(Tail(up[s])) + 1 /\ up[s][1] = Head(up[s])
      /\ \A i \in 1 .. Len(Tail(up[s])) : Tail(up[s])[i] = up[s][i + 1]
  BY <1>1, HeadTailProperties, EmptySeq
<1>3. page[s] \in {"open", "left"}
  BY <1>1 DEF PageInv
<1>4. \A i \in 1 .. Len(up[s]) : "bye" \in DOMAIN up[s][i] => page[s] = "left"
  BY <1>1 DEF PageInv
<1>5. "bye" \in DOMAIN Head(up[s]) => page[s] = "left"
  <2>1. 1 \in 1 .. Len(up[s])
    BY <1>2
  <2> QED
    BY <1>2, <1>4, <2>1
<1>6. ASSUME NEW i \in 1 .. Len(Tail(up[s])) PROVE "bye" \in DOMAIN Tail(up[s])[i] => page[s] = "left"
  <2>1. i + 1 \in 1 .. Len(up[s])
    BY <1>2
  <2> QED
    BY <1>2, <1>4, <2>1
<1>7. page[s] = "open" => /\ LastSize(up[s], win[s])
                          /\ Sized(up[s]) \/ size[s] = win[s]
  BY <1>1 DEF SizeInv
<1>8. page[s] = "open" =>
         /\ LastSize(Tail(up[s]), win[s])
         /\ IsSize(Head(up[s])) /\ ~Sized(Tail(up[s])) => Head(up[s]).resize = win[s]
         /\ Sized(Tail(up[s])) \/ IsSize(Head(up[s])) \/ size[s] = win[s]
  BY <1>1, <1>7, SizeFirst
<1>9. child[s] = "alive" =>
         \E b \in Nat : Piece(Head(up[s]), Past(s), b) /\ Bring(Tail(up[s]), b, typed[s])
  <2>1. child[s] = "alive" => Bring(up[s], Past(s), typed[s])
    BY <1>1, <1>3 DEF KeysInv
  <2> QED
    BY <1>1, <2>1, PastNat, BringFirst
<1> QED
  BY <1>2, <1>3, <1>5, <1>6, <1>8, <1>9

LEMMA PumpInputStep == ASSUME BridgeInv, NEW s \in Shell, PumpInput(s) PROVE BridgeInv'
<1> DEFINE x == Head(up[s])
           q == Tail(up[s])
<1>1. Types
  BY Parts
<1>2. /\ bridge[s] = "pump" /\ up[s] # << >> /\ rest[s] = << >>
      /\ up' = [up EXCEPT ![s] = q]
      /\ UNCHANGED <<page, typed, outQueue, win, shown, down, bridge, fd, queue, owner, reader,
                     output, child, taken, written>>
  BY DEF PumpInput, LoopTurns, browser, sandbox, Set
<1>3. owner[fd[s]] = s /\ ~Before(s)
  BY <1>2, Pumping
<1>4. \/ "keys" \in DOMAIN x /\ Write(s, x.keys) /\ UNCHANGED <<size, pump>>
      \/ /\ "resize" \in DOMAIN x /\ size' = [size EXCEPT ![s] = x.resize]
         /\ UNCHANGED <<input, rest, pump>>
      \/ /\ "bye" \in DOMAIN x /\ pump' = [pump EXCEPT ![s] = pump[s] \ {"in"}]
         /\ UNCHANGED <<input, size, rest>>
  BY <1>3 DEF PumpInput, Set
<1>5. /\ input[s] \in Seq(Nat) /\ taken[s] \in Seq(Nat) /\ pump[s] \subseteq {"in", "out"}
      /\ typed[s] \in Nat /\ PlaceInv(s) /\ PageInv(s) /\ KeysInv(s) /\ WordsInv(s)
  BY ShellFacts
<1>6. /\ q \in Seq(Frame) /\ x \in Frame
      /\ page[s] \in {"open", "left"}
      /\ "bye" \in DOMAIN x => page[s] = "left"
      /\ \A i \in 1 .. Len(q) : "bye" \in DOMAIN q[i] => page[s] = "left"
      /\ page[s] = "open" =>
           /\ LastSize(q, win[s])
           /\ IsSize(x) /\ ~Sized(q) => x.resize = win[s]
           /\ Sized(q) \/ IsSize(x) \/ size[s] = win[s]
      /\ child[s] = "alive" => \E b \in Nat : Piece(x, Past(s), b) /\ Bring(q, b, typed[s])
  BY <1>2, FirstFrame
<1> HIDE DEF x, q
<1>7. /\ HasKeys(x) <=> "keys" \in DOMAIN x
      /\ IsSize(x) <=> "resize" \in DOMAIN x
  BY DEF HasKeys, IsSize
<1>8. /\ up' \in [Shell -> Seq(Frame)] /\ up'[s] = q
      /\ \A u \in Shell \ {s} : up'[u] = up[u]
  BY <1>1, <1>2, <1>6 DEF Types, SocketTypes
<1>9. SocketTypes' /\ BrowserTypes' /\ SandboxTypes'
  BY <1>1, <1>2, <1>8 DEF Types, BrowserTypes, SocketTypes, SandboxTypes
<1>10. FdInv'
  BY <1>2, FdSame
<1>11. RunsOn(taken[s], 0) /\ RunsOn(written[s], 0)
  BY <1>5 DEF KeysInv, WordsInv
<1>12. Past(s) = Len(taken[s]) + Len(input[s]) /\ Past(s) \in Nat
  <2>1. Len(<< >>) = 0 /\ Len(taken[s]) \in Nat /\ Len(input[s]) \in Nat
    BY <1>5
  <2>2. Len(taken[s]) + Len(input[s]) \in Nat
    BY <2>1, Sums, Zenon
  <2>3. (Len(taken[s]) + Len(input[s])) + 0 = Len(taken[s]) + Len(input[s])
    BY <2>2, Sums, Zenon
  <2> QED
    BY <1>2, <2>1, <2>2, <2>3, Zenon DEF Past
<1>13. CASE "keys" \in DOMAIN x /\ Write(s, x.keys) /\ UNCHANGED <<size, pump>>
  <2>1. x.keys \in Seq(Nat) /\ HasKeys(x) /\ ~IsSize(x)
    BY <1>6, <1>7, <1>13, FrameKinds
  <2>2. /\ input' \in [Shell -> Seq(Nat)] /\ rest' \in [Shell -> Seq(Nat)]
        /\ \A u \in Shell : Len(input'[u]) <= InCap
        /\ \A u \in Shell \ {s} : input'[u] = input[u] /\ rest'[u] = rest[u]
        /\ child[s] = "alive" /\ RunsOn(input[s], Len(taken[s]))
             /\ RunsOn(x.keys, Len(taken[s]) + Len(input[s]))
           => /\ RunsOn(input'[s], Len(taken[s]))
              /\ RunsOn(rest'[s], Len(taken[s]) + Len(input'[s]))
              /\ Len(taken[s]) + Len(input'[s]) + Len(rest'[s])
                   = Len(taken[s]) + Len(input[s]) + Len(x.keys)
    <3>1. PICK k \in Seq(Nat) : k = x.keys
      BY <2>1
    <3>2. Write(s, k)
      BY <1>13, <3>1 DEF Write
    <3>3. WritesAll(s, k)
      BY <1>2, <3>2, WriteFacts
    <3> QED
      BY <3>1, <3>3 DEF WritesAll
  <2>3. Types'
    BY <1>1, <1>2, <1>9, <1>13, <2>2 DEF Types, ConsoleTypes, TerminalTypes
  <2>4. PlaceInv(s)' /\ PageInv(s)'
    BY <1>2, <1>3, <1>5, <1>6, <1>8, <1>13 DEF PlaceInv, PageInv, Before
  <2>5. SizeInv(s)'
    BY <1>2, <1>6, <1>8, <1>13, <2>1 DEF SizeInv
  <2>6. KeysInv(s)'
    <3>1. ~Before(s)' /\ taken'[s] = taken[s] /\ child'[s] = child[s]
      BY <1>2, <1>3 DEF Before
    <3>2. CASE child[s] # "alive"
      BY <1>11, <3>1, <3>2 DEF KeysInv
    <3>3. CASE child[s] = "alive"
      <4>1. PICK b \in Nat : Piece(x, Past(s), b) /\ Bring(q, b, typed[s])
        BY <1>6, <3>3
      <4>2. RunsOn(x.keys, Past(s)) /\ b = Past(s) + Len(x.keys)
        BY <2>1, <4>1 DEF Piece
      <4>3. RunsOn(input[s], Len(taken[s]))
        BY <1>5, <3>3 DEF KeysInv
      <4>4. /\ RunsOn(input'[s], Len(taken[s]))
            /\ RunsOn(rest'[s], Len(taken[s]) + Len(input'[s]))
            /\ Len(taken[s]) + Len(input'[s]) + Len(rest'[s])
                 = Len(taken[s]) + Len(input[s]) + Len(x.keys)
        BY <1>12, <2>2, <3>3, <4>2, <4>3, Zenon
      <4>5. Past(s)' = b
        BY <1>12, <3>1, <4>2, <4>4, Zenon DEF Past
      <4> QED
        BY <1>2, <1>6, <1>8, <1>11, <3>1, <4>1, <4>4, <4>5 DEF KeysInv
    <3> QED
      BY <3>2, <3>3
  <2>7. WordsInv(s)'
    BY <1>2, <1>5, <1>13 DEF WordsInv, Sent
  <2>8. \A u \in Shell \ {s} : Same(u)
    BY <1>2, <1>8, <1>13, <2>2 DEF Same
  <2> QED
    BY <1>10, <2>3, <2>4, <2>5, <2>6, <2>7, <2>8, ShellStep
<1>14. CASE ~("keys" \in DOMAIN x) /\ UNCHANGED <<input, rest>>
  <2>1. ~HasKeys(x)
    BY <1>7, <1>14
  <2>2. \/ IsSize(x) /\ size' = [size EXCEPT ![s] = x.resize] /\ UNCHANGED pump
        \/ "bye" \in DOMAIN x /\ pump' = [pump EXCEPT ![s] = pump[s] \ {"in"}] /\ UNCHANGED size
    BY <1>4, <1>7, <1>14
  <2>3. IsSize(x) => x.resize \in Sizes
    BY <1>6, FrameKinds
  <2>4. /\ size' \in [Shell -> Sizes \union {Default}] /\ pump' \in [Shell -> SUBSET {"in", "out"}]
        /\ \A u \in Shell \ {s} : size'[u] = size[u] /\ pump'[u] = pump[u]
        /\ \/ IsSize(x) /\ size'[s] = x.resize /\ pump'[s] = pump[s]
           \/ page[s] = "left" /\ pump'[s] = pump[s] \ {"in"}
    <3>1. size \in [Shell -> Sizes \union {Default}] /\ pump \in [Shell -> SUBSET {"in", "out"}]
      BY <1>1 DEF Types, ConsoleTypes, TerminalTypes
    <3>2. CASE IsSize(x) /\ size' = [size EXCEPT ![s] = x.resize] /\ UNCHANGED pump
      BY <2>3, <3>1, <3>2
    <3>3. CASE "bye" \in DOMAIN x /\ pump' = [pump EXCEPT ![s] = pump[s] \ {"in"}] /\ UNCHANGED size
      BY <1>6, <3>1, <3>3
    <3> QED
      BY <2>2, <3>2, <3>3
  <2>5. Types'
    BY <1>1, <1>2, <1>9, <1>14, <2>4 DEF Types, ConsoleTypes, TerminalTypes
  <2>6. PlaceInv(s)' /\ PageInv(s)'
    BY <1>2, <1>3, <1>5, <1>6, <1>8, <1>14, <2>4 DEF PlaceInv, PageInv, Before
  <2>7. SizeInv(s)'
    BY <1>2, <1>6, <1>8, <2>4 DEF SizeInv
  <2>8. KeysInv(s)'
    <3>1. Past(s)' = Past(s) /\ ~Before(s)'
      BY <1>2, <1>3, <1>14 DEF Past, Before
    <3>2. child[s] = "alive" => Bring(q, Past(s), typed[s])
      BY <1>6, <2>1 DEF Piece
    <3>3. child[s] = "alive" => /\ RunsOn(input[s], Len(taken[s]))
                                /\ RunsOn(rest[s], Len(taken[s]) + Len(input[s]))
      BY <1>5 DEF KeysInv
    <3> QED
      BY <1>2, <1>6, <1>8, <1>11, <1>14, <3>1, <3>2, <3>3 DEF KeysInv
  <2>9. WordsInv(s)'
    <3>1. "out" \in pump'[s] <=> "out" \in pump[s]
      BY <2>4
    <3> QED
      BY <1>2, <1>5, <3>1 DEF WordsInv, Sent
  <2>10. \A u \in Shell \ {s} : Same(u)
    BY <1>2, <1>8, <1>14, <2>4 DEF Same
  <2> QED
    BY <1>10, <2>5, <2>6, <2>7, <2>8, <2>9, <2>10, ShellStep
<1>15. "bye" \in DOMAIN x \/ "resize" \in DOMAIN x => ~("keys" \in DOMAIN x)
  BY <1>6 DEF Frame
<1> QED
  BY <1>4, <1>13, <1>14, <1>15

LEMMA WriteOnStep == ASSUME BridgeInv, NEW s \in Shell, WriteOn(s) PROVE BridgeInv'
<1>1. Types
  BY Parts
<1>2. /\ rest[s] # << >> /\ Write(s, rest[s])
      /\ UNCHANGED <<page, typed, outQueue, win, shown, up, down, bridge, fd, pump, queue, owner,
                     reader, output, size, child, taken, written>>
  BY DEF WriteOn, browser, socket, sandbox
<1>3. bridge[s] = "pump"
  BY <1>2, BusyPumps
<1>4. /\ rest[s] \in Seq(Nat) /\ ~Before(s)
      /\ PlaceInv(s) /\ PageInv(s) /\ SizeInv(s) /\ KeysInv(s) /\ WordsInv(s)
  BY <1>3, ShellFacts, Pumping
<1>5. /\ input' \in [Shell -> Seq(Nat)] /\ rest' \in [Shell -> Seq(Nat)]
      /\ \A u \in Shell : Len(input'[u]) <= InCap
      /\ \A u \in Shell \ {s} : input'[u] = input[u] /\ rest'[u] = rest[u]
      /\ child[s] = "alive" /\ RunsOn(input[s], Len(taken[s]))
           /\ RunsOn(rest[s], Len(taken[s]) + Len(input[s]))
         => /\ RunsOn(input'[s], Len(taken[s]))
            /\ RunsOn(rest'[s], Len(taken[s]) + Len(input'[s]))
            /\ Len(taken[s]) + Len(input'[s]) + Len(rest'[s])
                 = Len(taken[s]) + Len(input[s]) + Len(rest[s])
  <2>1. PICK k \in Seq(Nat) : k = rest[s]
    BY <1>4
  <2>2. Write(s, k)
    BY <1>2, <2>1 DEF Write
  <2>3. WritesAll(s, k)
    BY <1>3, <2>2, WriteFacts
  <2> QED
    BY <2>1, <2>3 DEF WritesAll
<1>6. Types'
  BY <1>1, <1>2, <1>5
     DEF Types, BrowserTypes, SocketTypes, ConsoleTypes, TerminalTypes, SandboxTypes
<1>7. FdInv'
  BY <1>2, FdSame
<1>8. PlaceInv(s)' /\ PageInv(s)' /\ SizeInv(s)'
  BY <1>2, <1>3, <1>4 DEF PlaceInv, PageInv, SizeInv, Before
<1>9. KeysInv(s)'
  <2>1. RunsOn(taken[s], 0) /\ ~Before(s)' /\ Typed(s)' = Typed(s)
    BY <1>2, <1>3, <1>4 DEF KeysInv, Before, Typed
  <2>2. CASE child[s] # "alive"
    BY <1>2, <2>1, <2>2 DEF KeysInv
  <2>3. CASE child[s] = "alive"
    <3>1. /\ RunsOn(input[s], Len(taken[s])) /\ RunsOn(rest[s], Len(taken[s]) + Len(input[s]))
          /\ page[s] = "connecting" => Past(s) = 0 /\ Bring(Typed(s), 0, typed[s])
          /\ page[s] \in {"open", "left"} => Bring(up[s], Past(s), typed[s])
      BY <1>4, <2>3 DEF KeysInv
    <3>2. Past(s)' = Past(s)
      BY <1>2, <1>5, <2>3, <3>1, Zenon DEF Past
    <3> QED
      BY <1>2, <1>5, <2>1, <2>3, <3>1, <3>2 DEF KeysInv
  <2> QED
    BY <2>2, <2>3
<1>10. WordsInv(s)'
  BY <1>2, <1>4 DEF WordsInv, Sent
<1>11. \A u \in Shell \ {s} : Same(u)
  BY <1>2, <1>5 DEF Same
<1> QED
  BY <1>6, <1>7, <1>8, <1>9, <1>10, <1>11, ShellStep

-----------------------------------------------------------------------------
(* oc and its program.                                                       *)

LEMMA TakeStep == ASSUME BridgeInv, NEW s \in Shell, Take(s) PROVE BridgeInv'
<1>1. Types
  BY Parts
<1> DEFINE a == Append(taken[s], Head(input[s]))
           d == Tail(input[s])
<1>2. /\ child[s] = "alive" /\ input[s] # << >>
      /\ taken' = [taken EXCEPT ![s] = a] /\ input' = [input EXCEPT ![s] = d]
      /\ UNCHANGED <<page, typed, outQueue, win, shown, up, down, bridge, fd, pump, queue, rest,
                     owner, reader, output, size, child, written>>
  BY DEF Take, UnchangedBySandbox, Set, Add, browser, socket, console
<1>3. bridge[s] = "pump"
  BY <1>2, BusyPumps
<1>4. /\ input[s] \in Seq(Nat) /\ taken[s] \in Seq(Nat) /\ rest[s] \in Seq(Nat) /\ ~Before(s)
      /\ PlaceInv(s) /\ PageInv(s) /\ SizeInv(s) /\ KeysInv(s) /\ WordsInv(s)
  BY <1>3, ShellFacts, Pumping
<1>5. Len(taken[s]) \in Nat /\ Len(input[s]) \in Nat /\ Len(rest[s]) \in Nat
  BY <1>4
<1>6. /\ RunsOn(taken[s], 0) /\ RunsOn(input[s], Len(taken[s]))
      /\ RunsOn(rest[s], Len(taken[s]) + Len(input[s]))
  BY <1>2, <1>4 DEF KeysInv
<1>7. /\ Head(input[s]) = Len(taken[s]) + 1 /\ RunsOn(d, Len(taken[s]) + 1)
      /\ d \in Seq(Nat) /\ Len(d) = Len(input[s]) - 1 /\ Len(input[s]) \in Nat \ {0}
  BY <1>2, <1>4, <1>5, <1>6, RunsTail
<1>8. RunsOn(a, 0) /\ a \in Seq(Nat) /\ Len(a) = Len(taken[s]) + 1
  <2>1. 0 + Len(taken[s]) + 1 = Head(input[s])
    BY <1>5, <1>7
  <2> QED
    BY <1>4, <1>6, <2>1, RunsAppend
<1> HIDE DEF a, d
<1>9. /\ taken' \in [Shell -> Seq(Nat)] /\ taken'[s] = a
      /\ input' \in [Shell -> Seq(Nat)] /\ input'[s] = d
      /\ \A u \in Shell \ {s} : taken'[u] = taken[u] /\ input'[u] = input[u]
  BY <1>1, <1>2, <1>7, <1>8 DEF Types, TerminalTypes, SandboxTypes
<1>10. \A u \in Shell : Len(input'[u]) <= InCap
  <2>1. \A u \in Shell : Len(input[u]) <= InCap
    BY <1>1 DEF Types, TerminalTypes
  <2>2. InCap \in Nat
    BY CapsAssumption
  <2>3. Len(input'[s]) <= InCap
    BY <1>7, <1>9, <2>1, <2>2
  <2> QED
    BY <1>9, <2>1, <2>3
<1>11. Types'
  BY <1>1, <1>2, <1>9, <1>10
     DEF Types, BrowserTypes, SocketTypes, ConsoleTypes, TerminalTypes, SandboxTypes
<1>12. FdInv'
  BY <1>2, FdSame
<1>13. PlaceInv(s)' /\ PageInv(s)' /\ SizeInv(s)'
  BY <1>2, <1>3, <1>4 DEF PlaceInv, PageInv, SizeInv, Before
<1>14. Len(taken[s])' + Len(input[s])' = Len(taken[s]) + Len(input[s])
  <2>1. (Len(taken[s]) + 1) + (Len(input[s]) - 1) = Len(taken[s]) + Len(input[s])
    BY <1>5, <1>7, Sums
  <2> QED
    BY <1>7, <1>8, <1>9, <2>1, Zenon
<1>15. KeysInv(s)'
  <2>1. Past(s)' = Past(s)
    BY <1>2, <1>14, Zenon DEF Past
  <2>2. Typed(s)' = Typed(s)
    BY <1>2 DEF Typed
  <2>3. RunsOn(rest[s], Len(taken[s]) + Len(input[s]))'
    BY <1>2, <1>6, <1>14 DEF RunsOn
  <2> QED
    BY <1>2, <1>4, <1>7, <1>8, <1>9, <2>1, <2>2, <2>3 DEF KeysInv
<1>16. WordsInv(s)'
  BY <1>2, <1>4 DEF WordsInv, Sent
<1>17. \A u \in Shell \ {s} : Same(u)
  BY <1>2, <1>9 DEF Same
<1> QED
  BY <1>11, <1>12, <1>13, <1>15, <1>16, <1>17, ShellStep

LEMMA SayStep == ASSUME BridgeInv, NEW s \in Shell, Say(s) PROVE BridgeInv'
<1>1. Types
  BY Parts
<1> DEFINE n == Len(written[s]) + 1
           o == Append(output[s], n)
           w == Append(written[s], n)
<1>2. /\ child[s] = "alive" /\ Len(written[s]) < Outputs[s] /\ Len(output[s]) < OutCap
      /\ output' = [output EXCEPT ![s] = o] /\ written' = [written EXCEPT ![s] = w]
      /\ UNCHANGED <<page, typed, outQueue, win, shown, up, down, bridge, fd, pump, queue, rest,
                     owner, reader, input, size, child, taken>>
  BY DEF Say, UnchangedBySandbox, Add, browser, socket, console
<1>3. bridge[s] = "pump"
  BY <1>2, BusyPumps
<1>4. /\ output[s] \in Seq(Nat) /\ written[s] \in Seq(Nat) /\ queue[s] \in Seq(Nat) /\ ~Before(s)
      /\ PlaceInv(s) /\ PageInv(s) /\ SizeInv(s) /\ KeysInv(s) /\ WordsInv(s)
  BY <1>3, ShellFacts, Pumping
<1>5. Len(output[s]) \in Nat /\ Len(written[s]) \in Nat /\ n \in Nat
  BY <1>4
<1>6. RunsOn(w, 0) /\ w \in Seq(Nat) /\ Len(w) = n
  <2>1. 0 + Len(written[s]) + 1 = n /\ RunsOn(written[s], 0)
    BY <1>4, <1>5 DEF WordsInv
  <2> QED
    BY <1>4, <2>1, RunsAppend
<1>7. o \in Seq(Nat) /\ Len(o) = Len(output[s]) + 1
  BY <1>4, <1>5, AppendProperties
<1>8. page[s] # "left" =>
        /\ RunsOn(o, Sent(s) + Words(queue[s]))
        /\ Sent(s) + Words(queue[s]) + Len(o) = n
        /\ "out" \in pump[s]
  <2> SUFFICES ASSUME page[s] # "left"
               PROVE  /\ RunsOn(o, Sent(s) + Words(queue[s]))
                      /\ Sent(s) + Words(queue[s]) + Len(o) = n
                      /\ "out" \in pump[s]
    OBVIOUS
  <2> DEFINE a == Sent(s) + Words(queue[s])
  <2>1. "out" \in pump[s] /\ RunsOn(output[s], a) /\ a + Len(output[s]) = Len(written[s])
    BY <1>2, <1>4 DEF WordsInv
  <2>2. a \in Nat
    <3>1. Len(queue[s]) \in Nat /\ (queue[s] # << >> => Len(queue[s]) # 0)
      BY <1>4, EmptySeq
    <3>2. Words(queue[s]) \in Nat
      BY <3>1 DEF Words, Ended
    <3> QED
      BY <3>2, SentNat, Sums, Zenon
  <2> HIDE DEF a
  <2>3. RunsOn(Append(output[s], a + Len(output[s]) + 1), a)
    BY <1>4, <2>1, <2>2, RunsAppend
  <2>4. a + Len(output[s]) + 1 = n
    BY <2>1, Zenon
  <2>5. a + (Len(output[s]) + 1) = (a + Len(output[s])) + 1
    BY <1>5, <2>2, Sums, Zenon
  <2>6. RunsOn(o, a)
    BY <2>3, <2>4, Zenon
  <2>7. a + Len(o) = n
    BY <1>7, <2>4, <2>5, Zenon
  <2> QED
    BY <2>1, <2>6, <2>7, Zenon DEF a
<1>9. n <= Outputs[s] /\ Len(o) <= OutCap
  <2>1. Outputs[s] \in Nat /\ OutCap \in Nat
    BY CapsAssumption
  <2> QED
    BY <1>2, <1>5, <1>7, <2>1
<1> HIDE DEF n, o, w
<1>10. /\ output' \in [Shell -> Seq(Nat)] /\ output'[s] = o
       /\ written' \in [Shell -> Seq(Nat)] /\ written'[s] = w
       /\ \A u \in Shell \ {s} : output'[u] = output[u] /\ written'[u] = written[u]
  BY <1>1, <1>2, <1>6, <1>7 DEF Types, TerminalTypes, SandboxTypes
<1>11. \A u \in Shell : Len(output'[u]) <= OutCap /\ Len(written'[u]) <= Outputs[u]
  <2>1. \A u \in Shell : Len(output[u]) <= OutCap /\ Len(written[u]) <= Outputs[u]
    BY <1>1 DEF Types, TerminalTypes, SandboxTypes
  <2> QED
    BY <1>6, <1>9, <1>10, <2>1
<1>12. Types'
  BY <1>1, <1>2, <1>10, <1>11
     DEF Types, BrowserTypes, SocketTypes, ConsoleTypes, TerminalTypes, SandboxTypes
<1>13. FdInv'
  BY <1>2, FdSame
<1>14. PlaceInv(s)' /\ PageInv(s)' /\ SizeInv(s)'
  BY <1>2, <1>3, <1>4 DEF PlaceInv, PageInv, SizeInv, Before
<1>15. KeysInv(s)'
  BY <1>2, <1>4 DEF KeysInv, Before, Past, Typed
<1>16. WordsInv(s)'
  <2>1. CASE page[s] = "left"
    BY <1>2, <1>6, <1>10, <2>1 DEF WordsInv
  <2>2. CASE page[s] # "left"
    <3>1. /\ RunsOn(shown[s], 0) /\ RunsOn(down[s], Len(shown[s])) /\ Says(queue[s], Sent(s))
          /\ ~Ended(queue[s])
      BY <1>2, <1>4, <1>8, <2>2 DEF WordsInv
    <3>2. Sent(s)' = Sent(s)
      BY <1>2 DEF Sent
    <3> QED
      BY <1>2, <1>6, <1>8, <1>10, <2>2, <3>1, <3>2 DEF WordsInv
  <2> QED
    BY <2>1, <2>2
<1>17. \A u \in Shell \ {s} : Same(u)
  BY <1>2, <1>10 DEF Same
<1> QED
  BY <1>12, <1>13, <1>14, <1>15, <1>16, <1>17, ShellStep

LEMMA ExitStep == ASSUME BridgeInv, NEW s \in Shell, Exit(s) PROVE BridgeInv'
<1>1. Types
  BY Parts
<1>2. /\ child[s] = "alive" /\ child' = [child EXCEPT ![s] = "dead"]
      /\ UNCHANGED rest \/ rest' = [rest EXCEPT ![s] = << >>]
      /\ UNCHANGED <<page, typed, outQueue, win, shown, up, down, bridge, fd, pump, queue,
                     owner, reader, input, output, size, taken, written>>
  BY DEF Exit, Set, browser, socket, terminal
<1>3. bridge[s] = "pump"
  BY <1>2, BusyPumps
<1>4. ~Before(s) /\ PlaceInv(s) /\ PageInv(s) /\ SizeInv(s) /\ KeysInv(s) /\ WordsInv(s)
  BY <1>3, ShellFacts, Pumping
<1>5. /\ child' \in [Shell -> {"none", "alive", "dead", "reaped"}] /\ child'[s] = "dead"
      /\ \A u \in Shell \ {s} : child'[u] = child[u]
  BY <1>1, <1>2 DEF Types, SandboxTypes
<1>6. rest' \in [Shell -> Seq(Nat)] /\ \A u \in Shell \ {s} : rest'[u] = rest[u]
  <2>1. rest \in [Shell -> Seq(Nat)] /\ << >> \in Seq(Nat)
    BY <1>1 DEF Types, ConsoleTypes
  <2> QED
    BY <1>2, <2>1
<1>7. Types'
  BY <1>1, <1>2, <1>5, <1>6
     DEF Types, BrowserTypes, SocketTypes, ConsoleTypes, TerminalTypes, SandboxTypes
<1>8. FdInv'
  BY <1>2, FdSame
<1>9. PlaceInv(s)' /\ PageInv(s)' /\ SizeInv(s)'
  BY <1>2, <1>3, <1>4, <1>5 DEF PlaceInv, PageInv, SizeInv, Before
<1>10. KeysInv(s)'
  BY <1>2, <1>3, <1>4, <1>5 DEF KeysInv, Before
<1>11. WordsInv(s)'
  BY <1>2, <1>4, <1>5 DEF WordsInv, Sent
<1>12. \A u \in Shell \ {s} : Same(u)
  BY <1>2, <1>5, <1>6 DEF Same
<1> QED
  BY <1>7, <1>8, <1>9, <1>10, <1>11, <1>12, ShellStep

LEMMA ShellNextInv == BridgeInv /\ [ShellNext]_shellVars => BridgeInv'
<1> SUFFICES ASSUME BridgeInv, [ShellNext]_shellVars PROVE BridgeInv'
  OBVIOUS
<1>1. CASE UNCHANGED shellVars
  <2>1. Types' /\ FdInv'
    BY <1>1, Parts DEF Types, BrowserTypes, SocketTypes, ConsoleTypes, TerminalTypes,
       SandboxTypes, FdInv, Held, shellVars, browser, socket, console, terminal, sandbox
  <2>2. \A u \in Shell : Same(u)
    BY <1>1 DEF Same, shellVars, browser, socket, console, terminal, sandbox
  <2>3. \A u \in Shell : OneInv(u)'
    BY <2>2, SameInv, Parts
  <2>4. ShellTypeOK'
    BY <2>1 DEF ShellTypeOK, Types, BrowserTypes, SocketTypes, ConsoleTypes, TerminalTypes,
       SandboxTypes
  <2> QED
    BY <2>1, <2>3, <2>4 DEF BridgeInv, OneInv
<1>2. ASSUME NEW s \in Shell, Page(s) PROVE BridgeInv'
  BY <1>2, OpenedStep, ResizeStep, ShowStep, LeaveStep, TypeStep DEF Page
<1>3. ASSUME NEW s \in Shell, Bridge(s) PROVE BridgeInv'
  BY <1>3, AcceptStep, RefuseStep, OpenPtyStep, SpawnFailsStep, SpawnedStep, TeardownStep,
     CloseStep DEF Bridge
<1>4. ASSUME NEW s \in Shell, Oc(s) PROVE BridgeInv'
  BY <1>4, TakeStep, SayStep, ExitStep DEF Oc
<1>5. ASSUME NEW s \in Shell, PumpOutput(s) \/ PumpInput(s) \/ WriteOn(s) PROVE BridgeInv'
  BY <1>5, PumpOutputStep, PumpInputStep, WriteOnStep
<1>6. ASSUME NEW f \in Fd, Readable(f) PROVE BridgeInv'
  BY <1>6, ReadableStep
<1> QED
  BY <1>1, <1>2, <1>3, <1>4, <1>5, <1>6 DEF ShellNext

-----------------------------------------------------------------------------
(* What follows from the invariant.                                          *)

LEMMA InvShells == BridgeInv => ShellInv
<1> SUFFICES ASSUME BridgeInv PROVE ShellInv
  OBVIOUS
<1>1. ShellTypeOK /\ Types /\ FdInv
  BY Parts DEF BridgeInv
<1>2. OwnTerminal
  <2>1. ASSUME NEW f \in Fd, reader[f] # None PROVE owner[f] = reader[f]
    BY <1>1, <2>1 DEF Types, ConsoleTypes, FdInv
  <2>2. ASSUME NEW s \in Shell, bridge[s] = "pump" \/ rest[s] # << >> PROVE owner[fd[s]] = s
    BY <2>2, BusyPumps, Pumping
  <2> QED
    BY <2>1, <2>2 DEF OwnTerminal
<1>3. NothingLeft
  <2> SUFFICES ASSUME NEW s \in Shell, bridge[s] = "closed"
               PROVE  /\ child[s] \in {"none", "reaped"}
                      /\ \A f \in Fd : owner[f] # s /\ reader[f] # s
    BY DEF NothingLeft
  <2>1. PlaceInv(s)
    BY ShellFacts
  <2>2. fd[s] = None
    BY <1>1 DEF FdInv, Held
  <2> QED
    BY <1>1, <2>1, <2>2, ShellAssumption DEF PlaceInv, FdInv
<1>4. SizeFits
  <2> SUFFICES ASSUME NEW s \in Shell, page[s] = "open", bridge[s] = "pump",
                      ~(\E i \in DOMAIN up[s] : "resize" \in DOMAIN up[s][i])
               PROVE  size[s] = win[s]
    BY DEF SizeFits
  <2>1. SizeInv(s) /\ up[s] \in Seq(Frame)
    BY ShellFacts
  <2>2. DOMAIN up[s] = 1 .. Len(up[s])
    BY <2>1
  <2>3. ~Sized(up[s])
    BY <2>2 DEF Sized, IsSize
  <2> QED
    BY <2>1, <2>3 DEF SizeInv
<1> QED
  BY <1>1, <1>2, <1>3, <1>4 DEF ShellInv

LEMMA InvKeysInOrder == BridgeInv => KeysInOrder
<1> SUFFICES ASSUME BridgeInv, NEW s \in Shell
             PROVE  LET got == taken[s] \o input[s] \o rest[s] IN
                    /\ \A i \in DOMAIN taken[s] : taken[s][i] = i
                    /\ child[s] = "alive" =>
                         /\ \A i \in DOMAIN got : got[i] = i
                         /\ \A n \in 1 .. typed[s] :
                              \/ n <= Len(got)
                              \/ \E i \in DOMAIN up[s] : "keys" \in DOMAIN up[s][i] /\ n \in Range(up[s][i].keys)
                              \/ \E i \in DOMAIN outQueue[s] : n \in Range(outQueue[s][i])
  BY DEF KeysInOrder
<1> DEFINE got == taken[s] \o input[s] \o rest[s]
<1>1. /\ taken[s] \in Seq(Nat) /\ input[s] \in Seq(Nat) /\ rest[s] \in Seq(Nat)
      /\ up[s] \in Seq(Frame) /\ outQueue[s] \in Seq(Seq(Nat)) /\ typed[s] \in Nat
      /\ page[s] \in {"connecting", "open", "left", "closed"} /\ KeysInv(s) /\ PageInv(s)
  BY ShellFacts
<1>2. Len(taken[s]) \in Nat /\ Len(input[s]) \in Nat /\ Len(rest[s]) \in Nat /\ Past(s) \in Nat
  BY <1>1, PastNat
<1>3. ASSUME NEW i \in DOMAIN taken[s] PROVE taken[s][i] = i
  <2>1. i \in 1 .. Len(taken[s]) /\ RunsOn(taken[s], 0)
    BY <1>1 DEF KeysInv
  <2>2. taken[s][i] = 0 + i
    BY <2>1 DEF RunsOn
  <2> QED
    BY <2>1, <2>2
<1>4. ASSUME child[s] = "alive"
      PROVE  /\ got \in Seq(Nat) /\ RunsOn(got, 0) /\ Len(got) = Past(s)
             /\ page[s] = "connecting" => Past(s) = 0 /\ Bring(Typed(s), 0, typed[s])
             /\ page[s] \in {"open", "left"} => Bring(up[s], Past(s), typed[s])
             /\ page[s] # "closed"
  <2>1. bridge[s] = "pump"
    BY <1>4, BusyPumps
  <2>2. /\ RunsOn(taken[s], 0) /\ RunsOn(input[s], Len(taken[s]))
        /\ RunsOn(rest[s], Len(taken[s]) + Len(input[s]))
        /\ page[s] = "connecting" => Past(s) = 0 /\ Bring(Typed(s), 0, typed[s])
        /\ page[s] \in {"open", "left"} => Bring(up[s], Past(s), typed[s])
    BY <1>1, <1>4 DEF KeysInv
  <2> DEFINE c == taken[s] \o input[s]
  <2>3. 0 + Len(taken[s]) = Len(taken[s])
    BY <1>2
  <2>4. RunsOn(c, 0) /\ c \in Seq(Nat) /\ Len(c) = Len(taken[s]) + Len(input[s])
    BY <1>1, <2>2, <2>3, RunsConcat
  <2> HIDE DEF c
  <2>5. 0 + Len(c) = Len(taken[s]) + Len(input[s])
    BY <1>2, <2>4
  <2>6. RunsOn(c \o rest[s], 0) /\ c \o rest[s] \in Seq(Nat) /\ Len(c \o rest[s]) = Len(c) + Len(rest[s])
    BY <1>1, <2>2, <2>4, <2>5, RunsConcat
  <2>7. Len(c \o rest[s]) = Past(s)
    BY <2>4, <2>6, Zenon DEF Past
  <2> QED
    BY <2>1, <2>2, <2>6, <2>7, Pumping DEF c
<1> HIDE DEF got
<1>5. ASSUME child[s] = "alive", NEW i \in DOMAIN got PROVE got[i] = i
  <2>1. i \in 1 .. Len(got) /\ RunsOn(got, 0)
    BY <1>4, <1>5
  <2>2. got[i] = 0 + i
    BY <2>1 DEF RunsOn
  <2> QED
    BY <2>1, <2>2
<1>6. ASSUME child[s] = "alive", NEW n \in 1 .. typed[s], ~(n <= Len(got))
      PROVE  \/ \E i \in DOMAIN up[s] : "keys" \in DOMAIN up[s][i] /\ n \in Range(up[s][i].keys)
             \/ \E i \in DOMAIN outQueue[s] : n \in Range(outQueue[s][i])
  <2>1. n \in Nat /\ n <= typed[s] /\ Past(s) < n /\ 0 < n
    BY <1>1, <1>2, <1>4, <1>6
  <2>2. CASE page[s] = "connecting"
    <3>1. PICK i \in 1 .. Len(Typed(s)) : HasKeys(Typed(s)[i]) /\ n \in Range(Typed(s)[i].keys)
      BY <1>4, <1>6, <2>1, <2>2 DEF Bring
    <3>2. i \in 1 .. Len(outQueue[s]) /\ Typed(s)[i] = [keys |-> outQueue[s][i]]
      BY TypedFrames
    <3>3. i \in DOMAIN outQueue[s]
      BY <1>1, <3>2
    <3> QED
      BY <3>1, <3>2, <3>3
  <2>3. CASE page[s] # "connecting"
    <3>1. Bring(up[s], Past(s), typed[s])
      BY <1>1, <1>4, <1>6, <2>3
    <3>2. PICK i \in 1 .. Len(up[s]) : HasKeys(up[s][i]) /\ n \in Range(up[s][i].keys)
      BY <2>1, <3>1 DEF Bring
    <3>3. i \in DOMAIN up[s]
      BY <1>1
    <3> QED
      BY <3>2, <3>3 DEF HasKeys
  <2> QED
    BY <2>2, <2>3
<1> QED
  BY <1>3, <1>5, <1>6 DEF got

LEMMA InvLastWords == BridgeInv => LastWords
<1> SUFFICES ASSUME BridgeInv, NEW s \in Shell, bridge[s] = "closed", page[s] = "closed"
             PROVE  shown[s] = written[s]
  BY DEF LastWords
<1>1. shown[s] \in Seq(Nat) /\ written[s] \in Seq(Nat) /\ PlaceInv(s) /\ WordsInv(s)
  BY ShellFacts
<1>2. "out" \notin pump[s] /\ down[s] = << >>
  BY <1>1 DEF PlaceInv
<1>3. RunsOn(shown[s], 0) /\ RunsOn(written[s], 0) /\ Sent(s) = Len(written[s])
  BY <1>1, <1>2 DEF WordsInv
<1>4. Len(shown[s]) = Len(written[s])
  <2>1. Len(shown[s]) + 0 = Len(shown[s]) /\ Len(<< >>) = 0
    BY <1>1
  <2> QED
    BY <1>2, <1>3, <2>1, Zenon DEF Sent
<1>5. \A i \in 1 .. Len(shown[s]) : shown[s][i] = written[s][i]
  BY <1>3, <1>4 DEF RunsOn
<1> QED
  BY <1>1, <1>4, <1>5, SeqEqual

-----------------------------------------------------------------------------
(* The theorems.                                                             *)

\* The invariant that the others rest on: what is at each place of open_bridge, whose each
\* descriptor is, and where every key and every chunk of output is.
THEOREM BridgeInvCorrect == ShellSpec => []BridgeInv
BY ShellInitInv, ShellNextInv, PTL DEF ShellSpec

\* bridge.py:21 and 261 - nothing that is left of a bridge touches the terminal of another,
\* whichever way it ends nothing is left behind, and the terminal has the window's size.
THEOREM ShellsCorrect == ShellSpec => []ShellInv
BY BridgeInvCorrect, InvShells, PTL

\* bridge.py:70 - no paste is dropped: as long as oc stands every key that was typed is on
\* its way or has arrived, and keys arrive once and in order.
THEOREM KeysInOrderCorrect == ShellSpec => []KeysInOrder
BY BridgeInvCorrect, InvKeysInOrder, PTL

\* bridge.py:183 - the page that is there when a bridge closes shows all that was written.
THEOREM LastWordsCorrect == ShellSpec => []LastWords
BY BridgeInvCorrect, InvLastWords, PTL
=============================================================================
