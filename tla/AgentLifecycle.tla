---------------------------- MODULE AgentLifecycle ----------------------------
(***************************************************************************)
(* The persistent agents of the approval console: requests that create,    *)
(* archive and delete them, the store with its file, and the reaper, a      *)
(* thread that goes through the agents once a minute, follows their         *)
(* sandboxes' phases and renews their consent grants in Vault.              *)
(*                                                                         *)
(* An agent's sandbox is made by the sandbox-launcher, a service of its     *)
(* own that goes on when the console gives up waiting or restarts.  The     *)
(* requests run on one event loop, so between two awaits they are one step; *)
(* the reaper runs beside them and takes the store's lock call by call.     *)
(***************************************************************************)
EXTENDS Naturals

CONSTANTS
  Agent,        \* agent ids (uuid4): one per agent ever created
  GrantLife,    \* ticks that a consent grant lives
  MaxRestarts   \* bound on the restarts of the console

ASSUME BoundsAssumption == GrantLife \in Nat \ {0} /\ MaxRestarts \in Nat

VARIABLES
  \* The console's memory.
  agents,   \* _AGENTS: the agents' states
  tasks,    \* _SESSIONS_BY_AGENT: the agents under which a task is recorded
  disabled, \* _PERSIST_DISABLED
  making,   \* what create_agent waits for
  deleting, \* delete_agent waits for Gitea
  \* The reaper.
  listed,   \* what is left of its list, with the states that it read
  found,    \* what it knows of the agent it is at
  \* The file, and whether it has worked since the console started.
  file, diskOk,
  \* The launcher, the sandboxes and the grants.
  launcher, box, grant,
  restarts

store   == <<agents, tasks, disabled, file, diskOk>>
reaper  == <<listed, found>>
cluster == <<launcher, box, grant>>
vars    == <<store, making, deleting, reaper, cluster, restarts>>

States == {"none", "PROVISIONING", "READY", "ERROR", "ARCHIVED"}
Active == {"PROVISIONING", "READY"}
Phases == {"none", "PROVISIONING", "READY", "ERROR", "gone"}

TypeOK ==
  /\ agents \in [Agent -> States]
  /\ tasks \subseteq Agent
  /\ disabled \in BOOLEAN
  /\ making \in [Agent -> {"no", "launch", "consent", "repo", "over"}]
  /\ deleting \subseteq Agent
  /\ listed \in [Agent -> Active \union {"none"}]
  /\ found \in [Agent -> {"nothing", "READY", "ERROR", "UNKNOWN", "renew"}]
  /\ file \in [agents : [Agent -> States], tasks : SUBSET Agent]
  /\ diskOk \in BOOLEAN
  /\ launcher \in [Agent -> {"idle", "create", "grant", "ok", "failed"}]
  /\ box \in [Agent -> Phases]
  /\ grant \in [Agent -> 0 .. GrantLife]
  /\ restarts \in 0 .. MaxRestarts

Nobody == [a \in Agent |-> "none"]

Init ==
  /\ agents = Nobody /\ tasks = {} /\ disabled = FALSE
  /\ making = [a \in Agent |-> "no"] /\ deleting = {}
  /\ listed = Nobody /\ found = [a \in Agent |-> "nothing"]
  /\ file = [agents |-> Nobody, tasks |-> {}] /\ diskOk = TRUE
  /\ launcher = [a \in Agent |-> "idle"]
  /\ box = Nobody
  /\ grant = [a \in Agent |-> 0]
  /\ restarts = 0

-----------------------------------------------------------------------------
(* The store.                                                                *)

SaveTooEarly(as, ts) == /\ file' = [agents |-> agents, tasks |-> tasks]
                        /\ UNCHANGED <<disabled, diskOk>>

\* _save_locked: the whole store replaces the file, or the write fails and no
\* further one is tried.
Save(as, ts) ==
  \/ ~disabled /\ file' = [agents |-> as, tasks |-> ts]
               /\ UNCHANGED <<disabled, diskOk>>
  \/ ~disabled /\ disabled' = TRUE /\ diskOk' = FALSE /\ UNCHANGED file
  \/ disabled /\ UNCHANGED <<file, disabled, diskOk>>

\* update_agent, for an agent that is there.
Update(a, state) ==
  /\ agents' = [agents EXCEPT ![a] = state]
  /\ UNCHANGED tasks
  /\ Save(agents', tasks)

\* A call that writes takes effect or not, whatever its answer.
WriteGrant(a) == \/ grant' = [grant EXCEPT ![a] = GrantLife]
                 \/ UNCHANGED grant

-----------------------------------------------------------------------------
(* Creating an agent.                                                        *)

Create(a) ==
  /\ making[a] = "no"
  /\ making' = [making EXCEPT ![a] = "launch"]
  /\ launcher' = [launcher EXCEPT ![a] = "create"]
  /\ UNCHANGED <<store, deleting, reaper, box, grant, restarts>>

\* The launcher: CreateSandbox may take effect although it fails.
LauncherCreates(a) ==
  /\ launcher[a] = "create"
  /\ \/ /\ box' = [box EXCEPT ![a] = "PROVISIONING"]
        /\ launcher' = [launcher EXCEPT ![a] = "grant"]
     \/ /\ box' \in {box, [box EXCEPT ![a] = "PROVISIONING"]}
        /\ launcher' = [launcher EXCEPT ![a] = "failed"]
  /\ UNCHANGED <<store, making, deleting, reaper, grant, restarts>>

\* The launcher writes the consent grant, or answers 502 and leaves the sandbox.
LauncherGrants(a) ==
  /\ launcher[a] = "grant"
  /\ \/ /\ grant' = [grant EXCEPT ![a] = GrantLife]
        /\ launcher' = [launcher EXCEPT ![a] = "ok"]
     \/ /\ WriteGrant(a)
        /\ launcher' = [launcher EXCEPT ![a] = "failed"]
  /\ UNCHANGED <<store, making, deleting, reaper, box, restarts>>

Launched(a) ==
  /\ making[a] = "launch" /\ launcher[a] = "ok"
  /\ making' = [making EXCEPT ![a] = "consent"]
  /\ UNCHANGED <<store, deleting, reaper, cluster, restarts>>

\* 502: the launcher failed, or has not answered for 30 s.
NotLaunched(a) ==
  /\ making[a] = "launch"
  /\ making' = [making EXCEPT ![a] = "over"]
  /\ UNCHANGED <<store, deleting, reaper, cluster, restarts>>

\* The console's own grant, best effort.
Consent(a) ==
  /\ making[a] = "consent"
  /\ WriteGrant(a)
  /\ making' = [making EXCEPT ![a] = "repo"]
  /\ UNCHANGED <<store, deleting, reaper, launcher, box, restarts>>

\* Gitea answered or not: the agent is stored.
Created(a) ==
  /\ making[a] = "repo"
  /\ Update(a, "PROVISIONING")
  /\ making' = [making EXCEPT ![a] = "over"]
  /\ UNCHANGED <<deleting, reaper, cluster, restarts>>

-----------------------------------------------------------------------------
(* Tasks, archiving, deletion.                                               *)

\* create_agent_session: the task's thread is launched and recorded.
StartTask(a) ==
  /\ agents[a] \in Active
  /\ tasks' = tasks \union {a}
  /\ Save(agents, tasks')
  /\ UNCHANGED <<agents, making, deleting, reaper, cluster, restarts>>

Archive(a) ==
  /\ agents[a] \notin {"none", "ARCHIVED"}
  /\ Update(a, "ARCHIVED")
  /\ UNCHANGED <<making, deleting, reaper, cluster, restarts>>

\* delete_agent first waits for Gitea to delete the repository.
Delete(a) ==
  /\ agents[a] # "none"
  /\ deleting' = deleting \union {a}
  /\ UNCHANGED <<store, making, reaper, cluster, restarts>>

Deleted(a) ==
  /\ a \in deleting
  /\ deleting' = deleting \ {a}
  /\ agents' = [agents EXCEPT ![a] = "none"]
  /\ tasks' = tasks \ {a}
  /\ Save(agents', tasks')
  /\ UNCHANGED <<making, reaper, cluster, restarts>>

-----------------------------------------------------------------------------
(* The reaper.                                                               *)

Busy == \E a \in Agent : found[a] # "nothing"
Idle == listed = Nobody

List(a) == IF agents[a] \in Active THEN agents[a] ELSE "none"

\* A pass begins with a list of the active agents, which the store may outrun.
BeginPass ==
  /\ Idle
  /\ listed' = [a \in Agent |-> List(a)]
  /\ UNCHANGED <<store, making, deleting, found, cluster, restarts>>

AnswerWithout404(phase) == IF phase = "READY" THEN "READY" ELSE "UNKNOWN"

\* What the launcher says of a sandbox that exists is its phase, PROVISIONING,
\* READY, ERROR or DELETING; the reaper looks for READY, FAILED and DELETED.
Answer(phase) == CASE phase = "READY" -> "READY"
                   [] phase = "gone"  -> "ERROR"
                   [] OTHER           -> "UNKNOWN"

\* The health check of one agent; a failed call tells nothing.
Check(a) ==
  /\ listed[a] # "none" /\ ~Busy
  /\ found' \in {[found EXCEPT ![a] = Answer(box[a])],
                 [found EXCEPT ![a] = "UNKNOWN"]}
  /\ UNCHANGED <<store, making, deleting, listed, cluster, restarts>>

PassAgain(a) == UNCHANGED listed /\ found' = [found EXCEPT ![a] = "nothing"]
\* The reaper is done with a.
Pass(a) == /\ listed' = [listed EXCEPT ![a] = "none"]
           /\ found' = [found EXCEPT ![a] = "nothing"]

Skip(a) ==
  /\ found[a] = "UNKNOWN"
  /\ Pass(a)
  /\ UNCHANGED <<store, making, deleting, cluster, restarts>>

StoredOrNot(a) == TRUE
\* update_agent raises when the agent is no longer there.
Stored(a) == agents[a] # "none"

MarkError(a) ==
  /\ found[a] = "ERROR"
  /\ \/ Stored(a) /\ Update(a, "ERROR")
     \/ ~Stored(a) /\ UNCHANGED store
  /\ Pass(a)
  /\ UNCHANGED <<making, deleting, cluster, restarts>>

\* PROVISIONING -> READY, by the state that was listed.
MarkReady(a) ==
  /\ found[a] = "READY" /\ listed[a] = "PROVISIONING"
  /\ \/ /\ Stored(a) /\ Update(a, "READY")
        /\ found' = [found EXCEPT ![a] = "renew"]
        /\ UNCHANGED listed
     \/ ~Stored(a) /\ Pass(a) /\ UNCHANGED store
  /\ UNCHANGED <<making, deleting, cluster, restarts>>

StillReady(a) ==
  /\ found[a] = "READY" /\ listed[a] = "READY"
  /\ found' = [found EXCEPT ![a] = "renew"]
  /\ UNCHANGED <<store, making, deleting, listed, cluster, restarts>>

Renew(a) ==
  /\ found[a] = "renew"
  /\ WriteGrant(a)
  /\ Pass(a)
  /\ UNCHANGED <<store, making, deleting, launcher, box, restarts>>

-----------------------------------------------------------------------------
(* Around them.                                                              *)

\* What the console does when it loads the file, or cannot.
Restart ==
  /\ restarts < MaxRestarts
  /\ restarts' = restarts + 1
  /\ \/ agents' = file.agents /\ tasks' = file.tasks /\ diskOk' = TRUE
     \/ agents' = Nobody /\ tasks' = {} /\ diskOk' = FALSE
  /\ disabled' = FALSE
  /\ making' = [a \in Agent |-> IF making[a] = "no" THEN "no" ELSE "over"]
  /\ deleting' = {}
  /\ listed' = Nobody /\ found' = [a \in Agent |-> "nothing"]
  /\ UNCHANGED <<file, cluster>>

\* A sandbox becomes ready, fails, or goes away.
Sandbox(a) ==
  /\ \/ box[a] = "PROVISIONING" /\ box' = [box EXCEPT ![a] = "READY"]
     \/ box[a] \in {"PROVISIONING", "READY"} /\ box' = [box EXCEPT ![a] = "ERROR"]
     \/ box[a] \notin {"none", "gone"} /\ box' = [box EXCEPT ![a] = "gone"]
  /\ UNCHANGED <<store, making, deleting, reaper, launcher, grant, restarts>>

Tick ==
  /\ \E a \in Agent : grant[a] > 0
  /\ grant' = [a \in Agent |-> IF grant[a] = 0 THEN 0 ELSE grant[a] - 1]
  /\ UNCHANGED <<store, making, deleting, reaper, launcher, box, restarts>>

Launcher(a) == LauncherCreates(a) \/ LauncherGrants(a)
Request(a)  == \/ Create(a) \/ Launched(a) \/ NotLaunched(a) \/ Consent(a)
               \/ Created(a) \/ StartTask(a) \/ Archive(a) \/ Delete(a) \/ Deleted(a)
Reap(a)     == \/ Check(a) \/ Skip(a) \/ MarkError(a) \/ MarkReady(a)
               \/ StillReady(a) \/ Renew(a)

Next == \/ \E a \in Agent : Launcher(a) \/ Request(a) \/ Reap(a) \/ Sandbox(a)
        \/ BeginPass
        \/ Restart
        \/ Tick

Spec == Init /\ [][Next]_vars

\* The reaper's thread runs, its checks and renewals are answered now and then,
\* and time passes.
FairSpec ==
  /\ Spec
  /\ WF_vars(BeginPass) /\ WF_vars(Tick)
  /\ \A a \in Agent :
       /\ WF_vars(Reap(a))
       /\ SF_vars(Check(a) /\ found'[a] = Answer(box[a]))
       /\ SF_vars(Renew(a) /\ grant'[a] = GrantLife)

-----------------------------------------------------------------------------
(* Properties.                                                               *)

\* store.py:14 - as long as the file could be written and read, a restart at any
\* moment brings back exactly what the requests were told, and every recorded
\* task belongs to an agent.
Durable ==
  /\ diskOk => file = [agents |-> agents, tasks |-> tasks]
  /\ \A a \in tasks : agents[a] # "none"

\* An agent goes along PROVISIONING, READY, ERROR, ARCHIVED and is deleted; a
\* deleted one never comes back.  Only a pass of the reaper that listed the
\* agent before it was archived takes it out of ARCHIVED.  All this unless the
\* disk failed, when a restart may bring back the past.
Onward(from, to) ==
  \/ to = from \/ to = "none"
  \/ from = "PROVISIONING" /\ to \in {"READY", "ERROR", "ARCHIVED"}
  \/ from = "READY" /\ to \in {"ERROR", "ARCHIVED"}
  \/ from = "ERROR" /\ to = "ARCHIVED"

Lifecycle == [][
  diskOk => \A a \in Agent :
    \/ Onward(agents[a], agents'[a])
    \/ agents[a] = "none" /\ making[a] = "repo" /\ agents'[a] = "PROVISIONING"
    \/ agents[a] = "ARCHIVED" /\ listed[a] # "none" /\ agents'[a] \in {"READY", "ERROR"}
  ]_vars

\* The consent of an agent that neither memory nor file knows ends for good: the
\* reaper's stale list renews it at most once more.
Gone(a) == /\ agents[a] = "none" /\ file.agents[a] = "none"
           /\ making[a] = "over" /\ launcher[a] \in {"ok", "failed"}
Forgotten == \A a \in Agent : Gone(a) ~> [](grant[a] = 0)

\* app.py:55, reaper.py:99 - an agent whose sandbox is ready becomes READY, one whose
\* sandbox is gone does not stay active, and the consent of a living one does not
\* end for good.
Tended == \A a \in Agent :
  /\ []<>(agents[a] # "PROVISIONING" \/ box[a] # "READY")
  /\ []<>(agents[a] \notin Active \/ box[a] # "gone")
  /\ <>[](agents[a] = "READY" /\ box[a] = "READY") => []<>(grant[a] > 0)

\* reaper.py:5 - "If the sandbox is no longer present or is in a terminal failure
\* state, the agent is transitioned to ERROR."
FailedNoticed == \A a \in Agent :
  []<>(agents[a] \notin Active \/ box[a] # "ERROR")

=============================================================================
