-------------------------- MODULE JitApproverProofs --------------------------
(* Theorems about the just-in-time approver, for every instance of it. *)
EXTENDS JitApprover, TLAPS

(***************************************************************************)
(* Types.  TypeOK is not inductive: what a handler writes comes from its    *)
(* job, so SlotsInv is carried along.                                       *)
(***************************************************************************)
TypeInv == TypeOK /\ SlotsInv

\* The initial state is well typed.
LEMMA TypeInit == Init => TypeInv
<1> SUFFICES ASSUME Init PROVE TypeInv
  OBVIOUS
<1> QED
  BY TimeAssumption, ModeAssumption, NoneAssumption
     DEF Init, TypeInv, TypeOK, SlotsInv, States, Awaits

\* A countdown stays within its range.
LEMMA LessType ==
  ASSUME NEW S, NEW n \in Nat, NEW timer \in [S -> 0 .. n]
  PROVE  Less(timer) \in [S -> 0 .. n]
BY DEF Less

\* So does one without a bound.
LEMMA LessNat ==
  ASSUME NEW S, NEW timer \in [S -> Nat]
  PROVE  Less(timer) \in [S -> Nat]
BY DEF Less

\* What a request asks for is a time that is longer than any handler takes.
LEMMA DurationType ==
  ASSUME NEW r \in Requests
  PROVE  r.duration \in Nat /\ r.duration > Latency
BY RequestsAssumption, TimeAssumption DEF Request

\* The job of a handler in flight is a job.
LEMMA JobType ==
  ASSUME TypeInv, NEW h \in Handler, pc[h] # "idle"
  PROVE  /\ job[h] \in Job
         /\ job[h].session \in Session
         /\ job[h].approver \in User
         /\ job[h].req \in Requests \union {None}
         /\ pc[h] # "fetch" => job[h].req \in Requests
BY DEF TypeInv, TypeOK, SlotsInv, Job

\* Only a handler in flight takes steps.
LEMMA ServeBusy ==
  ASSUME NEW h \in Handler, Serve(h)
  PROVE  pc[h] # "idle"
BY DEF Serve, PrOpened, CreateFailed, StoreSession, FetchFailed,
       FetchedOwnGrant, FetchedClaim, FetchedTerminal, Login, CreateRole,
       IssueCreds, StoreKv, IssueFailed, Recorded, Issuing

\* Whatever the gateway does, the rules and the notes stay booleans.
LEMMA WidenType ==
  ASSUME TypeInv, NEW s \in Session, NEW r, Widen(s, r)
  PROVE  rule' \in [Session -> BOOLEAN] /\ sandbox' \in [Session -> BOOLEAN]
<1>1. CASE UNCHANGED <<rule, sandbox>>
  BY <1>1 DEF TypeInv, TypeOK
<1>2. ASSUME NEW o,
             rule' = [rule EXCEPT ![s] = TRUE],
             sandbox' = [sandbox EXCEPT ![s] = @ \/ o = "ok"]
      PROVE  rule' \in [Session -> BOOLEAN] /\ sandbox' \in [Session -> BOOLEAN]
  <2>1. CASE o = "ok"
    <3>1. sandbox' = [sandbox EXCEPT ![s] = TRUE]
      BY <1>2, <2>1, Zenon
    <3> QED
      BY <1>2, <3>1 DEF TypeInv, TypeOK
  <2>2. CASE o # "ok"
    <3>1. sandbox' = [sandbox EXCEPT ![s] = @]
      BY <1>2, <2>2, Zenon DEF TypeInv, TypeOK
    <3> QED
      BY <1>2, <3>1 DEF TypeInv, TypeOK
  <2> QED
    BY <2>1, <2>2
<1> QED
  BY <1>1, <1>2 DEF Widen

\* The effects of the three writes are well typed, and so is no effect.
LEMMA VaultType ==
  ASSUME TypeInv, NEW s \in Session, NEW r \in Requests,
         \/ UNCHANGED vault \/ RoleWritten(s) \/ LeaseIssued(s, r) \/ RecordWritten(s)
  PROVE  /\ role' \in [Session -> BOOLEAN]
         /\ lease' \in [Session -> Nat] /\ stray' \in [Session -> Nat]
         /\ kv' \in [Session -> BOOLEAN]
<1> USE TimeAssumption DEF TypeInv, TypeOK
<1>1. CASE UNCHANGED vault
  BY <1>1 DEF vault
<1>2. CASE RoleWritten(s)
  BY <1>2 DEF RoleWritten
<1>3. CASE LeaseIssued(s, r)
  BY <1>3, DurationType DEF LeaseIssued, Longer
<1>4. CASE RecordWritten(s)
  BY <1>4 DEF RecordWritten
<1> QED
  BY <1>1, <1>2, <1>3, <1>4

\* A step of a handler is well typed.
LEMMA TypeServe ==
  ASSUME TypeInv, NEW h \in Handler, Serve(h)
  PROVE  TypeInv'
<1>0. pc[h] # "idle"
  BY ServeBusy
<1>j. /\ job[h] \in Job
      /\ job[h].session \in Session
      /\ job[h].approver \in User
      /\ job[h].req \in Requests \union {None}
      /\ pc[h] # "fetch" => job[h].req \in Requests
  BY <1>0, JobType
<1>t. job[h] # None
  BY <1>0 DEF TypeInv, SlotsInv
<1>1. CASE PrOpened(h)
  BY <1>1, <1>j, <1>t
     DEF PrOpened, Goto, TypeInv, TypeOK, SlotsInv, store, reaper, vault, ghosts, Awaits
<1>2. CASE CreateFailed(h)
  BY <1>2, <1>j, TimeAssumption
     DEF CreateFailed, Done, TypeInv, TypeOK, SlotsInv, store, reaper, vault, gitea, ghosts
<1>3. CASE StoreSession(h)
  BY <1>3, <1>j, TimeAssumption
     DEF StoreSession, Done, SetState, States, TypeInv, TypeOK, SlotsInv, reaper, vault, gitea, ghosts
<1>4. CASE FetchFailed(h)
  BY <1>4, <1>j, TimeAssumption
     DEF FetchFailed, Done, SetState, States, TypeInv, TypeOK, SlotsInv, reaper, vault, gitea, ghosts
<1>5. CASE FetchedOwnGrant(h)
  BY <1>5, <1>j, TimeAssumption
     DEF FetchedOwnGrant, Done, TypeInv, TypeOK, SlotsInv, store, reaper, vault, gitea, ghosts
<1>6. CASE FetchedClaim(h)
  BY <1>6, <1>j, <1>t
     DEF FetchedClaim, Goto, SetState, States, TypeInv, TypeOK, SlotsInv, reaper, vault, gitea, ghosts, Awaits
<1>7. CASE FetchedTerminal(h)
  <2>1. rule' \in [Session -> BOOLEAN] /\ sandbox' \in [Session -> BOOLEAN]
    BY <1>7, <1>j, WidenType DEF FetchedTerminal
  <2> QED
    BY <1>7, <1>j, <2>1, TimeAssumption
       DEF FetchedTerminal, Done, TypeInv, TypeOK, SlotsInv, reaper, vault, gitea, ghosts
<1>8. CASE Login(h)
  BY <1>8, <1>j, <1>t DEF Login, Goto, TypeInv, TypeOK, SlotsInv, store, reaper, vault, gitea, ghosts, Awaits
<1>9. CASE CreateRole(h)
  BY <1>9, <1>j, <1>t
     DEF CreateRole, RoleWritten, Goto, TypeInv, TypeOK, SlotsInv, store, reaper, gitea, ghosts, Awaits
<1>10. CASE IssueCreds(h)
  <2>1. /\ lease' \in [Session -> Nat] /\ stray' \in [Session -> Nat]
        /\ role' \in [Session -> BOOLEAN] /\ kv' \in [Session -> BOOLEAN]
    BY <1>10, <1>j, VaultType DEF IssueCreds
  <2>2. left' \in [Handler -> Nat]
    BY <1>10, <1>j, DurationType DEF IssueCreds, Expiry, TypeInv, TypeOK
  <2> QED
    BY <1>10, <1>j, <1>t, <2>1, <2>2
       DEF IssueCreds, Goto, TypeInv, TypeOK, SlotsInv, store, reaper, gitea, ghosts, Awaits
<1>11. CASE StoreKv(h)
  BY <1>11, <1>j, <1>t, TimeAssumption
     DEF StoreKv, RecordWritten, IssuedGrant, Goto, Cred, TypeInv, TypeOK, SlotsInv, reaper, gitea, Awaits
<1>12. CASE IssueFailed(h)
  <2>1. /\ role' \in [Session -> BOOLEAN]
        /\ lease' \in [Session -> Nat] /\ stray' \in [Session -> Nat]
        /\ kv' \in [Session -> BOOLEAN]
    BY <1>12, <1>j, VaultType DEF IssueFailed, Issuing
  <2>2. /\ state' = [state EXCEPT ![job[h].session] = RolledBack(job[h].session)]
        /\ Done(h)
        /\ UNCHANGED <<request, creds, ttl, sandbox, seen, reaper, rule,
                       gitea, ghosts, restarts>>
    BY <1>12 DEF IssueFailed, SetState
  <2>3. /\ state' \in [Session -> States]
        /\ \A s \in Session : state'[s] = "none" <=> state[s] = "none"
    BY <1>j, <2>2 DEF RolledBack, States, TypeInv, TypeOK
  <2> QED
    BY <1>j, <2>1, <2>2, <2>3, TimeAssumption
       DEF Done, TypeInv, TypeOK, SlotsInv, reaper, gitea, ghosts
<1>13. CASE Recorded(h)
  <2>1. rule' \in [Session -> BOOLEAN] /\ sandbox' \in [Session -> BOOLEAN]
    BY <1>13, <1>j, WidenType DEF Recorded, TypeInv, TypeOK
  <2> QED
    BY <1>13, <1>j, <2>1, TimeAssumption
       DEF Recorded, Done, TypeInv, TypeOK, SlotsInv, reaper, vault, gitea, ghosts
<1> QED
  BY <1>1, <1>2, <1>3, <1>4, <1>5, <1>6, <1>7, <1>8, <1>9, <1>10, <1>11,
     <1>12, <1>13 DEF Serve

\* A step of Gitea, of a webhook before it awaits, of the console or of the
\* reaper, time and a restart are well typed.
LEMMA TypeOthers ==
  ASSUME TypeInv,
         \/ \E d \in Delivery : Webhook(d)
         \/ Reap
         \/ Console
         \/ People
         \/ Tick
         \/ Restart
  PROVE  TypeInv'
<1>1. ASSUME NEW d \in Delivery, WebhookClosed(d) PROVE TypeInv'
  <2>1. sent[d].session \in Session
    BY <1>1 DEF WebhookClosed, TypeInv, TypeOK, Message, Reviewed
  <2> QED
    BY <1>1, <2>1 DEF WebhookClosed, SetState, States, TypeInv, TypeOK, SlotsInv,
       handlers, reaper, vault, gitea
<1>2. ASSUME NEW d \in Delivery, WebhookIgnored(d) PROVE TypeInv'
  BY <1>2 DEF WebhookIgnored, TypeInv, TypeOK, SlotsInv, store, handlers, reaper,
     vault, gitea, ghosts
<1>3. ASSUME NEW d \in Delivery, NEW h \in Handler, WebhookMerged(h, d)
      PROVE  TypeInv'
  <2> DEFINE j == [via |-> "webhook", session |-> sent[d].session,
                   approver |-> sent[d].by, req |-> sent[d].req]
  <2>1. j \in Job /\ j # None /\ state[j.session] # "none"
    BY <1>3, NoneAssumption
       DEF WebhookMerged, Claimable, TypeInv, TypeOK, Message, Reviewed, Job
  <2>2. Start(h, "fetch", j)
    BY <1>3 DEF WebhookMerged
  <2> HIDE DEF j
  <2> QED
    BY <1>3, <2>1, <2>2, TimeAssumption
       DEF WebhookMerged, Start, Awaits, TypeInv, TypeOK, SlotsInv, store,
           reaper, vault, gitea, ghosts
<1>4. ASSUME Sweep PROVE TypeInv'
  BY <1>4, NoneAssumption DEF Sweep, Due, TypeInv, TypeOK, SlotsInv, store, handlers, vault,
     gitea, ghosts
<1>5. ASSUME NEW s \in Session, ReapRole(s) PROVE TypeInv'
  BY <1>5 DEF ReapRole, TypeInv, TypeOK, SlotsInv, store, handlers, gitea, ghosts
<1>6. ASSUME ReapKv PROVE TypeInv'
  <2>1. reaping \in Session /\ reaping # None
    BY <1>6 DEF ReapKv, TypeInv, TypeOK
  <2>2. rule' \in [Session -> BOOLEAN]
    BY <1>6, <2>1 DEF ReapKv, Revert, TypeInv, TypeOK
  <2>3. /\ state' \in [Session -> States]
        /\ \A s \in Session : state'[s] = "none" <=> state[s] = "none"
    BY <1>6, <2>1 DEF ReapKv, SetState, States, TypeInv, TypeOK, SlotsInv
  <2>4. /\ UNCHANGED <<request, creds, ttl, sandbox, seen, handlers, role,
                       lease, stray, gitea, ghosts, restarts>>
        /\ kv' = [kv EXCEPT ![reaping] = FALSE]
        /\ due' = due \ {reaping}
        /\ reaping' = None
    BY <1>6 DEF ReapKv
  <2>5. TypeOK'
    BY <2>1, <2>2, <2>3, <2>4 DEF TypeInv, TypeOK, handlers, gitea, ghosts
  <2>6. SlotsInv'
    <3>1. \A s \in Session : s # reaping'
      BY <2>4, NoneAssumption
    <3> QED
      BY <2>3, <2>4, <3>1 DEF TypeInv, TypeOK, SlotsInv, Job, handlers
  <2> QED
    BY <2>5, <2>6 DEF TypeInv
<1>7. ASSUME NEW s \in Session, ReapFailed(s) PROVE TypeInv'
  BY <1>7, NoneAssumption
     DEF ReapFailed, TypeInv, TypeOK, SlotsInv, store, handlers, gitea, ghosts
<1>8. ASSUME NEW h \in Handler, NEW s \in Session, NEW r \in Requests,
             CreateRequest(h, s, r)
      PROVE  TypeInv'
  <2> DEFINE j == [via |-> "create", session |-> s,
                   approver |-> r.requester, req |-> r]
  <2>1. j \in Job /\ j # None /\ j.req \in Requests
    BY RequestsAssumption, NoneAssumption DEF Request, Job
  <2>2. Start(h, "pr", j)
    BY <1>8 DEF CreateRequest
  <2> HIDE DEF j
  <2> QED
    BY <1>8, <2>1, <2>2, TimeAssumption
       DEF CreateRequest, Start, Awaits, TypeInv, TypeOK, SlotsInv, store,
           reaper, vault, gitea, ghosts
<1>9. ASSUME NEW h \in Handler, NEW s \in Session, NEW u \in User,
             NEW view \in Requests, Mint(h, s, u, view)
      PROVE  TypeInv'
  <2> DEFINE j == [via |-> "mint", session |-> s, approver |-> u,
                   req |-> request[s]]
  <2>1. j \in Job /\ j # None /\ j.req \in Requests
    BY <1>9, NoneAssumption DEF Mint, Claimable, TypeInv, SlotsInv, Job
  <2>2. Start(h, "login", j)
    BY <1>9 DEF Mint
  <2>3. approvals' \subseteq Approval
    BY <1>9, RequestsAssumption
       DEF Mint, ApprovalOf, Approval, Request, TypeInv, TypeOK
  <2> HIDE DEF j
  <2> QED
    BY <1>9, <2>1, <2>2, <2>3, TimeAssumption
       DEF Mint, Start, SetState, States, Awaits, TypeInv, TypeOK, SlotsInv,
           reaper, vault, gitea
<1>10. ASSUME NEW d \in Delivery, NEW s \in Session, NEW u \in User,
              ClosePr(d, s, u)
       PROVE  TypeInv'
  BY <1>10 DEF ClosePr, Message, Reviewed, TypeInv, TypeOK, SlotsInv, store, handlers,
     reaper, vault, ghosts
<1>11. ASSUME NEW d \in Delivery, NEW s \in Session, NEW u \in User,
              NEW c \in Requests \union {None}, NEW v \in BOOLEAN,
              MergePr(d, s, u, c, v)
       PROVE  TypeInv'
  <2>1. approvals' \subseteq Approval
    BY <1>11, RequestsAssumption
       DEF MergePr, ApprovalOf, Approval, Request, TypeInv, TypeOK
  <2> QED
    BY <1>11, <2>1 DEF MergePr, Message, Reviewed, TypeInv, TypeOK, SlotsInv, store,
       handlers, reaper, vault
<1>12. ASSUME NEW s \in Session, ReopenPr(s) PROVE TypeInv'
  BY <1>12 DEF ReopenPr, TypeInv, TypeOK, SlotsInv, store, handlers, reaper,
     vault, ghosts
<1>13. ASSUME NEW d \in Delivery, NEW e \in Delivery, Replay(d, e)
       PROVE  TypeInv'
  BY <1>13 DEF Replay, TypeInv, TypeOK, SlotsInv, store, handlers, reaper,
     vault, ghosts
<1>14. ASSUME Tick PROVE TypeInv'
  <2>1. /\ ttl' \in [Session -> Nat]
        /\ lease' \in [Session -> Nat] /\ stray' \in [Session -> Nat]
        /\ left' \in [Handler -> Nat]
        /\ budget' \in [Handler -> 0 .. Latency]
    BY <1>14, LessType, LessNat, TimeAssumption DEF Tick, TypeInv, TypeOK
  <2> QED
    BY <1>14, <2>1 DEF Tick, TypeInv, TypeOK, SlotsInv, reaper, gitea, ghosts
<1>15. ASSUME Restart PROVE TypeInv'
  BY <1>15, TimeAssumption, ModeAssumption, NoneAssumption
     DEF Restart, States, TypeInv, TypeOK, SlotsInv, vault, gitea, ghosts
<1> QED
  BY <1>1, <1>2, <1>3, <1>4, <1>5, <1>6, <1>7, <1>8, <1>9, <1>10, <1>11,
     <1>12, <1>13, <1>14, <1>15
     DEF Webhook, Reap, Console, People, Reviewed

\* What every step keeps.
LEMMA TypeStep == TypeInv /\ [Next]_vars => TypeInv'
<1>1. ASSUME TypeInv, UNCHANGED vars PROVE TypeInv'
  BY <1>1 DEF vars, store, handlers, reaper, vault, gitea, ghosts, TypeInv,
     TypeOK, SlotsInv
<1> QED
  BY <1>1, TypeServe, TypeOthers DEF Next

\* Every variable keeps its type.
THEOREM TypeCorrect == Spec => []TypeOK
<1>1. Spec => []TypeInv
  BY TypeInit, TypeStep, PTL DEF Spec
<1>2. TypeInv => TypeOK
  BY DEF TypeInv
<1> QED
  BY <1>1, <1>2, PTL

(***************************************************************************)
(* Safety.  Core is inductive relative to TypeInv.                          *)
(***************************************************************************)
Core == HandlersInv /\ SessionInv /\ IssuanceInv /\ DecisionInv /\ ReaperInv

\* A step of a handler keeps the safety core: exclusivity, issuance, decisions.
LEMMA CoreServe ==
  ASSUME TypeInv, Core, NEW h \in Handler, Serve(h)
  PROVE  Core'
<1> DEFINE s == job[h].session
<1>0. pc[h] # "idle"
  BY ServeBusy
<1>j. /\ job[h] \in Job
      /\ s \in Session
      /\ job[h].approver \in User
      /\ job[h].req \in Requests \union {None}
      /\ pc[h] # "fetch" => job[h].req \in Requests
  BY <1>0, JobType
<1>t. job[h] # None
  BY <1>0 DEF TypeInv, SlotsInv
<1> USE <1>j, <1>t DEF Core, TypeInv, TypeOK, SlotsInv, HandlersInv, SessionInv, IssuanceInv,
       DecisionInv, ReaperInv, Busy, Owns, Issuing, NeverStranded,
       IssuedAsApproved, ApprovalOf, Awaits, States,
       gitea, ghosts, reaper, store
<1>1. CASE PrOpened(h)
  BY <1>1 DEF PrOpened, Goto
<1>2. CASE CreateFailed(h)
  BY <1>2 DEF CreateFailed, Done
<1>3. CASE StoreSession(h)
  BY <1>3 DEF StoreSession, Done, SetState
<1>4. CASE FetchFailed(h)
  BY <1>4 DEF FetchFailed, Done, SetState, Terminal
<1>5. CASE FetchedOwnGrant(h)
  BY <1>5 DEF FetchedOwnGrant, Done
<1>6. CASE FetchedClaim(h)
  BY <1>6 DEF FetchedClaim, Goto, SetState, Claimable
<1>7. CASE FetchedTerminal(h)
  BY <1>7 DEF FetchedTerminal, Done
<1>8. CASE Login(h)
  BY <1>8 DEF Login, Goto
<1>9. CASE CreateRole(h)
  BY <1>9 DEF CreateRole, Goto
<1>10. CASE IssueCreds(h)
  BY <1>10 DEF IssueCreds, Goto
<1>11. CASE StoreKv(h)
  <2> DEFINE c == [approver |-> job[h].approver, req |-> job[h].req]
  <2>1. c # None
    BY <1>11, NoneAssumption DEF StoreKv, Cred
  <2>2. /\ creds' = [creds EXCEPT ![s] = c]
        /\ mints' = [mints EXCEPT ![s] = @ + 1]
        /\ pc[h] = "kv" /\ pc' = [pc EXCEPT ![h] = "record"]
        /\ ttl' = [ttl EXCEPT ![s] = left[h]]
        /\ UNCHANGED <<state, job, reaper, gitea, approvals>>
    BY <1>11 DEF StoreKv, Goto, IssuedGrant
  <2>3. state[s] = "issued" /\ creds[s] = None /\ mints[s] = 0
    BY <2>2
  <2>4. /\ c.approver = job[h].approver /\ c.req = job[h].req
        /\ ApprovalOf(s, job[h].approver, job[h].req) \in approvals
        /\ DualControl(job[h].approver, job[h].req.requester)
    <3>1. c.approver = job[h].approver /\ c.req = job[h].req
      OBVIOUS
    <3> HIDE DEF c
    <3> QED
      BY <2>2, <3>1, NoneAssumption
  <2> HIDE DEF c
  <2>5. HandlersInv'
    BY <2>2, <2>3
  <2>6. SessionInv'
    BY <2>1, <2>2, <2>3
  <2>7. IssuanceInv'
    BY <2>1, <2>2, <2>3
  <2>8. DecisionInv'
    BY <2>2, <2>4 DEF DualControl
  <2>9. ReaperInv'
    BY <2>2, <2>3
  <2> QED
    BY <2>5, <2>6, <2>7, <2>8, <2>9
<1>12. CASE IssueFailed(h)
  BY <1>12, SMTT(30) DEF IssueFailed, Done, SetState, RolledBack
<1>13. CASE Recorded(h)
  BY <1>13, SMTT(60) DEF Recorded, Done
<1> QED
  BY <1>1, <1>2, <1>3, <1>4, <1>5, <1>6, <1>7, <1>8, <1>9, <1>10, <1>11, <1>12, <1>13 DEF Serve

\* So does every other step.
LEMMA CoreOthers ==
  ASSUME TypeInv, Core,
         \/ \E d \in Delivery : Webhook(d)
         \/ Reap
         \/ Console
         \/ People
         \/ Tick
         \/ Restart
  PROVE  Core'
<1> USE NoneAssumption
    DEF Core, TypeInv, TypeOK, SlotsInv, HandlersInv, SessionInv, IssuanceInv,
        DecisionInv, ReaperInv, Busy, Owns, Issuing, NeverStranded,
        IssuedAsApproved, ApprovalOf, Awaits, States, store, handlers, reaper,
        gitea, ghosts
<1>1. ASSUME NEW d \in Delivery, WebhookClosed(d) PROVE Core'
  BY <1>1 DEF WebhookClosed, SetState, Terminal, Message, Reviewed
<1>2. ASSUME NEW d \in Delivery, WebhookIgnored(d) PROVE Core'
  BY <1>2 DEF WebhookIgnored
<1>3. ASSUME NEW d \in Delivery, NEW h \in Handler, WebhookMerged(h, d)
      PROVE  Core'
  BY <1>3 DEF WebhookMerged, Start, Claimable, Message, Reviewed
<1>4. ASSUME Sweep PROVE Core'
  BY <1>4 DEF Sweep, Due
<1>5. ASSUME NEW s \in Session, ReapRole(s) PROVE Core'
  BY <1>5 DEF ReapRole
<1>6. ASSUME ReapKv PROVE Core'
  BY <1>6 DEF ReapKv, SetState
<1>7. ASSUME NEW s \in Session, ReapFailed(s) PROVE Core'
  BY <1>7 DEF ReapFailed
<1>8. ASSUME NEW h \in Handler, NEW s \in Session, NEW r \in Requests,
             CreateRequest(h, s, r)
      PROVE  Core'
  <2>1. HandlersInv' /\ SessionInv'
    BY <1>8 DEF CreateRequest, Start
  <2>2. IssuanceInv'
    BY <1>8 DEF CreateRequest, Start
  <2>3. DecisionInv' /\ ReaperInv'
    BY <1>8 DEF CreateRequest, Start
  <2> QED
    BY <2>1, <2>2, <2>3
<1>9. ASSUME NEW h \in Handler, NEW s \in Session, NEW u \in User,
             NEW view \in Requests, Mint(h, s, u, view)
      PROVE  Core'
  <2>1. HandlersInv' /\ SessionInv'
    BY <1>9 DEF Mint, Start, SetState, Claimable
  <2>2. IssuanceInv'
    BY <1>9 DEF Mint, Start, SetState, Claimable
  <2>3. DecisionInv'
    BY <1>9 DEF Mint, Start, ScopeHashMatches
  <2>4. ReaperInv'
    BY <1>9 DEF Mint, SetState, Claimable
  <2> QED
    BY <2>1, <2>2, <2>3, <2>4
<1>10. ASSUME NEW d \in Delivery, NEW s \in Session, NEW u \in User,
              ClosePr(d, s, u)
       PROVE  Core'
  BY <1>10 DEF ClosePr, Message, Reviewed
<1>11. ASSUME NEW d \in Delivery, NEW s \in Session, NEW u \in User,
              NEW c \in Requests \union {None}, NEW v \in BOOLEAN,
              MergePr(d, s, u, c, v)
       PROVE  Core'
  BY <1>11 DEF MergePr, Message, Reviewed
<1>12. ASSUME NEW s \in Session, ReopenPr(s) PROVE Core'
  BY <1>12 DEF ReopenPr
<1>13. ASSUME NEW d \in Delivery, NEW e \in Delivery, Replay(d, e)
       PROVE  Core'
  BY <1>13 DEF Replay
<1>14. ASSUME Tick PROVE Core'
  BY <1>14 DEF Tick, Less
<1>15. ASSUME Restart PROVE Core'
  BY <1>15 DEF Restart
<1> HIDE DEF Core, TypeInv
<1> QED
  BY <1>1, <1>2, <1>3, <1>4, <1>5, <1>6, <1>7, <1>8, <1>9, <1>10, <1>11,
     <1>12, <1>13, <1>14, <1>15
     DEF Webhook, Reap, Console, People, Reviewed

\* The core holds initially.
LEMMA CoreInit == Init => Core
<1> SUFFICES ASSUME Init PROVE Core
  OBVIOUS
<1> QED
  BY NoneAssumption
     DEF Init, Core, HandlersInv, SessionInv, IssuanceInv, DecisionInv,
         ReaperInv, Owns, Issuing, NeverStranded, IssuedAsApproved

\* Every step keeps the core.
LEMMA CoreStep == TypeInv /\ Core /\ [Next]_vars => Core'
<1>1. ASSUME Core, UNCHANGED vars PROVE Core'
  BY <1>1 DEF vars, store, handlers, reaper, gitea, ghosts, Core, HandlersInv,
     SessionInv, IssuanceInv, DecisionInv, ReaperInv, Busy, Owns, Issuing,
     NeverStranded, IssuedAsApproved, ApprovalOf
<1> QED
  BY <1>1, CoreServe, CoreOthers DEF Next

(***************************************************************************)
(* Teardown, on top of Core: the lease, the expiry and the reaper's work.    *)
(***************************************************************************)
\* A step of a handler never extends a lease beyond the expiry it will store.
LEMMA TeardownServe ==
  ASSUME TypeInv, Core, TeardownInv, NEW h \in Handler, Serve(h)
  PROVE  TeardownInv'
<1>0. pc[h] # "idle"
  BY ServeBusy
<1>j. job[h].session \in Session
  BY <1>0, JobType
<1> USE <1>j, TimeAssumption, NoneAssumption
    DEF TypeInv, TypeOK, SlotsInv, Core, HandlersInv, SessionInv, IssuanceInv,
        ReaperInv, TeardownInv, Owns, Issuing, Awaits, States, store, reaper,
        vault
<1>1. CASE \/ PrOpened(h) \/ CreateFailed(h) \/ FetchedOwnGrant(h)
           \/ FetchedTerminal(h) \/ Login(h) \/ Recorded(h)
  BY <1>1 DEF PrOpened, CreateFailed, FetchedOwnGrant, FetchedTerminal, Login,
     Recorded, Goto, Done
<1>2. CASE StoreSession(h)
  BY <1>2 DEF StoreSession, SetState, Done
<1>3. CASE FetchFailed(h)
  BY <1>3 DEF FetchFailed, SetState, Done, Terminal
<1>4. CASE FetchedClaim(h)
  BY <1>4 DEF FetchedClaim, SetState, Goto, Claimable
<1>5. CASE CreateRole(h)
  BY <1>5 DEF CreateRole, RoleWritten, Goto
<1>6. CASE IssueCreds(h)
  <2>1. job[h].req.duration \in Nat
    BY <1>0, <1>6, JobType, DurationType DEF IssueCreds
  <2> QED
    BY <1>6, <2>1 DEF IssueCreds, LeaseIssued, Expiry, Goto
<1>7. CASE StoreKv(h)
  BY <1>7 DEF StoreKv, RecordWritten, Goto
<1>8. CASE IssueFailed(h)
  <2> DEFINE s == job[h].session
  <2>1. /\ creds[s] = None /\ state[s] = "issued"
        /\ \A g \in Handler : pc[g] = "kv" /\ job[g].session = s => g = h
        /\ s # reaping
    BY <1>8 DEF IssueFailed
  <2>2. /\ \A t \in Session \ {s} :
             role'[t] = role[t] /\ lease'[t] = lease[t] /\ kv'[t] = kv[t]
        /\ state' = [state EXCEPT ![s] = "approved"]
        /\ pc' = [pc EXCEPT ![h] = "idle"] /\ job' = [job EXCEPT ![h] = None]
        /\ left' = [left EXCEPT ![h] = 0]
        /\ UNCHANGED <<creds, ttl, due, reaping>>
    BY <1>8, <2>1
       DEF IssueFailed, RoleWritten, LeaseIssued, RecordWritten, RolledBack,
           SetState, Done
  <2> HIDE DEF s
  <2>3. \A g \in Handler : pc'[g] = "kv" => job[g].session \in Session \ {s}
    BY <2>1, <2>2, JobType
  <2> QED
    BY <1>j, <2>1, <2>2, <2>3 DEF s
<1> HIDE DEF TypeInv, Core, TeardownInv
<1> QED
  BY <1>1, <1>2, <1>3, <1>4, <1>5, <1>6, <1>7, <1>8 DEF Serve

\* Every other step, the reaper's above all, keeps what was torn down that way.
LEMMA TeardownOthers ==
  ASSUME TypeInv, Core, TeardownInv,
         \/ \E d \in Delivery : Webhook(d)
         \/ Reap
         \/ Console
         \/ People
         \/ Tick
         \/ Restart
  PROVE  TeardownInv'
<1> USE TimeAssumption, NoneAssumption
    DEF TypeInv, TypeOK, SlotsInv, Core, HandlersInv, SessionInv, IssuanceInv,
        ReaperInv, TeardownInv, Owns, Issuing, Awaits, States, store, handlers,
        reaper, vault
<1>1. ASSUME NEW d \in Delivery, WebhookClosed(d) PROVE TeardownInv'
  BY <1>1 DEF WebhookClosed, SetState, Terminal
<1>2. ASSUME NEW d \in Delivery, NEW h \in Handler, WebhookMerged(h, d)
      PROVE  TeardownInv'
  BY <1>2 DEF WebhookMerged, Start
<1>3. ASSUME Sweep PROVE TeardownInv'
  BY <1>3 DEF Sweep
<1>4. ASSUME NEW s \in Session, ReapRole(s) PROVE TeardownInv'
  BY <1>4 DEF ReapRole
<1>5. ASSUME ReapKv PROVE TeardownInv'
  BY <1>5 DEF ReapKv, SetState
<1>6. ASSUME NEW s \in Session, ReapFailed(s) PROVE TeardownInv'
  BY <1>6 DEF ReapFailed
<1>7. ASSUME NEW h \in Handler, NEW s \in Session, NEW r \in Requests,
             CreateRequest(h, s, r)
      PROVE  TeardownInv'
  BY <1>7 DEF CreateRequest, Start
<1>8. ASSUME NEW h \in Handler, NEW s \in Session, NEW u \in User,
             NEW view \in Requests, Mint(h, s, u, view)
      PROVE  TeardownInv'
  BY <1>8 DEF Mint, Start, SetState, Claimable
<1>9. ASSUME Tick PROVE TeardownInv'
  <2>1. \A s \in Session :
          /\ lease'[s] = IF lease[s] = 0 THEN 0 ELSE lease[s] - 1
          /\ ttl'[s] = IF ttl[s] = 0 THEN 0 ELSE ttl[s] - 1
    BY <1>9 DEF Tick, Less
  <2>2. \A h \in Handler : left'[h] = IF left[h] = 0 THEN 0 ELSE left[h] - 1
    BY <1>9 DEF Tick, Less
  <2>3. \A h \in Handler : pc[h] = "kv" => job[h].session \in Session
    BY JobType
  <2>4. UNCHANGED <<state, creds, pc, job, reaping, role, kv>>
    BY <1>9 DEF Tick
  <2>5. \A s \in Session : creds'[s] # None => lease'[s] <= ttl'[s]
    BY <2>1, <2>4
  <2>6. \A h \in Handler : pc'[h] = "kv" => lease'[job'[h].session] <= left'[h]
    <3>1. ASSUME NEW h \in Handler, pc[h] = "kv", NEW s \in Session,
                 s = job[h].session
          PROVE  lease'[s] <= left'[h]
      BY <2>1, <2>2, <3>1
    <3> QED
      BY <2>3, <2>4, <3>1
  <2>7. \A s \in Session : state'[s] = "expired" =>
          ~role'[s] /\ ~kv'[s] /\ ttl'[s] = 0
    BY <2>1, <2>4
  <2>8. reaping' # None => ~role'[reaping']
    BY <2>4
  <2> QED
    BY <2>5, <2>6, <2>7, <2>8
<1>10. ASSUME Restart PROVE TeardownInv'
  BY <1>10 DEF Restart
<1>11. ASSUME UNCHANGED <<store, handlers, reaper, vault>> PROVE TeardownInv'
  BY <1>11
<1> HIDE DEF TypeInv, Core, TeardownInv, store, handlers, reaper, vault
<1> QED
  BY <1>1, <1>2, <1>3, <1>4, <1>5, <1>6, <1>7, <1>8, <1>9, <1>10, <1>11
     DEF Webhook, WebhookIgnored, Reap, Console, People, Reviewed, ClosePr, MergePr,
         ReopenPr, Replay

\* Nothing is torn down initially, and nothing is there.
LEMMA TeardownInit == Init => TeardownInv
BY NoneAssumption DEF Init, TeardownInv

\* Every step keeps the teardown invariant.
LEMMA TeardownStep == TypeInv /\ Core /\ TeardownInv /\ [Next]_vars => TeardownInv'
<1>1. ASSUME TeardownInv, UNCHANGED vars PROVE TeardownInv'
  BY <1>1 DEF vars, store, handlers, reaper, vault, TeardownInv
<1> QED
  BY <1>1, TeardownServe, TeardownOthers DEF Next

\* The inductive invariant.
THEOREM InvCorrect == Spec => []Inv
<1> DEFINE All == TypeInv /\ Core /\ TeardownInv
<1>1. Init => All
  BY TypeInit, CoreInit, TeardownInit
<1>2. All /\ [Next]_vars => All'
  BY TypeStep, CoreStep, TeardownStep
<1>3. All => Inv
  BY DEF TypeInv, Core, Inv
<1> HIDE DEF All
<1> QED
  BY <1>1, <1>2, <1>3, PTL DEF Spec

\* A session that is expired has no role, no record and no live credentials in Vault,
\* whatever attempts failed before, and for however long they were.
THEOREM ExpiredIsCleanCorrect == Spec => []ExpiredIsClean
<1>1. Inv => ExpiredIsClean
  BY DEF Inv, TypeOK, SessionInv, TeardownInv, ExpiredIsClean
<1> QED
  BY <1>1, InvCorrect, PTL

\* However the console, merges, redeliveries and restarts race, a session is
\* handed credentials at most once.
THEOREM OnceOnlyCorrect == Spec => []OnceOnly
<1>1. Inv => OnceOnly
  BY DEF Inv, SessionInv, OnceOnly
<1> QED
  BY <1>1, InvCorrect, PTL

\* Credentials are what one person, not the requester, approved.
THEOREM IssuedAsApprovedCorrect == Spec => []IssuedAsApproved
<1>1. Inv => IssuedAsApproved
  BY DEF Inv, DecisionInv
<1> QED
  BY <1>1, InvCorrect, PTL

\* A session that is issued has its credentials, or a handler getting them.
THEOREM NeverStrandedCorrect == Spec => []NeverStranded
<1>1. Inv => NeverStranded
  BY DEF Inv, IssuanceInv
<1> QED
  BY <1>1, InvCorrect, PTL

(***************************************************************************)
(* What a step may never do.                                                *)
(***************************************************************************)
\* The step condition of Lifecycle, for one session.
Moves(s) ==
  /\ state[s] \in {"expired", "denied"} =>
       state'[s] = state[s] /\ creds'[s] = creds[s]
  /\ creds[s] # None => creds'[s] = creds[s]
  /\ creds[s] # None /\ state'[s] # state[s] =>
       state[s] = "issued" /\ state'[s] = "expired" /\ ttl[s] = 0

\* A step of a handler moves sessions along the lifecycle only.
LEMMA MovesServe ==
  ASSUME Inv, NEW h \in Handler, Serve(h), NEW s \in Session
  PROVE  Moves(s)
<1> USE DEF Inv, TypeOK, Moves
<1>1. CASE StoreSession(h)
  BY <1>1 DEF StoreSession, SetState, HandlersInv, SessionInv
<1>2. CASE FetchFailed(h)
  BY <1>2 DEF FetchFailed, SetState, Terminal, SessionInv, States
<1>3. CASE FetchedClaim(h)
  BY <1>3 DEF FetchedClaim, SetState, Claimable, SessionInv
<1>4. CASE StoreKv(h)
  BY <1>4 DEF StoreKv, IssuanceInv, Issuing
<1>5. CASE IssueFailed(h)
  BY <1>5 DEF IssueFailed, SetState, RolledBack, IssuanceInv
<1>6. CASE \/ PrOpened(h) \/ CreateFailed(h) \/ FetchedOwnGrant(h)
           \/ FetchedTerminal(h) \/ Login(h) \/ CreateRole(h) \/ IssueCreds(h)
           \/ Recorded(h)
  BY <1>6
     DEF PrOpened, CreateFailed, FetchedOwnGrant, FetchedTerminal, Login,
         CreateRole, IssueCreds, Recorded, store
<1> HIDE DEF Inv, Moves
<1> QED
  BY <1>1, <1>2, <1>3, <1>4, <1>5, <1>6 DEF Serve

\* So does every other step but a restart.
LEMMA MovesOthers ==
  ASSUME Inv, NEW s \in Session,
         \/ \E d \in Delivery : Webhook(d)
         \/ Reap
         \/ Console
         \/ People
         \/ Tick
         \/ UNCHANGED vars
  PROVE  Moves(s)
<1>1. ASSUME NEW d \in Delivery, WebhookClosed(d) PROVE Moves(s)
  BY <1>1 DEF WebhookClosed, SetState, Terminal, Inv, TypeOK, SessionInv,
     States, Moves
<1>2. ASSUME ReapKv PROVE Moves(s)
  BY <1>2 DEF ReapKv, SetState, Inv, TypeOK, ReaperInv, Moves
<1>3. ASSUME NEW h \in Handler, NEW t \in Session, NEW u \in User,
             NEW view \in Requests, Mint(h, t, u, view)
      PROVE  Moves(s)
  BY <1>3 DEF Mint, SetState, Claimable, Inv, TypeOK, SessionInv, Moves
<1>4. ASSUME UNCHANGED <<state, creds>> PROVE Moves(s)
  BY <1>4 DEF Moves
<1> QED
  BY <1>1, <1>2, <1>3, <1>4
     DEF Webhook, WebhookIgnored, WebhookMerged, Reap, Sweep, ReapRole,
         ReapFailed, Console, CreateRequest, People, Reviewed, ClosePr, MergePr, ReopenPr,
         Replay, Tick, vars, store

\* A session only moves along its lifecycle; only a restart forgets.
THEOREM LifecycleCorrect == Spec => Lifecycle
<1> DEFINE Step == restarts' = restarts => \A s \in Session : Moves(s)
<1>1. Inv /\ [Next]_vars => [Step]_vars
  <2> SUFFICES ASSUME Inv, [Next]_vars, restarts' = restarts, NEW s \in Session
               PROVE  Moves(s)
    OBVIOUS
  <2>1. ~Restart
    <3> SUFFICES ASSUME Restart PROVE FALSE
      OBVIOUS
    <3> QED
      BY ModeAssumption DEF Restart, Inv, TypeOK
  <2> QED
    BY <2>1, MovesServe, MovesOthers DEF Next
<1>2. [Step]_vars <=> [restarts' = restarts =>
        \A s \in Session :
          /\ state[s] \in {"expired", "denied"} =>
               state'[s] = state[s] /\ creds'[s] = creds[s]
          /\ creds[s] # None => creds'[s] = creds[s]
          /\ creds[s] # None /\ state'[s] # state[s] =>
               state[s] = "issued" /\ state'[s] = "expired" /\ ttl[s] = 0]_vars
  BY DEF Moves
<1> HIDE DEF Step
<1> QED
  BY <1>1, <1>2, InvCorrect, PTL DEF Spec, Lifecycle

-----------------------------------------------------------------------------
(* The approver implements the contract JitGrant.                            *)

\* A step that touches neither the decisions nor a session's phase is invisible.
LEMMA Invisible ==
  ASSUME UNCHANGED <<creds, mints, approvals>>,
         \A s \in Session : Phase(s)' = Phase(s)
  PROVE  UNCHANGED Contract!vars
BY DEF Contract!vars

\* A step that touches no session's store and no decision is invisible.
LEMMA Untouched ==
  ASSUME UNCHANGED <<state, creds, mints, approvals>>
  PROVE  UNCHANGED Contract!vars
BY Invisible DEF Phase

\* What a step of a handler is in the contract.
LEMMA ContractServe ==
  ASSUME Inv, NEW h \in Handler, Serve(h)
  PROVE  [Contract!Next]_(Contract!vars)
<1>0. TypeInv /\ pc[h] # "idle"
  BY ServeBusy DEF Inv, TypeInv
<1>j. PICK s \in Session : s = job[h].session
  BY <1>0, JobType
<1>1. CASE StoreSession(h)
  <2>1. Contract!Open(s)
    BY <1>1, <1>j
       DEF StoreSession, SetState, ghosts, Phase, Contract!Open, Inv,
           HandlersInv, SessionInv, TypeOK
  <2> QED
    BY <1>j, <2>1 DEF Contract!Next
<1>2. CASE FetchFailed(h)
  <2>1. CASE state[s] \in Terminal
    BY <1>2, <2>1, <1>j, Untouched
       DEF FetchFailed, SetState, ghosts, Inv, TypeOK
  <2>2. CASE state[s] \notin Terminal
    <3>1. Contract!Deny(s)
      BY <1>2, <2>2, <1>j
         DEF FetchFailed, SetState, ghosts, Phase, Contract!Deny, Inv,
             SlotsInv, SessionInv, TypeOK, States, Terminal
    <3> QED
      BY <1>j, <3>1 DEF Contract!Next
  <2> QED
    BY <2>1, <2>2
<1>3. CASE FetchedClaim(h)
  BY <1>3, <1>j, Invisible
     DEF FetchedClaim, SetState, Claimable, ghosts, Phase, Inv, SessionInv, TypeOK
<1>4. CASE StoreKv(h)
  <2> DEFINE c == [approver |-> job[h].approver, req |-> job[h].req]
  <2>1. c # None
    BY <1>0, <1>4, JobType, NoneAssumption DEF StoreKv, Cred
  <2>2. PICK a \in approvals : a = ApprovalOf(s, c.approver, c.req)
    BY <1>4, NoneAssumption, <1>j
       DEF StoreKv, Inv, DecisionInv, SlotsInv, Issuing
  <2>3. /\ creds' = [creds EXCEPT ![s] = c]
        /\ mints' = [mints EXCEPT ![s] = @ + 1]
        /\ UNCHANGED <<state, approvals>>
    BY <1>4, <1>j DEF StoreKv, IssuedGrant
  <2>4. state[s] = "issued" /\ creds[s] = None /\ mints[s] = 0
    BY <1>4, <1>j DEF StoreKv, Inv, IssuanceInv, SessionInv, Issuing
  <2> HIDE DEF c
  <2>5. [t \in Session |-> Phase(t)'] =
          [[t \in Session |-> Phase(t)] EXCEPT ![s] = "granted"]
    BY <2>1, <2>3, <2>4 DEF Phase, Inv, TypeOK
  <2>6. [t \in Session |-> IF creds'[t] = None THEN None
                           ELSE ApprovalOf(t, creds'[t].approver, creds'[t].req)]
        = [[t \in Session |-> IF creds[t] = None THEN None
                              ELSE ApprovalOf(t, creds[t].approver, creds[t].req)]
             EXCEPT ![s] = a]
    BY <2>1, <2>2, <2>3 DEF Inv, TypeOK
  <2>7. {t \in Session : mints'[t] > 0} = {t \in Session : mints[t] > 0} \union {s}
    BY <2>3, <2>4 DEF Inv, TypeOK
  <2>8. Contract!Grant(s, a)
    BY <2>2, <2>3, <2>4, <2>5, <2>6, <2>7 DEF Contract!Grant, Phase, ApprovalOf
  <2> QED
    BY <2>2, <2>8 DEF Contract!Next, Inv, TypeOK
<1>5. CASE IssueFailed(h)
  BY <1>5, <1>j, Invisible
     DEF IssueFailed, SetState, RolledBack, ghosts, Phase, Inv, IssuanceInv, TypeOK
<1>6. CASE \/ PrOpened(h) \/ CreateFailed(h) \/ FetchedOwnGrant(h)
           \/ FetchedTerminal(h) \/ Login(h) \/ CreateRole(h) \/ IssueCreds(h)
           \/ Recorded(h)
  BY <1>6, Untouched
     DEF PrOpened, CreateFailed, FetchedOwnGrant, FetchedTerminal, Login,
         CreateRole, IssueCreds, Recorded, store, ghosts
<1> QED
  BY <1>1, <1>2, <1>3, <1>4, <1>5, <1>6 DEF Serve

\* What every other step is in the contract.
LEMMA ContractOthers ==
  ASSUME Inv,
         \/ \E d \in Delivery : Webhook(d)
         \/ Reap
         \/ Console
         \/ People
         \/ Tick
         \/ Restart
  PROVE  [Contract!Next]_(Contract!vars)
<1>1. ASSUME NEW d \in Delivery, WebhookClosed(d)
      PROVE  [Contract!Next]_(Contract!vars)
  <2>1. PICK s \in Session : s = sent[d].session
    BY <1>1 DEF WebhookClosed, Inv, TypeOK, Message, Reviewed
  <2>2. CASE state[s] \in Terminal \union {"none"}
    BY <1>1, <2>1, <2>2, Untouched DEF WebhookClosed, SetState, Inv, TypeOK
  <2>3. CASE state[s] \notin Terminal \union {"none"}
    <3>1. Contract!Deny(s)
      BY <1>1, <2>1, <2>3
         DEF WebhookClosed, SetState, Phase, Contract!Deny, Inv, SessionInv,
             TypeOK, States, Terminal
    <3> QED
      BY <3>1 DEF Contract!Next
  <2> QED
    BY <2>2, <2>3
<1>2. ASSUME ReapKv PROVE [Contract!Next]_(Contract!vars)
  <2>1. PICK s \in Session : s = reaping
    BY <1>2 DEF ReapKv, Inv, TypeOK
  <2>2. state[s] = "issued" /\ creds[s] # None
    BY <1>2, <2>1 DEF ReapKv, Inv, ReaperInv
  <2>3. Contract!End(s)
    BY <1>2, <2>1, <2>2
       DEF ReapKv, SetState, ghosts, Phase, Contract!End, Inv, TypeOK
  <2> QED
    BY <2>3 DEF Contract!Next
<1>3. ASSUME NEW h \in Handler, NEW s \in Session, NEW u \in User,
             NEW view \in Requests, Mint(h, s, u, view)
      PROVE  [Contract!Next]_(Contract!vars)
  <2> DEFINE x == ApprovalOf(s, u, view)
  <2>1. x \in Approval /\ x.session = s
    BY RequestsAssumption DEF ApprovalOf, Approval, Request
  <2>2. \A t \in Session : Phase(t)' = Phase(t)
    BY <1>3 DEF Mint, SetState, Claimable, Phase, Inv, TypeOK
  <2>3. approvals' = approvals \union {x} /\ UNCHANGED <<creds, mints>>
    BY <1>3 DEF Mint
  <2> HIDE DEF x
  <2>4. Contract!Decide(s, x)
    BY <2>1, <2>2, <2>3 DEF Contract!Decide
  <2> QED
    BY <2>1, <2>4 DEF Contract!Next
<1>4. ASSUME NEW d \in Delivery, NEW s \in Session, NEW u \in User,
             NEW c \in Requests \union {None}, NEW v \in BOOLEAN,
             MergePr(d, s, u, c, v)
      PROVE  [Contract!Next]_(Contract!vars)
  <2>1. CASE c = None
    BY <1>4, <2>1, Untouched DEF MergePr, store
  <2>2. CASE c # None
    <3> DEFINE x == ApprovalOf(s, u, c)
    <3>1. x \in Approval /\ x.session = s
      BY <2>2, RequestsAssumption DEF ApprovalOf, Approval, Request
    <3>2. /\ approvals' = approvals \union {x}
          /\ UNCHANGED <<state, creds, mints>>
      BY <1>4, <2>2 DEF MergePr, store
    <3> HIDE DEF x
    <3>3. Contract!Decide(s, x)
      BY <3>1, <3>2 DEF Contract!Decide, Phase
    <3> QED
      BY <3>1, <3>3 DEF Contract!Next
  <2> QED
    BY <2>1, <2>2
<1>5. ASSUME Restart PROVE [Contract!Next]_(Contract!vars)
  <2>1. Contract!Forget
    BY <1>5 DEF Restart, ghosts, Phase, Contract!Forget
  <2> QED
    BY <2>1 DEF Contract!Next
<1>6. ASSUME \/ \E d \in Delivery : \/ WebhookIgnored(d)
                                    \/ \E h \in Handler : WebhookMerged(h, d)
             \/ Sweep
             \/ \E s \in Session : ReapRole(s) \/ ReapFailed(s)
             \/ \E h \in Handler, s \in Session, r \in Requests :
                  CreateRequest(h, s, r)
             \/ \E d \in Delivery, s \in Session, u \in User : ClosePr(d, s, u)
             \/ \E s \in Session : ReopenPr(s)
             \/ \E d, e \in Delivery : Replay(d, e)
             \/ Tick
      PROVE  [Contract!Next]_(Contract!vars)
  BY <1>6, Untouched
     DEF WebhookIgnored, WebhookMerged, Sweep, ReapRole, ReapFailed,
         CreateRequest, ClosePr, ReopenPr, Replay, Tick, store, ghosts
<1> QED
  BY <1>1, <1>2, <1>3, <1>4, <1>5, <1>6 DEF Webhook, Reap, Console, People, Reviewed

\* The approver starts as the contract does.
LEMMA ContractInit == Init => Contract!Init
BY DEF Init, Contract!Init, Phase

\* Every behaviour of the approver is one of the contract's.
THEOREM ImplementsGrantCorrect == Spec => ImplementsGrant
<1>1. Inv /\ [Next]_vars => [Contract!Next]_(Contract!vars)
  <2>1. UNCHANGED vars => UNCHANGED Contract!vars
    BY Untouched DEF vars, store, ghosts
  <2> QED
    BY <2>1, ContractServe, ContractOthers DEF Next
<1> QED
  BY <1>1, ContractInit, InvCorrect, PTL
     DEF Spec, ImplementsGrant, Contract!Spec
=============================================================================
