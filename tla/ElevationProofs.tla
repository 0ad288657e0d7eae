---------------------------- MODULE ElevationProofs ----------------------------
(* Theorems about tool calls under approval, for any number of calls, clicks and     *)
(* merges, whatever the merged files hold, and for any tools and times.              *)
EXTENDS Elevation, TLAPS

Before == {"start", "look", "pending", "match", "file"}

\* A call files its request once: until then there is none of its name.
FiledOnce == \A c \in Call : place[c] \in Before => state[c] = "none"

\* A call that sleeps has not waited for as long as it will.
WaitsInv == \A c \in Call : place[c] = "sleep" => polls[c] < Wait

\* A token that a call presents was issued, and the claims of one that it was let
\* through with cover the call.
TokensInv == \A c \in Call :
  /\ place[c] \in {"retry", "done"} => token[c] \in jwt
  /\ place[c] = "done" => Covers(token[c], c)

\* A session was claimed for an approval of its request, by somebody who is not the
\* requester of the grant approved and whom jit-approver did not turn down; a click's
\* grant is the one filed.  Of what is issued, the approval is done.
SessionsInv == \A r \in Request :
  /\ by[r] # 0 => /\ about[by[r]] = r /\ who[by[r]] # grant[by[r]].requester
                  /\ mint[by[r]] \notin {"idle", "asked", "forbidden"}
                  /\ by[r] \in Click => grant[by[r]] = Filed(r)
  /\ r \in jwt => by[r] # 0 /\ state[r] \in {"issued", "expired"} /\ mint[by[r]] = "ok"
  /\ state[r] = "issued" /\ r \notin jwt => by[r] # 0 /\ mint[by[r]] = "issuing"

\* A click approves what was filed, and one that is denied was turned down.
ClicksInv == \A k \in Click :
  /\ console[k] = "idle" => mint[k] = "idle"
  /\ console[k] = "deny" => mint[k] \in {"idle", "forbidden"}
  /\ mint[k] # "idle" => grant[k] = Filed(about[k])

\* An approval that is being issued has the session, and no other has.
IssuingInv == \A a \in Approval :
  mint[a] = "issuing" => /\ by[about[a]] = a
                         /\ state[about[a]] = "issued" /\ about[a] \notin jwt

Inv == TypeOK /\ FiledOnce /\ WaitsInv /\ TokensInv /\ SessionsInv /\ ClicksInv /\ IssuingInv

------------------------------------------------------------------------------

Places  == {"start", "look", "pending", "match", "file", "wait", "sleep", "retry"} \union Ended
States  == Open \union {"none", "issued", "denied", "expired"}
Replies == {"idle", "sent", "allow", "deny", "error"}
Mints   == {"idle", "asked", "issuing", "ok", "forbidden", "failed"}

\* What is filed is a grant.
LEMMA FiledType ==
  ASSUME named \in BOOLEAN, need \in Needs, NEW r \in Request
  PROVE  Filed(r) \in Grant
<1>1. need[r].sandbox \in Sandbox
  BY NeedsAssumption DEF Request
<1>2. Requester(r) \in Operator \union Sandbox
  BY <1>1, PeopleAssumption DEF Requester
<1>3. Scope(r) \in SUBSET Tool
  BY DEF Scope
<1>4. Duration \in {n \in Nat : n > Margin}
  BY TimesAssumption
<1> QED
  BY <1>1, <1>2, <1>3, <1>4 DEF Filed, Grant

\* It stays so: a request is for what its call is for.
LEMMA FiledKept ==
  ASSUME UNCHANGED <<named, need>>, NEW r
  PROVE  Filed(r)' = Filed(r)
BY DEF Filed, Requester, Scope

LEMMA InitInv == Init => Inv
<1> SUFFICES ASSUME Init PROVE Inv
  OBVIOUS
<1>1. TypeOK
  <2>1. FirstRequest \in Request
    BY PeopleAssumption DEF Request, FirstRequest
  <2>2. named \in BOOLEAN
    BY Zenon DEF Init
  <2>3. Filed(FirstRequest) \in Grant
    BY <2>1, <2>2, FiledType DEF Init
  <2>4. /\ about \in [Approval -> Request] /\ grant \in [Approval -> Grant]
        /\ who \in [Approval -> Operator]
    BY <2>1, <2>3, PeopleAssumption DEF Init
  <2>5. /\ need \in Needs
        /\ place \in [Call -> Places]
        /\ {todo, lasting} \subseteq [Call -> SUBSET Request]
        /\ sid \in [Call -> Request \union {None}]
        /\ token \in [Call -> Request \union {None}]
        /\ polls \in [Call -> 0 .. Wait] /\ late \in [Call -> 0 .. Margin]
    BY TimesAssumption DEF Init, Places
  <2>6. /\ state \in [Request -> States]
        /\ jwt \subseteq Request /\ ttl \in [Request -> Nat]
        /\ by \in [Request -> Approval \union {0}]
    BY DEF Init, States
  <2>7. console \in [Click -> Replies] /\ mint \in [Approval -> Mints]
    BY DEF Init, Replies, Mints
  <2> QED
    BY <2>2, <2>4, <2>5, <2>6, <2>7 DEF TypeOK, Places, States, Replies, Mints
<1>2. FiledOnce /\ WaitsInv /\ TokensInv
  BY DEF Init, FiledOnce, WaitsInv, TokensInv, Request
<1>3. SessionsInv
  BY DEF Init, SessionsInv
<1>4. ClicksInv /\ IssuingInv
  BY DEF Init, ClicksInv, IssuingInv, Approval
<1> QED
  BY <1>1, <1>2, <1>3, <1>4 DEF Inv

------------------------------------------------------------------------------

\* What a call does but for filing a request.
CallMoves(c) ==
  /\ place' \in [Call -> Places]
  /\ {todo', lasting'} \subseteq [Call -> SUBSET Request]
  /\ sid' \in [Call -> Request \union {None}] /\ token' \in [Call -> Request \union {None}]
  /\ polls' \in [Call -> 0 .. Wait] /\ late' \in [Call -> 0 .. Margin]
  /\ \A d \in Call \ {c} : /\ place'[d] = place[d] /\ token'[d] = token[d]
                            /\ polls'[d] = polls[d]
  /\ place'[c] = "sleep" => polls'[c] < Wait
  /\ place'[c] \in Before => place[c] \in Before
  /\ place'[c] = "retry" => token'[c] \in jwt
  /\ place'[c] = "done" => /\ place[c] = "retry" /\ token'[c] = token[c]
                           /\ Covers(token[c], c)
  /\ UNCHANGED <<named, need, approval>>

LEMMA CallStep ==
  ASSUME Inv, NEW c \in Call,
         \/ FirstCall(c) \/ List(c) \/ Look(c) \/ ListPending(c) \/ Match(c) \/ Poll(c) \/ Retry(c)
  PROVE  CallMoves(c) /\ UNCHANGED session
<1> TypeOK
  BY DEF Inv
<1> USE DEF Places
<1>0. 0 \in 0 .. Wait /\ 0 \in 0 .. Margin
  BY TimesAssumption
<1>1. CASE FirstCall(c)
  BY <1>1 DEF FirstCall, Goto, UnchangedElsewhere, CallMoves, TypeOK, Before, Ended
<1>2. CASE List(c)
  <2>1. {todo', lasting'} \subseteq [Call -> SUBSET Request]
    BY <1>2 DEF List, Set, TypeOK
  <2>2. place[c] = "start" /\ UNCHANGED <<sid, token, polls, late, named, need, session, approval>>
    BY <1>2 DEF List, UnchangedElsewhere
  <2>3. place' = [place EXCEPT ![c] = "look"] \/ place' = [place EXCEPT ![c] = "pending"]
    BY <1>2 DEF List, Goto
  <2> QED
    BY <2>1, <2>2, <2>3 DEF CallMoves, TypeOK, Before, Ended
<1>3. CASE Look(c)
  <2>1. {todo', lasting'} \subseteq [Call -> SUBSET Request] /\ late' \in [Call -> 0 .. Margin]
    BY <1>0, <1>3 DEF Look, Set, TypeOK
  <2>2. place[c] = "look" /\ UNCHANGED <<sid, polls, named, need, session, approval>>
    BY <1>3 DEF Look, UnchangedElsewhere
  <2>3. CASE \E r \in todo[c] : /\ Delivered(r) /\ place' = [place EXCEPT ![c] = "retry"]
                                /\ token' = [token EXCEPT ![c] = r]
    <3>1. PICK r \in todo[c] : /\ Delivered(r) /\ place' = [place EXCEPT ![c] = "retry"]
                               /\ token' = [token EXCEPT ![c] = r]
      BY <2>3
    <3>2. r \in jwt /\ r \in Request
      BY <3>1 DEF Delivered, TypeOK
    <3> QED
      BY <2>1, <2>2, <3>1, <3>2 DEF CallMoves, TypeOK, Before, Ended
  <2>4. CASE UNCHANGED <<place, token>>
    BY <2>1, <2>2, <2>4 DEF CallMoves, TypeOK, Before, Ended
  <2>5. CASE place' = [place EXCEPT ![c] = "pending"] /\ UNCHANGED token
    BY <2>1, <2>2, <2>5 DEF CallMoves, TypeOK, Before, Ended
  <2> QED
    BY <1>3, <2>3, <2>4, <2>5 DEF Look, Goto, Set
<1>4. CASE ListPending(c)
  <2>1. todo' \in [Call -> SUBSET Request]
    BY <1>4 DEF ListPending, Set, TypeOK
  <2> QED
    BY <1>4, <2>1 DEF ListPending, Goto, UnchangedElsewhere, CallMoves, TypeOK, Before, Ended
<1>5. CASE Match(c)
  <2>1. todo' \in [Call -> SUBSET Request] /\ UNCHANGED <<late, lasting>>
    BY <1>5 DEF Match, Set, TypeOK
  <2>2. sid' \in [Call -> Request \union {None}]
    BY <1>5 DEF Match, Set, TypeOK
  <2>3. /\ place[c] = "match" /\ UNCHANGED <<token, polls, named, need, session, approval>>
        /\ \/ place' = [place EXCEPT ![c] = "wait"] \/ place' = [place EXCEPT ![c] = "file"]
           \/ UNCHANGED place
    BY <1>5 DEF Match, UnchangedElsewhere, Goto
  <2> QED
    BY <2>1, <2>2, <2>3 DEF CallMoves, TypeOK, Before, Ended
<1>6. CASE Poll(c)
  <2>1. sid' \in [Call -> Request \union {None}] /\ polls' \in [Call -> 0 .. Wait]
    BY <1>0, <1>6 DEF Poll, Set, TypeOK
  <2>2. place[c] = "wait" /\ UNCHANGED <<todo, lasting, late, named, need, session, approval>>
    BY <1>6 DEF Poll, UnchangedElsewhere
  <2>p. /\ \A d \in Call : d # c => polls'[d] = polls[d]
        /\ place'[c] = "sleep" => polls'[c] < Wait
    BY <1>6 DEF Poll, Goto, Set, TypeOK, Left, Ended
  <2>3. CASE /\ Delivered(sid[c]) /\ place' = [place EXCEPT ![c] = "retry"]
             /\ token' = [token EXCEPT ![c] = sid[c]]
    <3>1. sid[c] \in jwt /\ sid[c] \in Request
      BY <2>3 DEF Delivered, TypeOK
    <3> QED
      BY <2>1, <2>2, <2>p, <2>3, <3>1 DEF CallMoves, TypeOK, Before, Ended
  <2>4. CASE /\ UNCHANGED token
             /\ \/ place' = [place EXCEPT ![c] = "sleep"] \/ place' = [place EXCEPT ![c] = "over"]
    BY <2>1, <2>2, <2>p, <2>4 DEF CallMoves, TypeOK, Before, Ended
  <2> QED
    BY <1>6, <2>3, <2>4 DEF Poll, Goto, Set
<1>7. CASE Retry(c)
  <2>1. /\ place[c] = "retry"
        /\ UNCHANGED <<todo, lasting, sid, token, polls, late, named, need, session, approval>>
    BY <1>7 DEF Retry, UnchangedElsewhere
  <2>2. CASE place' = [place EXCEPT ![c] = "done"] /\ Covers(token[c], c)
    BY <2>1, <2>2 DEF CallMoves, TypeOK, Before, Ended
  <2>3. CASE place' = [place EXCEPT ![c] = "refused"] \/ place' = [place EXCEPT ![c] = "over"]
    BY <2>1, <2>3 DEF CallMoves, TypeOK, Before, Ended
  <2> QED
    BY <1>7, <2>2, <2>3 DEF Retry, Goto
<1> QED
  BY <1>1, <1>2, <1>3, <1>4, <1>5, <1>6, <1>7

\* Nothing that a call does changes what jit-approver has, but for a request filed.
LEMMA SessionsKept ==
  ASSUME Inv, UNCHANGED <<named, need, approval, jwt, by>>,
         \A r \in Request : state'[r] # state[r] => state[r] = "none" /\ state'[r] = "pending"
  PROVE  SessionsInv' /\ ClicksInv' /\ IssuingInv'
<1>0. UNCHANGED <<who, about, grant, console, mint>> /\ \A r \in Request : Filed(r)' = Filed(r)
  BY FiledKept DEF approval
<1>1. \A a \in Approval : about[a] \in Request
  BY DEF Inv, TypeOK
<1>2. SessionsInv'
  BY <1>0 DEF Inv, SessionsInv
<1>3. ClicksInv'
  BY <1>0, <1>1 DEF Inv, ClicksInv, Approval
<1>4. IssuingInv'
  BY <1>0, <1>1 DEF Inv, IssuingInv
<1> QED
  BY <1>2, <1>3, <1>4

LEMMA CallInv ==
  ASSUME Inv, NEW c \in Call, CallMoves(c), UNCHANGED session
  PROVE  Inv'
<1> TypeOK
  BY DEF Inv
<1>0. UNCHANGED <<named, need, state, jwt, ttl, by, who, about, grant, console, mint>>
  BY DEF CallMoves, session, approval
<1>1. TypeOK'
  <2>1. named' \in BOOLEAN
    BY <1>0, Zenon DEF TypeOK
  <2> QED
    BY <1>0, <2>1 DEF TypeOK, CallMoves, Places
<1>2. FiledOnce' /\ WaitsInv'
  BY <1>0 DEF Inv, FiledOnce, WaitsInv, CallMoves
<1>3. TokensInv'
  BY <1>0 DEF Inv, TokensInv, CallMoves, Covers, Claims
<1>4. SessionsInv' /\ ClicksInv' /\ IssuingInv'
  BY <1>0, SessionsKept DEF CallMoves
<1> QED
  BY <1>1, <1>2, <1>3, <1>4 DEF Inv

LEMMA CreateStep ==
  ASSUME Inv, NEW c \in Call, Create(c)
  PROVE  Inv'
<1> TypeOK /\ c \in Request
  BY DEF Inv, Request
<1>0. UNCHANGED <<named, need, todo, lasting, token, polls, late, jwt, ttl, by, approval>>
  BY DEF Create
<1>1. place[c] = "file" /\ state[c] = "none"
  BY DEF Create, Inv, FiledOnce, Before
<1>2. /\ place' \in [Call -> Places]
      /\ place'[c] \in {"wait", "over"} /\ \A d \in Call : d # c => place'[d] = place[d]
  BY DEF Create, Goto, TypeOK, Ended, Places
<1>3. sid' \in [Call -> Request \union {None}]
  BY DEF Create, Set, TypeOK
<1>4. /\ state' \in [Request -> States]
      /\ state'[c] \in {"none", "pending"} /\ \A r \in Request : r # c => state'[r] = state[r]
  BY <1>1 DEF Create, TypeOK, Open, States
<1>5. TypeOK'
  <2>1. named' \in BOOLEAN
    BY <1>0, Zenon DEF TypeOK
  <2> QED
    BY <1>0, <1>2, <1>3, <1>4, <2>1 DEF TypeOK, approval, Places, States
<1>6. FiledOnce' /\ WaitsInv'
  BY <1>0, <1>2, <1>4 DEF Inv, FiledOnce, WaitsInv, Before, Request
<1>7. TokensInv'
  BY <1>0, <1>2 DEF Inv, TokensInv, Covers, Claims, approval
<1>8. SessionsInv' /\ ClicksInv' /\ IssuingInv'
  BY <1>0, <1>1, <1>4, SessionsKept
<1> QED
  BY <1>5, <1>6, <1>7, <1>8 DEF Inv

------------------------------------------------------------------------------

\* An approval, and jit-approver's work on it, leave the calls alone.
LEMMA Kept ==
  ASSUME Inv, UNCHANGED call,
         \A r \in Request : state[r] = "none" => state'[r] = "none",
         jwt \subseteq jwt',
         \A r \in jwt : by'[r] = by[r] /\ grant'[by[r]] = grant[by[r]]
  PROVE  FiledOnce' /\ WaitsInv' /\ TokensInv'
<1>1. UNCHANGED <<need, place, token, polls>>
  BY DEF call
<1> QED
  BY <1>1 DEF Inv, FiledOnce, WaitsInv, TokensInv, Request, Covers, Claims

LEMMA ApprovalType ==
  ASSUME Inv, UNCHANGED call,
         state' \in [Request -> States], jwt' \subseteq Request, ttl' \in [Request -> Nat],
         by' \in [Request -> Approval \union {0}],
         who' \in [Approval -> Operator], about' \in [Approval -> Request],
         grant' \in [Approval -> Grant],
         console' \in [Click -> Replies], mint' \in [Approval -> Mints]
  PROVE  TypeOK'
<1>1. named' \in BOOLEAN
  BY Zenon DEF Inv, TypeOK, call
<1> QED
  BY <1>1 DEF Inv, TypeOK, call, States, Replies, Mints

\* A session's grant is that of an approval that is past the claim.
LEMMA ClaimedBy ==
  ASSUME Inv, NEW r \in Request, NEW a \in Approval, mint[a] \in {"idle", "asked", "forbidden"}
  PROVE  by[r] # a
BY PeopleAssumption DEF Inv, SessionsInv

\* An approval is made: its number was not in use.
LEMMA ApprovedStep ==
  ASSUME Inv, NEW a \in Approval, mint[a] = "idle", NEW o \in Operator, NEW r \in Request,
         NEW g \in Grant, UNCHANGED <<call, session>>,
         who' = [who EXCEPT ![a] = o], about' = [about EXCEPT ![a] = r],
         grant' = [grant EXCEPT ![a] = g],
         mint' = [mint EXCEPT ![a] = "asked"] \/ UNCHANGED mint,
         console' \in [Click -> Replies],
         \A k \in Click : console'[k] # console[k] => /\ k = a /\ g = Filed(r)
                                                      /\ console'[k] # "idle",
         a \in Click => /\ console'[a] # "idle" /\ g = Filed(r)
                        /\ console'[a] = "deny" => UNCHANGED mint
  PROVE  Inv'
<1> TypeOK
  BY DEF Inv
<1>0. UNCHANGED <<state, jwt, ttl, by, named, need>>
  BY DEF session, call
<1>1. /\ mint' \in [Approval -> Mints] /\ mint'[a] \in {"idle", "asked"}
      /\ who' \in [Approval -> Operator] /\ about' \in [Approval -> Request]
      /\ grant' \in [Approval -> Grant]
      /\ about'[a] = r /\ grant'[a] = g
  BY DEF TypeOK, Mints
<1>2. \A b \in Approval : b # a => /\ who'[b] = who[b] /\ about'[b] = about[b]
                                   /\ grant'[b] = grant[b] /\ mint'[b] = mint[b]
  BY DEF TypeOK
<1>3. \A s \in Request : by[s] # a
  BY ClaimedBy
<1>4. \A s \in Request : by[s] # 0 => by[s] \in Approval
  BY DEF TypeOK
<1>5. \A s \in Request : Filed(s)' = Filed(s)
  BY <1>0, FiledKept
<1>6. TypeOK'
  BY <1>0, <1>1, ApprovalType DEF TypeOK, States, Replies
<1>7. FiledOnce' /\ WaitsInv' /\ TokensInv'
  <2>1. \A s \in jwt : by[s] \in Approval /\ by[s] # a
    BY <1>3, <1>4 DEF Inv, SessionsInv, TypeOK
  <2> QED
    BY <1>0, <1>2, <2>1, Kept
<1>8. SessionsInv'
  BY <1>0, <1>2, <1>3, <1>4, <1>5 DEF Inv, SessionsInv
<1>9. ClicksInv'
  <2>1. ASSUME NEW k \in Click, k # a
        PROVE  /\ console'[k] = "idle" => mint'[k] = "idle"
               /\ console'[k] = "deny" => mint'[k] \in {"idle", "forbidden"}
               /\ mint'[k] # "idle" => grant'[k] = Filed(about'[k])
    <3>1. /\ console'[k] = console[k] /\ mint'[k] = mint[k] /\ grant'[k] = grant[k]
          /\ about'[k] = about[k]
      BY <1>2, <2>1 DEF Approval
    <3> QED
      BY <3>1 DEF Inv, ClicksInv
  <2>2. \A k \in Click : about'[k] \in Request
    BY <1>1 DEF Approval
  <2>3. a \in Click => /\ console'[a] # "idle" /\ grant'[a] = Filed(about'[a])
                       /\ console'[a] = "deny" => mint'[a] = "idle"
    BY <1>1
  <2> QED
    BY <1>5, <2>1, <2>2, <2>3 DEF ClicksInv
<1>10. IssuingInv'
  BY <1>0, <1>1, <1>2 DEF Inv, IssuingInv
<1> QED
  BY <1>6, <1>7, <1>8, <1>9, <1>10 DEF Inv

LEMMA ApproveStep ==
  ASSUME Inv, NEW k \in Click, NEW o \in Operator, NEW r \in Request, Approve(k, o, r)
  PROVE  Inv'
<1> TypeOK /\ k \in Approval
  BY DEF Inv, Approval
<1>1. Filed(r) \in Grant /\ mint[k] = "idle"
  BY FiledType DEF TypeOK, Approve, Inv, ClicksInv
<1>2. /\ console' \in [Click -> Replies] /\ console'[k] # "idle"
      /\ \A j \in Click : j # k => console'[j] = console[j]
  BY DEF Approve, Answer, TypeOK, Replies
<1>3. \/ mint' = [mint EXCEPT ![k] = "asked"] /\ console'[k] # "deny"
      \/ UNCHANGED mint
  BY DEF Approve, Answer, MintGoes, TypeOK
<1>4. /\ UNCHANGED <<call, session>>
      /\ who' = [who EXCEPT ![k] = o] /\ about' = [about EXCEPT ![k] = r]
      /\ grant' = [grant EXCEPT ![k] = Filed(r)]
  BY DEF Approve
<1> QED
  BY <1>1, <1>2, <1>3, <1>4, ApprovedStep

LEMMA MergeRequestStep ==
  ASSUME Inv, NEW m \in Merge, NEW o \in Operator, NEW r \in Request,
         NEW g \in Edits \union {Filed(r)}, MergeRequest(m, o, r, g)
  PROVE  Inv'
<1> TypeOK /\ m \in Approval /\ m \notin Click
  BY PeopleAssumption DEF Inv, Approval
<1>1. g \in Grant
  BY FiledType, EditsAssumption DEF TypeOK
<1>2. /\ mint[m] = "idle" /\ mint' = [mint EXCEPT ![m] = "asked"]
      /\ UNCHANGED <<call, session, console>>
      /\ who' = [who EXCEPT ![m] = o] /\ about' = [about EXCEPT ![m] = r]
      /\ grant' = [grant EXCEPT ![m] = g]
  BY DEF MergeRequest, MintGoes
<1>3. console' \in [Click -> Replies]
  BY <1>2 DEF TypeOK, Replies
<1> QED
  BY <1>1, <1>2, <1>3, ApprovedStep

\* An approval that was asked for ends without the session.
LEMMA TurnedDownStep ==
  ASSUME Inv, NEW a \in Approval, mint[a] = "asked",
         NEW to \in {"ok", "forbidden", "failed"}, mint' = [mint EXCEPT ![a] = to],
         UNCHANGED <<call, jwt, ttl, by, who, about, grant, console>>,
         state' \in [Request -> States],
         \A r \in Request : state'[r] # state[r] => state[r] \in Open /\ state'[r] = "denied"
  PROVE  Inv'
<1> TypeOK
  BY DEF Inv
<1>0. UNCHANGED <<named, need>> /\ \A s \in Request : Filed(s)' = Filed(s)
  BY FiledKept DEF call
<1>1. mint' \in [Approval -> Mints] /\ mint'[a] = to /\ \A b \in Approval : b # a => mint'[b] = mint[b]
  BY DEF TypeOK, Mints
<1>2. \A s \in Request : by[s] # a /\ (by[s] # 0 => by[s] \in Approval)
  BY ClaimedBy DEF TypeOK
<1>3. TypeOK'
  BY <1>1, ApprovalType DEF TypeOK, Replies
<1>4. FiledOnce' /\ WaitsInv' /\ TokensInv'
  BY Kept DEF Open
<1>5. SessionsInv'
  BY <1>0, <1>1, <1>2 DEF Inv, SessionsInv, Open
<1>6. ClicksInv'
  <2>1. a \in Click => console[a] \notin {"idle", "deny"}
    BY DEF Inv, ClicksInv
  <2>2. \A k \in Click : k \in Approval /\ about[k] \in Request
    BY DEF TypeOK, Approval
  <2> QED
    BY <1>0, <1>1, <2>1, <2>2 DEF Inv, ClicksInv
<1>7. IssuingInv'
  <2>1. \A b \in Approval : about[b] \in Request
    BY DEF TypeOK
  <2> QED
    BY <1>1, <2>1 DEF Inv, IssuingInv, Open
<1> QED
  BY <1>3, <1>4, <1>5, <1>6, <1>7 DEF Inv

\* The claim: the session was open, so that no other approval has it.
LEMMA ClaimStep ==
  ASSUME Inv, NEW a \in Approval, mint[a] = "asked", state[about[a]] \in Open,
         DualControl(who[a], grant[a]), Claim(a),
         UNCHANGED <<call, jwt, ttl, who, about, grant, console>>
  PROVE  Inv'
<1> DEFINE r == about[a]
<1> TypeOK
  BY DEF Inv
<1>t. r \in Request /\ a # 0
  BY PeopleAssumption DEF TypeOK
<1>0. UNCHANGED <<named, need>> /\ \A s \in Request : Filed(s)' = Filed(s)
  BY FiledKept DEF call
<1>1. /\ mint' \in [Approval -> Mints] /\ mint'[a] = "issuing"
      /\ \A b \in Approval : b # a => mint'[b] = mint[b]
  BY DEF Claim, MintGoes, TypeOK, Mints
<1>2. /\ state' \in [Request -> States]
      /\ state'[r] = "issued" /\ (\A s \in Request : s # r => state'[s] = state[s])
  BY <1>t DEF Claim, TypeOK, States
<1>3. /\ by' \in [Request -> Approval \union {0}]
      /\ by'[r] = a /\ \A s \in Request : s # r => by'[s] = by[s]
  BY <1>t DEF Claim, TypeOK
<1>4. r \notin jwt /\ state[r] # "none" /\ state[r] # "issued"
  BY <1>t DEF Inv, SessionsInv, Open
<1>5. \A s \in Request : by[s] # a /\ (by[s] # 0 => by[s] \in Approval)
  BY ClaimedBy DEF TypeOK
<1>6. TypeOK'
  BY <1>1, <1>2, <1>3, ApprovalType DEF TypeOK, Replies
<1>7. FiledOnce' /\ WaitsInv' /\ TokensInv'
  <2>1. jwt \subseteq Request
    BY DEF TypeOK
  <2> HIDE DEF r
  <2> QED
    BY <1>2, <1>3, <1>4, <2>1, Kept
<1>8. who[a] # grant[a].requester /\ (a \in Click => grant[a] = Filed(r))
  BY DEF DualControl, Inv, ClicksInv
<1>9. SessionsInv'
  <2>1. about[a] = r
    OBVIOUS
  <2> HIDE DEF r
  <2>2. ASSUME NEW s \in Request, s # r
        PROVE  /\ by'[s] = by[s] /\ state'[s] = state[s]
               /\ by[s] # 0 => by[s] \in Approval /\ mint'[by[s]] = mint[by[s]]
    BY <1>1, <1>2, <1>3, <1>5, <2>2
  <2> QED
    BY <1>0, <1>1, <1>t, <1>2, <1>3, <1>4, <1>8, <2>1, <2>2 DEF Inv, SessionsInv
<1>10. ClicksInv'
  <2>1. a \in Click => console[a] \notin {"idle", "deny"}
    BY DEF Inv, ClicksInv
  <2>2. \A k \in Click : k \in Approval /\ about[k] \in Request
    BY DEF TypeOK, Approval
  <2> QED
    BY <1>0, <1>1, <2>1, <2>2 DEF Inv, ClicksInv
<1>11. IssuingInv'
  <2>1. \A b \in Approval : about[b] \in Request /\ (mint[b] = "issuing" => about[b] # r)
    BY <1>4 DEF Inv, IssuingInv, TypeOK
  <2>2. about[a] = r
    OBVIOUS
  <2> HIDE DEF r
  <2> QED
    BY <1>1, <1>2, <1>3, <1>4, <2>1, <2>2 DEF Inv, IssuingInv
<1> QED
  BY <1>6, <1>7, <1>9, <1>10, <1>11 DEF Inv

LEMMA MintStep ==
  ASSUME Inv, NEW k \in Click, Mint(k) \/ CallerRefused(k)
  PROVE  Inv'
<1> TypeOK /\ k \in Approval
  BY DEF Inv, Approval
<1>1. /\ mint[k] = "asked" /\ UNCHANGED <<call, jwt, ttl, who, about, grant, console>>
  BY DEF Mint, CallerRefused, Unasked, session
<1>2. CASE /\ UNCHANGED <<state, by>>
           /\ \E to \in {"ok", "forbidden", "failed"} : mint' = [mint EXCEPT ![k] = to]
  BY <1>1, <1>2, TurnedDownStep DEF TypeOK, States
<1>3. CASE state[about[k]] \in Open /\ DualControl(who[k], grant[k]) /\ Claim(k)
  BY <1>1, <1>3, ClaimStep
<1> QED
  BY <1>2, <1>3 DEF Mint, CallerRefused, MintGoes, session

LEMMA MergedStep ==
  ASSUME Inv, NEW m \in Merge, Merged(m)
  PROVE  Inv'
<1> TypeOK /\ m \in Approval
  BY DEF Inv, Approval
<1>1. /\ mint[m] = "asked" /\ UNCHANGED <<call, jwt, ttl, who, about, grant, console>>
  BY DEF Merged, Unasked
<1>2. CASE /\ UNCHANGED <<state, by>>
           /\ \E to \in {"ok", "forbidden"} : mint' = [mint EXCEPT ![m] = to]
  BY <1>1, <1>2, TurnedDownStep DEF TypeOK, States
<1>3. CASE /\ state[about[m]] \in Open /\ state' = [state EXCEPT ![about[m]] = "denied"]
           /\ mint' = [mint EXCEPT ![m] = "failed"] /\ UNCHANGED by
  <2>1. about[m] \in Request
    BY DEF TypeOK
  <2>2. /\ state' \in [Request -> States]
        /\ \A r \in Request : state'[r] # state[r] => state[r] \in Open /\ state'[r] = "denied"
    BY <1>3, <2>1 DEF TypeOK, States
  <2> QED
    BY <1>1, <1>3, <2>2, TurnedDownStep
<1>4. CASE state[about[m]] \in Open /\ DualControl(who[m], grant[m]) /\ Claim(m)
  BY <1>1, <1>4, ClaimStep
<1> QED
  BY <1>2, <1>3, <1>4 DEF Merged, MintGoes

\* Whoever is issuing a session is the one who claimed it.
LEMMA OneIssues ==
  ASSUME Inv, NEW a \in Approval, NEW b \in Approval, mint[a] = "issuing", mint[b] = "issuing",
         about[a] = about[b]
  PROVE  a = b
BY DEF Inv, IssuingInv

LEMMA IssueStep ==
  ASSUME Inv, NEW a \in Approval, Issue(a)
  PROVE  Inv'
<1> DEFINE r == about[a]
<1> TypeOK
  BY DEF Inv
<1>t. r \in Request /\ a # 0
  BY PeopleAssumption DEF TypeOK
<1>0. /\ UNCHANGED <<call, who, about, grant, console, state, by, named, need>>
      /\ mint[a] = "issuing" /\ jwt' = jwt \union {r}
  BY DEF Issue, Unasked, call
<1>f. \A s \in Request : Filed(s)' = Filed(s)
  BY <1>0, FiledKept
<1>1. /\ mint' \in [Approval -> Mints] /\ mint'[a] = "ok"
      /\ \A b \in Approval : b # a => mint'[b] = mint[b]
  BY DEF Issue, MintGoes, TypeOK, Mints
<1>2. ttl' \in [Request -> Nat] /\ jwt' \subseteq Request
  <2>1. grant[a].duration \in Nat
    BY DEF TypeOK, Grant
  <2> QED
    BY <1>t, <1>0, <2>1 DEF Issue, TypeOK
<1>3. by[r] = a /\ state[r] = "issued"
  BY <1>0 DEF Inv, IssuingInv
<1>4. TypeOK'
  BY <1>0, <1>1, <1>2, ApprovalType DEF TypeOK, States, Replies
<1>5. FiledOnce' /\ WaitsInv' /\ TokensInv'
  BY <1>0, Kept
<1>6. SessionsInv'
  <2>1. \A s \in Request : /\ by[s] # 0 => by[s] \in Approval
                           /\ s # r => by[s] # a
    BY <1>t DEF Inv, SessionsInv, TypeOK
  <2> HIDE DEF r
  <2> QED
    BY <1>0, <1>f, <1>1, <1>t, <1>3, <2>1 DEF Inv, SessionsInv
<1>7. ClicksInv'
  <2>1. a \in Click => console[a] \notin {"idle", "deny"}
    BY <1>0 DEF Inv, ClicksInv
  <2>2. \A k \in Click : k \in Approval /\ about[k] \in Request
    BY DEF TypeOK, Approval
  <2> QED
    BY <1>0, <1>f, <1>1, <2>1, <2>2 DEF Inv, ClicksInv
<1>8. IssuingInv'
  <2>1. \A b \in Approval : b # a /\ mint[b] = "issuing" => about[b] # r
    BY <1>0, OneIssues
  <2> HIDE DEF r
  <2> QED
    BY <1>0, <1>1, <2>1 DEF Inv, IssuingInv
<1> QED
  BY <1>4, <1>5, <1>6, <1>7, <1>8 DEF Inv

LEMMA IssueFailsStep ==
  ASSUME Inv, NEW a \in Approval, IssueFails(a)
  PROVE  Inv'
<1> DEFINE r == about[a]
<1> TypeOK
  BY DEF Inv
<1>t. r \in Request /\ a # 0
  BY PeopleAssumption DEF TypeOK
<1>0. /\ UNCHANGED <<call, who, about, grant, console, jwt, ttl, by, named, need>>
      /\ mint[a] = "issuing"
  BY DEF IssueFails, Unasked, call
<1>f. \A s \in Request : Filed(s)' = Filed(s)
  BY <1>0, FiledKept
<1>1. /\ mint' \in [Approval -> Mints] /\ mint'[a] = "failed"
      /\ \A b \in Approval : b # a => mint'[b] = mint[b]
  BY DEF IssueFails, MintGoes, TypeOK, Mints
<1>2. /\ state' \in [Request -> States]
      /\ state'[r] = "approved" /\ (\A s \in Request : s # r => state'[s] = state[s])
  BY <1>t DEF IssueFails, TypeOK, Open, States
<1>3. by[r] = a /\ state[r] = "issued" /\ r \notin jwt
  BY <1>0 DEF Inv, IssuingInv
<1>4. TypeOK'
  BY <1>0, <1>1, <1>2, ApprovalType DEF TypeOK, Replies
<1>5. FiledOnce' /\ WaitsInv' /\ TokensInv'
  <2> HIDE DEF r
  <2> QED
    BY <1>0, <1>2, <1>3, Kept
<1>6. SessionsInv'
  <2>1. \A s \in Request : /\ by[s] # 0 => by[s] \in Approval
                           /\ s # r => by[s] # a
    BY <1>t DEF Inv, SessionsInv, TypeOK
  <2> HIDE DEF r
  <2> QED
    BY <1>0, <1>f, <1>1, <1>t, <1>2, <1>3, <2>1 DEF Inv, SessionsInv
<1>7. ClicksInv'
  <2>1. a \in Click => console[a] \notin {"idle", "deny"}
    BY <1>0 DEF Inv, ClicksInv
  <2>2. \A k \in Click : k \in Approval /\ about[k] \in Request
    BY DEF TypeOK, Approval
  <2> QED
    BY <1>0, <1>f, <1>1, <2>1, <2>2 DEF Inv, ClicksInv
<1>8. IssuingInv'
  <2>1. \A b \in Approval : b # a /\ mint[b] = "issuing" => about[b] # r
    BY <1>0, OneIssues
  <2>2. \A b \in Approval : about[b] \in Request
    BY DEF TypeOK
  <2> HIDE DEF r
  <2> QED
    BY <1>0, <1>1, <1>2, <2>1, <2>2 DEF Inv, IssuingInv
<1> QED
  BY <1>4, <1>5, <1>6, <1>7, <1>8 DEF Inv

LEMMA ReplyStep ==
  ASSUME Inv, NEW k \in Click, Reply(k)
  PROVE  Inv'
<1> TypeOK
  BY DEF Inv
<1>0. UNCHANGED <<call, who, about, grant, mint, state, jwt, ttl, by, named, need>>
  BY DEF Reply, Unasked, session, call
<1>f. \A s \in Request : Filed(s)' = Filed(s)
  BY <1>0, FiledKept
<1>1. /\ console'[k] # "idle" /\ (console'[k] = "deny" => mint[k] = "forbidden")
      /\ \A j \in Click : j # k => console'[j] = console[j]
      /\ console' \in [Click -> Replies]
  BY DEF Reply, Answer, TypeOK, Replies
<1>2. TypeOK'
  BY <1>0, <1>1, ApprovalType DEF TypeOK, States, Mints
<1>3. FiledOnce' /\ WaitsInv' /\ TokensInv'
  BY <1>0, Kept
<1>4. SessionsInv' /\ IssuingInv'
  BY <1>0, <1>f DEF Inv, SessionsInv, IssuingInv
<1>5. ClicksInv'
  <2>1. \A j \in Click : about[j] \in Request
    BY DEF TypeOK, Approval
  <2> QED
    BY <1>0, <1>f, <1>1, <2>1 DEF Inv, ClicksInv
<1> QED
  BY <1>2, <1>3, <1>4, <1>5 DEF Inv

\* The other ends of a session: it was not being issued.
LEMMA EndStep ==
  ASSUME Inv, NEW r \in Request, Close(r) \/ Expire(r)
  PROVE  Inv'
<1> TypeOK
  BY DEF Inv
<1>0. UNCHANGED <<call, who, about, grant, mint, console, jwt, ttl, by, named, need>>
  BY DEF Close, Expire, approval, call
<1>f. \A s \in Request : Filed(s)' = Filed(s)
  BY <1>0, FiledKept
<1>1. /\ state' \in [Request -> States]
      /\ state'[r] \in {"denied", "expired"} /\ (\A s \in Request : s # r => state'[s] = state[s])
      /\ state[r] # "none"
  BY DEF Close, Expire, Delivered, TypeOK, Open, States
<1>2. state[r] = "issued" => r \in jwt /\ state'[r] = "expired"
  BY DEF Close, Expire, Delivered, TypeOK, Open
<1>3. r \in jwt => state'[r] = "expired"
  BY DEF Close, Expire, Delivered, TypeOK, Open, Inv, SessionsInv
<1>4. TypeOK'
  BY <1>0, <1>1, ApprovalType DEF TypeOK, Replies, Mints
<1>5. FiledOnce' /\ WaitsInv' /\ TokensInv'
  BY <1>0, <1>1, Kept
<1>6. SessionsInv'
  BY <1>0, <1>f, <1>1, <1>3 DEF Inv, SessionsInv
<1>7. ClicksInv' /\ IssuingInv'
  <2>1. \A a \in Approval : about[a] \in Request
    BY DEF TypeOK
  <2>2. ClicksInv'
    BY <1>0, <1>f, <2>1 DEF Inv, ClicksInv, Approval
  <2> QED
    BY <1>0, <1>1, <1>2, <2>1, <2>2 DEF Inv, IssuingInv
<1> QED
  BY <1>4, <1>5, <1>6, <1>7 DEF Inv

LEMMA TickStep ==
  ASSUME Inv, Tick
  PROVE  Inv'
<1> TypeOK
  BY DEF Inv
<1>0. UNCHANGED <<named, need, todo, lasting, sid, token, state, jwt, by, approval>>
  BY DEF Tick
<1>1. /\ place' \in [Call -> Places]
      /\ \A c \in Call : /\ place'[c] = place[c] \/ place'[c] = "wait"
                        /\ place'[c] # "sleep"
  BY DEF Tick, TypeOK, Awake, Places
<1>2. /\ polls' \in [Call -> 0 .. Wait] /\ late' \in [Call -> 0 .. Margin]
      /\ ttl' \in [Request -> Nat]
  BY TimesAssumption DEF Tick, TypeOK, Awake, Hurries, Inv, WaitsInv
<1>3. TypeOK'
  <2>1. named' \in BOOLEAN
    BY <1>0, Zenon DEF TypeOK
  <2> QED
    BY <1>0, <1>1, <1>2, <2>1 DEF TypeOK, approval, Places
<1>4. FiledOnce' /\ WaitsInv' /\ TokensInv'
  BY <1>0, <1>1 DEF Inv, FiledOnce, WaitsInv, TokensInv, Before, Covers, Claims, approval
<1>5. SessionsInv' /\ ClicksInv' /\ IssuingInv'
  BY <1>0, SessionsKept
<1> QED
  BY <1>3, <1>4, <1>5 DEF Inv

------------------------------------------------------------------------------

LEMMA NextInv == Inv /\ [Next]_vars => Inv'
<1> SUFFICES ASSUME Inv, [Next]_vars PROVE Inv'
  OBVIOUS
<1>1. ASSUME NEW c \in Call, McpCall(c) PROVE Inv'
  BY <1>1, CallStep, CallInv, CreateStep DEF McpCall
<1>2. ASSUME NEW k \in Click, Approving(k) PROVE Inv'
  BY <1>2, MintStep, ReplyStep DEF Approving
<1>3. CASE \E k \in Click, o \in Operator, r \in Request : Approve(k, o, r)
  BY <1>3, ApproveStep
<1>4. CASE \E m \in Merge : Merged(m)
  BY <1>4, MergedStep
<1>5. CASE \E m \in Merge, o \in Operator, r \in Request :
             \E g \in Edits \union {Filed(r)} : MergeRequest(m, o, r, g)
  BY <1>5, MergeRequestStep
<1>6. ASSUME NEW a \in Approval, Issuing(a) PROVE Inv'
  BY <1>6, IssueStep, IssueFailsStep DEF Issuing
<1>7. CASE \E r \in Request : Close(r) \/ Expire(r)
  BY <1>7, EndStep
<1>8. CASE Tick
  BY <1>8, TickStep
<1>9. CASE UNCHANGED vars
  <2>1. UNCHANGED <<call, session, approval>>
    BY <1>9 DEF vars
  <2>2. UNCHANGED <<named, need, state, jwt, ttl, by, who, about, grant, console, mint>>
    BY <2>1 DEF call, session, approval
  <2>3. TypeOK'
    BY <2>1, <2>2, ApprovalType DEF Inv, TypeOK, States, Replies, Mints
  <2>4. FiledOnce' /\ WaitsInv' /\ TokensInv'
    BY <2>1, <2>2, Kept
  <2>5. SessionsInv' /\ ClicksInv' /\ IssuingInv'
    BY <2>1, <2>2, SessionsKept
  <2> QED
    BY <2>3, <2>4, <2>5 DEF Inv
<1> QED
  BY <1>1, <1>2, <1>3, <1>4, <1>5, <1>6, <1>7, <1>8, <1>9 DEF Next

\* The inductive invariant: a session belongs to one approval, of its request, by somebody
\* who is not the requester of the grant approved, from the claim on; a click's grant is
\* the one filed; and every token that a call presents was issued.
THEOREM InvCorrect == Spec => []Inv
BY InitInv, NextInv, PTL DEF Spec

\* The state of the calls, the sessions and the approvals stays within its types.
THEOREM TypeCorrect == Spec => []TypeOK
<1>1. Inv => TypeOK
  BY DEF Inv
<1> QED
  BY <1>1, InvCorrect, PTL

\* mint_core.py:206 - a session that is issued and has no token is being issued.
THEOREM ClaimHeldCorrect == Spec => []ClaimHeld
<1>1. Inv => ClaimHeld
  BY DEF Inv, SessionsInv, ClaimHeld
<1> QED
  BY <1>1, InvCorrect, PTL

\* app.py:1347, 1393 - a click that is audited as denied claimed nothing, and never will.
THEOREM DenyIsFinalCorrect == Spec => []DenyIsFinal
<1>1. ASSUME Inv, NEW k \in Click, console[k] = "deny" PROVE by[about[k]] # k
  <2>1. mint[k] \in {"idle", "forbidden"} /\ about[k] \in Request /\ k \in Approval
    BY <1>1 DEF Inv, ClicksInv, TypeOK, Approval
  <2> QED
    BY <1>1, <2>1, ClaimedBy
<1>2. Inv => DenyIsFinal
  BY <1>1 DEF DenyIsFinal
<1> QED
  BY <1>2, InvCorrect, PTL

\* mint_core.py:75, webhook.py:260 - a call made under an approval, a click or a merge, has
\* the claims of the grant approved: for its sandbox and its tool, and approved by somebody
\* who is not that grant's requester.
THEOREM ElevatedAsApprovedCorrect == Spec => []ElevatedAsApproved
<1>1. ASSUME Inv, NEW c \in Call, place[c] = "done"
      PROVE  LET r == token[c]
                 a == by[token[c]]
             IN /\ a # 0 /\ about[a] = r /\ mint[a] = "ok"
                /\ who[a] # grant[a].requester
                /\ a \in Click => grant[a] = Filed(r)
                /\ grant[a].sandbox = need[c].sandbox /\ need[c].tool \in grant[a].tools
  <2>1. token[c] \in jwt /\ token[c] \in Request /\ Covers(token[c], c)
    BY <1>1 DEF Inv, TokensInv, TypeOK
  <2> QED
    BY <1>1, <2>1 DEF Inv, SessionsInv, Covers, Claims
<1>2. Inv => ElevatedAsApproved
  BY <1>1 DEF ElevatedAsApproved
<1> QED
  BY <1>2, InvCorrect, PTL

------------------------------------------------------------------------------

\* A token that lasted when the clock was read lasts until the margin is over.
Presentable(r, c) == late[c] < Margin => ttl[r] + late[c] > Margin

\* What a call knows of the tokens that it looks at, and of the one that it found.
ReuseInv == \A c \in Call :
  /\ place[c] = "look" => \A r \in lasting[c] : r \in jwt => Presentable(r, c)
  /\ place[c] = "retry" /\ sid[c] = None => Covers(token[c], c) /\ Presentable(token[c], c)
  /\ place[c] = "refused" /\ sid[c] = None => late[c] = Margin

\* The numbers of a call.
LEMMA Ticks ==
  ASSUME TypeOK, NEW c \in Call
  PROVE  /\ late[c] \in Nat /\ late[c] <= Margin /\ Margin \in Nat
         /\ \A r \in Request : ttl[r] \in Nat
BY TimesAssumption DEF TypeOK

\* A call's own step: what the others know stays as it was.
LEMMA OthersReuse ==
  ASSUME Inv, ReuseInv, NEW c \in Call, NEW d \in Call, d # c, McpCall(c)
  PROVE  /\ place'[d] = "look" => \A r \in lasting'[d] : r \in jwt' => Presentable(r, d)'
         /\ place'[d] = "retry" /\ sid'[d] = None =>
              Covers(token[d], d)' /\ Presentable(token[d], d)'
         /\ place'[d] = "refused" /\ sid'[d] = None => late'[d] = Margin
<1> TypeOK
  BY DEF Inv
<1>1. UNCHANGED <<need, ttl, jwt, by, grant>>
  BY DEF McpCall, FirstCall, List, Look, ListPending, Match, Create, Poll, Retry,
         UnchangedElsewhere, session, approval
<1>2. place'[d] = place[d]
  BY DEF McpCall, FirstCall, List, Look, ListPending, Match, Create, Poll, Retry, Goto, TypeOK
<1>3. lasting'[d] = lasting[d]
  BY DEF McpCall, FirstCall, List, Look, ListPending, Match, Create, Poll, Retry, Set, TypeOK
<1>4. sid'[d] = sid[d] /\ token'[d] = token[d] /\ late'[d] = late[d]
  BY DEF McpCall, FirstCall, List, Look, ListPending, Match, Create, Poll, Retry, Set, TypeOK
<1> QED
  BY <1>1, <1>2, <1>3, <1>4 DEF ReuseInv, Covers, Claims, Presentable

LEMMA CallReuse ==
  ASSUME Inv, ReuseInv, NEW c \in Call, McpCall(c)
  PROVE  ReuseInv'
<1> TypeOK
  BY DEF Inv
<1>1. UNCHANGED <<need, ttl, jwt, by, grant>>
  BY DEF McpCall, FirstCall, List, Look, ListPending, Match, Create, Poll, Retry,
         UnchangedElsewhere, session, approval
<1>2. place'[c] = "look" => \A r \in lasting'[c] : r \in jwt' => Presentable(r, c)'
  <2>1. CASE List(c)
    <3>1. place'[c] = "look" => /\ \A r \in lasting'[c] : r \in Request /\ Lasts(r)
                                /\ late' = late
      BY <2>1 DEF List, Goto, Set, TypeOK
    <3> QED
      BY <1>1, <3>1, Ticks DEF Lasts, Presentable
  <2>2. CASE Look(c)
    <3>1. place'[c] = "look" => /\ place[c] = "look" /\ late' = late
                                /\ lasting'[c] \subseteq lasting[c]
      BY <2>2 DEF Look, Goto, Set, TypeOK
    <3> QED
      BY <1>1, <3>1 DEF ReuseInv, Presentable
  <2>3. CASE FirstCall(c) \/ ListPending(c) \/ Match(c) \/ Create(c) \/ Poll(c) \/ Retry(c)
    <3>1. place'[c] # "look"
      BY <2>3 DEF FirstCall, ListPending, Match, Create, Poll, Retry, Goto, TypeOK
    <3> QED
      BY <3>1
  <2> QED
    BY <2>1, <2>2, <2>3 DEF McpCall
<1>3. place'[c] = "retry" /\ sid'[c] = None =>
        Covers(token[c], c)' /\ Presentable(token[c], c)'
  <2>1. CASE Look(c)
    <3>1. place'[c] = "retry" => /\ place[c] = "look" /\ late' = late
                                 /\ token'[c] \in lasting[c] /\ token'[c] \in jwt
                                 /\ Covers(token'[c], c)
      BY <2>1 DEF Look, Goto, Set, TypeOK, Delivered
    <3> QED
      BY <1>1, <3>1 DEF ReuseInv, Covers, Claims, Presentable
  <2>2. CASE Poll(c)
    <3>1. place'[c] = "retry" => sid'[c] = sid[c] /\ sid[c] \in jwt
      BY <2>2 DEF Poll, Goto, Set, TypeOK, Delivered
    <3>2. place'[c] = "retry" => sid'[c] # None
      BY <3>1, PeopleAssumption DEF TypeOK, Request
    <3> QED
      BY <3>2
  <2>3. CASE FirstCall(c) \/ List(c) \/ ListPending(c) \/ Match(c) \/ Create(c) \/ Retry(c)
    <3>1. place'[c] # "retry"
      BY <2>3 DEF FirstCall, List, ListPending, Match, Create, Retry, Goto, TypeOK
    <3> QED
      BY <3>1
  <2> QED
    BY <2>1, <2>2, <2>3 DEF McpCall
<1>4. place'[c] = "refused" /\ sid'[c] = None => late'[c] = Margin
  <2>1. CASE Retry(c)
    <3> SUFFICES ASSUME place'[c] = "refused", sid'[c] = None PROVE late'[c] = Margin
      OBVIOUS
    <3>1. /\ place[c] = "retry" /\ sid[c] = None /\ late' = late
          /\ ~(ttl[token[c]] > 0 /\ Covers(token[c], c))
      BY <2>1 DEF Retry, Goto, TypeOK
    <3>2. Presentable(token[c], c) /\ Covers(token[c], c) /\ token[c] \in Request
      BY <3>1 DEF ReuseInv, Inv, TokensInv, TypeOK
    <3> QED
      BY <3>1, <3>2, Ticks DEF Presentable
  <2>2. CASE FirstCall(c) \/ List(c) \/ Look(c) \/ ListPending(c) \/ Match(c) \/ Create(c) \/ Poll(c)
    <3>1. place'[c] # "refused"
      BY <2>2 DEF FirstCall, List, Look, ListPending, Match, Create, Poll, Goto, TypeOK
    <3> QED
      BY <3>1
  <2> QED
    BY <2>1, <2>2 DEF McpCall
<1> QED
  BY <1>2, <1>3, <1>4, OthersReuse DEF ReuseInv

\* Where the calls do not move: what is issued keeps its claims, and what is issued now
\* lasts for longer than the margin.
LEMMA SessionReuse ==
  ASSUME Inv, ReuseInv, UNCHANGED call,
         \A r \in Request : r \in jwt' => (r \in jwt /\ ttl'[r] = ttl[r])
                                          \/ (ttl'[r] \in Nat /\ ttl'[r] > Margin),
         \A r \in jwt : by'[r] = by[r] /\ grant'[by[r]] = grant[by[r]], jwt \subseteq jwt'
  PROVE  ReuseInv'
<1> TypeOK
  BY DEF Inv
<1>0. UNCHANGED <<need, place, lasting, sid, token, late>>
  BY DEF call
<1>1. ASSUME NEW c \in Call, NEW r \in Request, r \in jwt', r \in jwt => Presentable(r, c)
      PROVE  Presentable(r, c)'
  BY <1>0, <1>1, Ticks DEF Presentable
<1>2. ASSUME NEW c \in Call, place[c] = "retry", sid[c] = None
      PROVE  Covers(token[c], c)' /\ Presentable(token[c], c)'
  <2>1. token[c] \in jwt /\ token[c] \in Request
    BY <1>2 DEF Inv, TokensInv, TypeOK
  <2>2. Presentable(token[c], c)'
    BY <1>0, <1>2, <2>1, Ticks DEF ReuseInv, Presentable
  <2> QED
    BY <1>0, <1>2, <2>1, <2>2 DEF ReuseInv, Covers, Claims
<1>3. ASSUME NEW c \in Call, place[c] = "look", NEW r \in lasting[c], r \in jwt'
      PROVE  Presentable(r, c)'
  <2>1. r \in Request
    BY DEF TypeOK
  <2> QED
    BY <1>1, <1>3, <2>1 DEF ReuseInv
<1> QED
  BY <1>0, <1>2, <1>3 DEF ReuseInv

LEMMA TickReuse ==
  ASSUME Inv, ReuseInv, Tick
  PROVE  ReuseInv'
<1> TypeOK
  BY DEF Inv
<1>0. UNCHANGED <<need, lasting, sid, token, jwt, by, grant>>
  BY DEF Tick, approval
<1>1. SUFFICES ASSUME NEW c \in Call
               PROVE  /\ place'[c] = "look" => \A r \in lasting[c] : r \in jwt => Presentable(r, c)'
                      /\ place'[c] = "retry" /\ sid[c] = None =>
                           Covers(token[c], c)' /\ Presentable(token[c], c)'
                      /\ place'[c] = "refused" /\ sid[c] = None => late'[c] = Margin
  BY <1>0 DEF ReuseInv
<1>2. place'[c] # "wait" => place'[c] = place[c]
  BY DEF Tick, TypeOK
<1>3. ASSUME NEW r \in Request, Reusing(c), Presentable(r, c)
      PROVE  Presentable(r, c)'
  <2>1. ttl'[r] \in Nat /\ ttl[r] \in Nat /\ ttl[r] <= ttl'[r] + 1
    BY Ticks DEF Tick
  <2>2. late[c] < Margin => late'[c] = late[c] + 1
    BY <1>3 DEF Tick, Hurries, TypeOK
  <2>3. ~(late[c] < Margin) => late'[c] = late[c]
    BY DEF Tick, Hurries, TypeOK
  <2> QED
    BY <1>3, <2>1, <2>2, <2>3, Ticks DEF Presentable
<1>4. place'[c] = "look" => \A r \in lasting[c] : r \in jwt => Presentable(r, c)'
  <2>1. \A r \in lasting[c] : r \in Request
    BY DEF TypeOK
  <2> QED
    BY <1>2, <1>3, <2>1 DEF ReuseInv, Reusing
<1>5. place'[c] = "retry" /\ sid[c] = None => Covers(token[c], c)' /\ Presentable(token[c], c)'
  <2> SUFFICES ASSUME place'[c] = "retry", sid[c] = None
               PROVE  Covers(token[c], c)' /\ Presentable(token[c], c)'
    OBVIOUS
  <2>1. place[c] = "retry" /\ Covers(token[c], c) /\ Presentable(token[c], c)
    BY <1>2 DEF ReuseInv
  <2>2. token[c] \in Request
    BY <2>1 DEF Inv, TokensInv, TypeOK
  <2>3. Presentable(token[c], c)'
    BY <1>0, <1>3, <2>1, <2>2 DEF Reusing, Presentable
  <2> QED
    BY <1>0, <2>1, <2>3 DEF Covers, Claims
<1>6. place'[c] = "refused" /\ sid[c] = None => late'[c] = Margin
  <2>1. place[c] = "refused" => late'[c] = late[c]
    BY DEF Tick, Hurries, Reusing, TypeOK
  <2> QED
    BY <1>2, <2>1 DEF ReuseInv
<1> QED
  BY <1>4, <1>5, <1>6

LEMMA NextReuse == Inv /\ ReuseInv /\ [Next]_vars => ReuseInv'
<1> SUFFICES ASSUME Inv, ReuseInv, [Next]_vars PROVE ReuseInv'
  OBVIOUS
<1> TypeOK
  BY DEF Inv
<1>j. \A r \in jwt : r \in Request /\ by[r] \in Approval /\ mint[by[r]] = "ok" /\ state[r] \notin Open
  BY DEF Inv, SessionsInv, TypeOK, Open
<1>1. ASSUME NEW c \in Call, McpCall(c) PROVE ReuseInv'
  BY <1>1, CallReuse
<1>2. ASSUME NEW k \in Click, CallerRefused(k) \/ Reply(k) PROVE ReuseInv'
  <2>1. UNCHANGED <<call, jwt, ttl, by, grant>>
    BY <1>2 DEF CallerRefused, Reply, Unasked, session
  <2> QED
    BY <2>1, SessionReuse
<1>3. ASSUME NEW a \in Approval, Mint(a) \/ Merged(a) PROVE ReuseInv'
  <2>1. UNCHANGED <<call, jwt, ttl, grant>>
    BY <1>3 DEF Mint, Merged, Unasked
  <2>2. \/ UNCHANGED by
        \/ state[about[a]] \in Open /\ by' = [by EXCEPT ![about[a]] = a]
    BY <1>3 DEF Mint, Merged, Claim
  <2>3. \A r \in jwt : by'[r] = by[r]
    BY <1>j, <2>2 DEF TypeOK
  <2> QED
    BY <2>1, <2>3, SessionReuse
<1>4. ASSUME NEW a \in Approval, NEW g, mint[a] = "idle", grant' = [grant EXCEPT ![a] = g],
             UNCHANGED <<call, session>>
      PROVE  ReuseInv'
  <2>1. UNCHANGED <<jwt, ttl, by>>
    BY <1>4 DEF session
  <2>2. \A r \in jwt : grant'[by[r]] = grant[by[r]]
    BY <1>j, <1>4 DEF TypeOK
  <2> QED
    BY <1>4, <2>1, <2>2, SessionReuse
<1>5. CASE \E k \in Click, o \in Operator, r \in Request : Approve(k, o, r)
  <2>1. PICK k \in Click, o \in Operator, r \in Request : Approve(k, o, r)
    BY <1>5
  <2>2. /\ k \in Approval /\ mint[k] = "idle" /\ grant' = [grant EXCEPT ![k] = Filed(r)]
        /\ UNCHANGED <<call, session>>
    BY <2>1 DEF Approve, Inv, ClicksInv, Approval
  <2> QED
    BY <1>4, <2>2
<1>6. CASE \E m \in Merge, o \in Operator, r \in Request :
             \E g \in Edits \union {Filed(r)} : MergeRequest(m, o, r, g)
  <2>0. PICK m \in Merge, o \in Operator, r \in Request :
               \E g \in Edits \union {Filed(r)} : MergeRequest(m, o, r, g)
    BY <1>6
  <2>1. PICK g \in Edits \union {Filed(r)} : MergeRequest(m, o, r, g)
    BY <2>0
  <2>2. /\ m \in Approval /\ mint[m] = "idle" /\ grant' = [grant EXCEPT ![m] = g]
        /\ UNCHANGED <<call, session>>
    BY <2>1 DEF MergeRequest, Approval
  <2> QED
    BY <1>4, <2>2
<1>7. ASSUME NEW a \in Approval, Issue(a) PROVE ReuseInv'
  <2>1. /\ UNCHANGED <<call, by, grant>> /\ jwt' = jwt \union {about[a]}
        /\ ttl' = [ttl EXCEPT ![about[a]] = grant[a].duration] /\ about[a] \in Request
    BY <1>7 DEF Issue, Unasked, TypeOK
  <2>2. grant[a].duration \in Nat /\ grant[a].duration > Margin
    BY DEF TypeOK, Grant
  <2>3. \A r \in Request : ttl'[r] = IF r = about[a] THEN grant[a].duration ELSE ttl[r]
    BY <2>1 DEF TypeOK
  <2>4. \A r \in Request : r \in jwt' => (r \in jwt /\ ttl'[r] = ttl[r])
                                         \/ (ttl'[r] \in Nat /\ ttl'[r] > Margin)
    BY <2>1, <2>2, <2>3
  <2> QED
    BY <2>1, <2>4, SessionReuse
<1>8. ASSUME NEW a \in Approval, IssueFails(a) PROVE ReuseInv'
  <2>1. UNCHANGED <<call, jwt, ttl, by, grant>>
    BY <1>8 DEF IssueFails, Unasked
  <2> QED
    BY <2>1, SessionReuse
<1>9. CASE \/ \E r \in Request : Close(r) \/ Expire(r)
           \/ UNCHANGED vars
  <2>1. UNCHANGED <<call, jwt, ttl, by, grant>>
    BY <1>9 DEF Close, Expire, vars, session, approval
  <2> QED
    BY <2>1, SessionReuse
<1>10. CASE Tick
  BY <1>10, TickReuse
<1> QED
  BY <1>1, <1>2, <1>3, <1>5, <1>6, <1>7, <1>8, <1>9, <1>10
     DEF Next, Approving, Issuing, Approval

\* mcp-call:211 - a token that was found is refused only if more than the margin went by
\* from the reading of the clock to the call, whatever was approved and ended meanwhile.
THEOREM ReuseAcceptedCorrect == Spec => []ReuseAccepted
<1>1. Init => ReuseInv
  BY DEF Init, ReuseInv
<1>2. ReuseInv => ReuseAccepted
  BY DEF ReuseInv, ReuseAccepted
<1> QED
  BY <1>1, <1>2, NextReuse, InvCorrect, PTL DEF Spec
=============================================================================
