------------------------------- MODULE JitLedger -------------------------------
(***************************************************************************)
(* The audit ledger of the just-in-time approver: ledger.record appends one *)
(* entry to a hash chain and never fails its caller.  The memory backend    *)
(* appends under the store's lock without an await.  The Postgres backend   *)
(* runs a transaction of its own - lock and read the head row, insert the   *)
(* entry, move the head - any call of which may fail or time out, also when *)
(* the database goes on to commit.                                          *)
(*                                                                         *)
(* sha256(prev_hash + payload_json) has no collisions here: an entry's hash *)
(* stands for the payloads it covers, the first entry's first.              *)
(***************************************************************************)
EXTENDS Naturals, Sequences

CONSTANTS
  Writer,    \* handlers that record events, each one event after the other
  MaxCalls,  \* bound on the events of a handler
  None

ASSUME CallsAssumption == MaxCalls \in Nat

\* The n-th event that handler w records.
Event == Writer \X (1 .. MaxCalls)
Entry == [seq : Nat, prev : Seq(Event), hash : Seq(Event), payload : Event]

ASSUME NoneAssumption == /\ None \notin Writer \union Entry
                         /\ "orphan" \notin Writer \union {None}

VARIABLES
  backend,  \* JIT_STORE_BACKEND
  log,      \* the entries, in the order in which they were committed
  head,     \* the head row: its seq and head_hash
  nextval,  \* the BIGSERIAL sequence, which no rollback turns back
  lock,     \* who holds the lock on the head row: a handler, "orphan" or None
  orphan,   \* the entry of a transaction whose client has given up on COMMIT
  pc,       \* what the handler's call waits for
  calls,    \* how many events the handler has recorded, or tried to
  entry,    \* the entry of the handler's transaction
  ok        \* the events counted as jit_ledger_appends_total{result="ok"}

vars == <<backend, log, head, nextval, lock, orphan, pc, calls, entry, ok>>

TypeOK ==
  /\ backend \in {"memory", "postgres"}
  /\ log \in Seq(Entry)
  /\ head \in [seq : Nat, hash : Seq(Event)]
  /\ nextval \in Nat
  /\ lock \in Writer \union {"orphan", None}
  /\ orphan \in Entry \union {None}
  /\ pc \in [Writer -> {"idle", "head", "insert", "update", "commit"}]
  /\ calls \in [Writer -> 0 .. MaxCalls]
  /\ entry \in [Writer -> Entry \union {None}]
  /\ ok \subseteq Event

EmptyHead == [seq |-> 0, hash |-> << >>]

Init ==
  /\ backend \in {"memory", "postgres"}
  /\ log = << >>
  /\ head = EmptyHead
  /\ nextval = 1
  /\ lock = None
  /\ orphan = None
  /\ pc = [w \in Writer |-> "idle"]
  /\ calls = [w \in Writer |-> 0]
  /\ entry = [w \in Writer |-> None]
  /\ ok = {}

\* The event that handler w is recording.
Current(w) == <<w, calls[w]>>

\* The entry for payload on top of the hash prev.
NewEntry(seq, prev, payload) ==
  [seq |-> seq, prev |-> prev, hash |-> Append(prev, payload),
   payload |-> payload]

HeadAt(e) == [seq |-> e.seq, hash |-> e.hash]

-----------------------------------------------------------------------------
(* The memory backend: no call is awaited.                                   *)

AppendInMemory(w) ==
  LET e == NewEntry(head.seq + 1, head.hash, <<w, calls[w] + 1>>) IN
  /\ backend = "memory"
  /\ calls[w] < MaxCalls
  /\ calls' = [calls EXCEPT ![w] = @ + 1]
  /\ log' = Append(log, e)
  /\ head' = HeadAt(e)
  /\ ok' = ok \union {e.payload}
  /\ UNCHANGED <<backend, nextval, lock, orphan, pc, entry>>

-----------------------------------------------------------------------------
(* The Postgres backend.                                                     *)

Record(w) ==
  /\ backend = "postgres"
  /\ pc[w] = "idle"
  /\ calls[w] < MaxCalls
  /\ calls' = [calls EXCEPT ![w] = @ + 1]
  /\ pc' = [pc EXCEPT ![w] = "head"]
  /\ UNCHANGED <<backend, log, head, nextval, lock, orphan, entry, ok>>

HeadUnlocked == TRUE
\* FOR UPDATE: the row is locked until the transaction that holds it is over.
HeadFree == lock = None

\* SELECT ... FOR UPDATE returns the committed head.
LockHead(w) ==
  /\ pc[w] = "head"
  /\ HeadFree
  /\ lock' = w
  /\ entry' = [entry EXCEPT ![w] = NewEntry(0, head.hash, Current(w))]
  /\ pc' = [pc EXCEPT ![w] = "insert"]
  /\ UNCHANGED <<backend, log, head, nextval, orphan, calls, ok>>

\* INSERT ... RETURNING seq
InsertEntry(w) ==
  /\ pc[w] = "insert"
  /\ entry' = [entry EXCEPT ![w].seq = nextval]
  /\ nextval' = nextval + 1
  /\ pc' = [pc EXCEPT ![w] = "update"]
  /\ UNCHANGED <<backend, log, head, lock, orphan, calls, ok>>

\* UPDATE jit_ledger_head: visible to others only with the commit.
UpdateHead(w) ==
  /\ pc[w] = "update"
  /\ pc' = [pc EXCEPT ![w] = "commit"]
  /\ UNCHANGED <<backend, log, head, nextval, lock, orphan, calls, entry, ok>>

Committed(e) ==
  /\ log' = Append(log, e)
  /\ head' = HeadAt(e)

\* The handler goes on; its transaction is no longer its own.
Return(w) ==
  /\ pc' = [pc EXCEPT ![w] = "idle"]
  /\ entry' = [entry EXCEPT ![w] = None]

Commit(w) ==
  /\ pc[w] = "commit"
  /\ Committed(entry[w])
  /\ lock' = None
  /\ ok' = ok \union {Current(w)}
  /\ Return(w)
  /\ UNCHANGED <<backend, nextval, orphan, calls>>

LockLeaked(w) == lock
\* A transaction that is rolled back gives the head row up, if it has it.
LockAfterAbort(w) == IF lock = w THEN None ELSE lock

ErrorCountedAsOk(w) == ok \union {Current(w)}
\* A call that fails or times out is logged and counted as an error; the
\* caller is not told.
CountError(w) == ok

\* Before the commit: the transaction is rolled back.
Abort(w) ==
  /\ pc[w] # "idle"
  /\ lock' = LockAfterAbort(w)
  /\ ok' = CountError(w)
  /\ Return(w)
  /\ UNCHANGED <<backend, log, head, nextval, orphan, calls>>

\* During the commit: the client gives up, and the database still holds the
\* transaction and its lock.
TimeOut(w) ==
  /\ pc[w] = "commit"
  /\ orphan' = entry[w]
  /\ lock' = "orphan"
  /\ ok' = CountError(w)
  /\ Return(w)
  /\ UNCHANGED <<backend, log, head, nextval, calls>>

\* The database settles it.
SettleOrphan ==
  /\ orphan # None
  /\ Committed(orphan) \/ UNCHANGED <<log, head>>
  /\ orphan' = None
  /\ lock' = None
  /\ UNCHANGED <<backend, nextval, pc, calls, entry, ok>>

\* The process restarts: what was in flight is rolled back or, during its
\* commit, left to the database.  The memory backend loses the ledger.
Restart ==
  /\ pc' = [w \in Writer |-> "idle"]
  /\ entry' = [w \in Writer |-> None]
  /\ \/ /\ backend = "memory"
        /\ log' = << >> /\ head' = EmptyHead /\ ok' = {}
        /\ UNCHANGED <<lock, orphan>>
     \/ /\ backend = "postgres"
        /\ lock \notin Writer
        /\ UNCHANGED <<log, head, ok, lock, orphan>>
     \/ /\ backend = "postgres"
        /\ lock \in Writer
        /\ \/ lock' = None /\ UNCHANGED orphan
           \/ pc[lock] = "commit" /\ lock' = "orphan" /\ orphan' = entry[lock]
        /\ UNCHANGED <<log, head, ok>>
  /\ UNCHANGED <<backend, nextval, calls>>

-----------------------------------------------------------------------------
Serve(w) == \/ LockHead(w) \/ InsertEntry(w) \/ UpdateHead(w) \/ Commit(w)
            \/ Abort(w) \/ TimeOut(w)

Next == \/ \E w \in Writer : AppendInMemory(w) \/ Record(w) \/ Serve(w)
        \/ SettleOrphan
        \/ Restart

Spec == Init /\ [][Next]_vars

\* A call is answered or times out (command_timeout), and the database settles
\* every transaction it is left with.
FairSpec == Spec /\ WF_vars(SettleOrphan) /\ \A w \in Writer : WF_vars(Serve(w))

-----------------------------------------------------------------------------
(* Properties.                                                               *)

\* The hash h covers the first n entries of s, and nothing else.
Covers(s, h, n) == Len(h) = n /\ \A k \in 1 .. n : h[k] = s[k].payload

\* The ledger is one chain: every entry's hash covers all that was appended
\* before it, and the head row is the last entry's, so that the head alone
\* gives away a change anywhere.  No fork, whoever appends at the same time.
Chained ==
  /\ \A i \in DOMAIN log : Covers(log, log[i].hash, i)
  /\ \A i \in DOMAIN log :
       log[i].prev = IF i = 1 THEN << >> ELSE log[i - 1].hash
  /\ head = IF log = << >> THEN EmptyHead ELSE HeadAt(log[Len(log)])

\* Whoever reads the ledger ORDER BY seq reads it in the order of the chain.
SeqIncreasing ==
  \A i, j \in DOMAIN log : i < j => log[i].seq < log[j].seq

\* An event that was counted as recorded is in the ledger, and no event is
\* there twice, even if its call was given up and committed all the same.
RecordedOnce ==
  /\ \A e \in ok : \E i \in DOMAIN log : log[i].payload = e
  /\ \A i, j \in DOMAIN log : log[i].payload = log[j].payload => i = j

\* The ledger keeps the order of a handler's events (jit_approved before
\* jit_issued), even if the call for the first timed out before its commit.
OrderKept ==
  \A i, j \in DOMAIN log :
    i < j /\ log[i].payload[1] = log[j].payload[1] =>
      log[i].payload[2] < log[j].payload[2]

\* The head row never stays locked: a call that is given up, or a process that
\* dies in one, does not keep everybody else's events out of the ledger.
HeadReleased == lock # None ~> lock = None

-----------------------------------------------------------------------------
(* The inductive invariant of the proofs.                                      *)

\* The transaction that is ready to append e: e continues the chain from the
\* committed head, and is the newest event of its handler.
Continues(e) ==
  /\ e.prev = head.hash
  /\ e.hash = Append(head.hash, e.payload)
  /\ \A i \in DOMAIN log : log[i].payload[1] = e.payload[1] =>
                              log[i].payload[2] < e.payload[2]

\* One transaction at a time is past the lock, and the head it has read is
\* still the head.
LockInv ==
  /\ backend = "memory" => lock = None /\ \A w \in Writer : pc[w] = "idle"
  /\ orphan # None <=> lock = "orphan"
  /\ orphan # None => /\ Continues(orphan)
                      /\ head.seq < orphan.seq /\ orphan.seq < nextval
                      /\ orphan.payload[2] <= calls[orphan.payload[1]]
  /\ \A w \in Writer :
       /\ pc[w] \in {"insert", "update", "commit"} <=> lock = w
       /\ lock = w => /\ entry[w] \in Entry /\ entry[w].payload = Current(w)
                      /\ Continues(entry[w])
       /\ pc[w] \in {"update", "commit"} =>
            head.seq < entry[w].seq /\ entry[w].seq < nextval

\* No event is in the ledger before its call, and while a handler waits for a
\* call, the event of that call is new.
CallsInv ==
  /\ \A i \in DOMAIN log : log[i].payload[2] <= calls[log[i].payload[1]]
  /\ \A w \in Writer : pc[w] # "idle" =>
       /\ calls[w] > 0
       /\ \A i \in DOMAIN log : log[i].payload[1] = w =>
                                  log[i].payload[2] < calls[w]
       /\ orphan # None /\ orphan.payload[1] = w =>
            orphan.payload[2] < calls[w]

\* The sequence is ahead of every entry.
SeqInv == backend = "postgres" => head.seq < nextval

Inv == /\ TypeOK /\ Chained /\ SeqIncreasing /\ RecordedOnce /\ OrderKept
       /\ LockInv /\ CallsInv /\ SeqInv

=============================================================================
