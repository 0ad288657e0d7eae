---------------------------- MODULE JitLedgerProofs ----------------------------
(***************************************************************************)
(* Proofs about JitLedger for any number of handlers and events.  Only the  *)
(* holder of the lock on the head row can have read a head, so the entry    *)
(* that it commits, or that is committed after its client has given up,     *)
(* continues the chain from the head that is still there (LockInv).         *)
(***************************************************************************)
EXTENDS JitLedger, SequenceTheorems, TLAPS

\* What an append of an entry that continues the chain does to the ledger.
Ledger == Chained /\ SeqIncreasing /\ OrderKept

\* The shape of the log after an append.
LEMMA Appended ==
  ASSUME NEW e \in Entry, log \in Seq(Entry), log' = Append(log, e)
  PROVE  /\ log' \in Seq(Entry)
         /\ Len(log) \in Nat /\ DOMAIN log = 1 .. Len(log)
         /\ DOMAIN log' = 1 .. (Len(log) + 1)
         /\ Len(log') = Len(log) + 1
         /\ \A i \in 1 .. Len(log) : log'[i] = log[i]
         /\ log'[Len(log) + 1] = e
<1>1. /\ log' \in Seq(Entry) /\ Len(log') = Len(log) + 1
      /\ \A i \in 1 .. Len(log) : log'[i] = log[i]
      /\ log'[Len(log) + 1] = e
  BY AppendProperties
<1>2. /\ Len(log) \in Nat /\ DOMAIN log = 1 .. Len(log)
      /\ DOMAIN log' = 1 .. Len(log')
  BY <1>1, LenProperties
<1> QED
  BY <1>1, <1>2

\* What the type of the log says about its entries.
LEMMA Entries ==
  ASSUME log \in Seq(Entry)
  PROVE  /\ Len(log) \in Nat /\ DOMAIN log = 1 .. Len(log)
         /\ log = << >> <=> Len(log) = 0
         /\ \A i \in DOMAIN log :
              /\ log[i] \in Entry
              /\ log[i].seq \in Nat
              /\ log[i].hash \in Seq(Event)
              /\ log[i].payload \in Event
<1>1. Len(log) \in Nat /\ DOMAIN log = 1 .. Len(log)
  BY LenProperties
<1>2. log = << >> <=> Len(log) = 0
  BY EmptySeq
<1>3. \A i \in DOMAIN log : log[i] \in Entry
  BY <1>1, ElementOfSeq
<1> QED
  BY <1>1, <1>2, <1>3 DEF Entry

\* The committed head covers the whole log, and no seq is beyond it.
LEMMA HeadCovers ==
  ASSUME TypeOK, Chained, SeqIncreasing
  PROVE  /\ Covers(log, head.hash, Len(log))
         /\ \A i \in DOMAIN log : log[i].seq <= head.seq
         /\ head.hash = IF log = << >> THEN << >> ELSE log[Len(log)].hash
<1>1. CASE log = << >>
  BY <1>1 DEF Chained, Covers, EmptyHead
<1>2. CASE log # << >>
  <2>1. Len(log) \in 1 .. Len(log) /\ DOMAIN log = 1 .. Len(log)
    BY <1>2, Entries DEF TypeOK
  <2>2. head.hash = log[Len(log)].hash /\ head.seq = log[Len(log)].seq
    BY <1>2 DEF Chained, HeadAt
  <2>3. \A i \in 1 .. Len(log) : log[i].seq \in Nat
    BY <2>1, Entries DEF TypeOK
  <2>4. \A i \in 1 .. Len(log) : log[i].seq <= log[Len(log)].seq
    BY <2>1, <2>3 DEF SeqIncreasing
  <2> QED
    BY <1>2, <2>1, <2>2, <2>4 DEF Chained
<1> QED
  BY <1>1, <1>2

\* Appending an entry that continues the chain keeps the ledger in order.
LEMMA CommitKeeps ==
  ASSUME TypeOK, Ledger, NEW e \in Entry, Continues(e), head.seq < e.seq,
         Committed(e)
  PROVE  Ledger' /\ log' \in Seq(Entry) /\ head' \in [seq : Nat, hash : Seq(Event)]
<1> DEFINE n == Len(log)
<1>1. /\ log' \in Seq(Entry) /\ n \in Nat /\ DOMAIN log = 1 .. n
      /\ DOMAIN log' = 1 .. (n + 1) /\ Len(log') = n + 1
      /\ \A i \in 1 .. n : log'[i] = log[i]
      /\ log'[n + 1] = e
  BY Appended DEF Committed, TypeOK
<1>2. /\ e.seq \in Nat /\ e.hash \in Seq(Event) /\ e.payload \in Event
      /\ head.hash \in Seq(Event) /\ head.seq \in Nat
  BY DEF Entry, TypeOK
<1>3. /\ Covers(log, head.hash, n)
      /\ \A i \in 1 .. n : log[i].seq <= head.seq /\ log[i].seq \in Nat
      /\ head.hash = IF log = << >> THEN << >> ELSE log[n].hash
  BY <1>1, HeadCovers, Entries DEF Ledger, TypeOK
<1>4. head' = HeadAt(e)
  BY DEF Committed
<1>5. Chained'
  <2>1. /\ Len(e.hash) = n + 1 /\ e.hash[n + 1] = e.payload
        /\ \A k \in 1 .. n : e.hash[k] = log[k].payload
    BY <1>2, <1>3, AppendProperties DEF Continues, Covers
  <2>2. \A i \in DOMAIN log' : Covers(log', log'[i].hash, i)
    <3>1. ASSUME NEW i \in 1 .. n PROVE Covers(log', log'[i].hash, i)
      <4>1. Covers(log, log[i].hash, i) /\ i \in DOMAIN log
        BY <1>1, <3>1 DEF Ledger, Chained
      <4>2. log'[i] = log[i] /\ \A k \in 1 .. i : log'[k] = log[k]
        BY <1>1, <3>1
      <4> QED
        BY <4>1, <4>2 DEF Covers
    <3>2. Covers(log', log'[n + 1].hash, n + 1)
      BY <1>1, <2>1 DEF Covers
    <3> QED
      BY <1>1, <3>1, <3>2
  <2>3. \A i \in DOMAIN log' :
          log'[i].prev = IF i = 1 THEN << >> ELSE log'[i - 1].hash
    <3>1. ASSUME NEW i \in 1 .. n
          PROVE  log'[i].prev = IF i = 1 THEN << >> ELSE log'[i - 1].hash
      BY <1>1, <3>1 DEF Ledger, Chained
    <3>2. log = << >> <=> n = 0
      BY Entries DEF TypeOK
    <3>3. log'[n + 1].prev = IF n + 1 = 1 THEN << >> ELSE log'[n].hash
      BY <1>1, <1>3, <3>2 DEF Continues
    <3> QED
      BY <1>1, <3>1, <3>3
  <2>4. log' # << >> /\ head' = HeadAt(e) /\ HeadAt(e) = HeadAt(log'[Len(log')])
    BY <1>1, <1>4, EmptySeq
  <2> QED
    BY <2>2, <2>3, <2>4 DEF Chained, HeadAt
<1>6. SeqIncreasing'
  BY <1>1, <1>2, <1>3 DEF SeqIncreasing, Ledger
<1>7. OrderKept'
  BY <1>1 DEF OrderKept, Ledger, Continues
<1>8. head' \in [seq : Nat, hash : Seq(Event)]
  BY <1>2, <1>4 DEF HeadAt
<1> QED
  BY <1>1, <1>5, <1>6, <1>7, <1>8 DEF Ledger

\* The transaction e still continues a ledger that has not changed.
LEMMA StillContinues ==
  ASSUME NEW e, Continues(e), UNCHANGED <<log, head>>
  PROVE  Continues(e)'
BY DEF Continues

\* No event is in a ledger in order twice, and nothing leaves it.
LEMMA CommitRecords ==
  ASSUME TypeOK, RecordedOnce, OrderKept', NEW e \in Entry, Committed(e),
         ok' \subseteq ok \union {e.payload}
  PROVE  RecordedOnce'
<1>1. /\ Len(log) \in Nat /\ DOMAIN log = 1 .. Len(log)
      /\ DOMAIN log' = 1 .. (Len(log) + 1)
      /\ \A i \in 1 .. Len(log) : log'[i] = log[i]
      /\ log'[Len(log) + 1] = e
      /\ log' \in Seq(Entry)
  BY Appended DEF Committed, TypeOK
<1>2. \A x \in ok' : \E i \in DOMAIN log' : log'[i].payload = x
  <2>1. ASSUME NEW x \in ok PROVE \E i \in DOMAIN log' : log'[i].payload = x
    <3>1. PICK i \in DOMAIN log : log[i].payload = x
      BY <2>1 DEF RecordedOnce
    <3> QED
      BY <1>1, <3>1
  <2> QED
    BY <1>1, <2>1
<1>3. \A i \in DOMAIN log' : log'[i].payload[2] \in Nat
  <2>1. \A i \in DOMAIN log' : log'[i] \in Entry
    BY <1>1, ElementOfSeq
  <2> QED
    BY <2>1, CallsAssumption DEF Entry, Event
<1>4. \A i, j \in DOMAIN log' : log'[i].payload = log'[j].payload => i = j
  BY <1>1, <1>3 DEF OrderKept
<1> QED
  BY <1>2, <1>4 DEF RecordedOnce

\* Initially the ledger is empty and nobody holds the lock.
LEMMA InvInit == Init => Inv
<1> SUFFICES ASSUME Init PROVE Inv
  OBVIOUS
<1>1. << >> \in Seq(Entry) /\ << >> \in Seq(Event) /\ DOMAIN << >> = {}
  BY EmptySeq
<1>2. TypeOK
  BY <1>1, CallsAssumption DEF Init, TypeOK, EmptyHead
<1>3. Chained /\ SeqIncreasing /\ RecordedOnce /\ OrderKept
  BY <1>1 DEF Init, Chained, SeqIncreasing, RecordedOnce, OrderKept
<1>4. LockInv /\ CallsInv /\ SeqInv
  BY <1>1, NoneAssumption DEF Init, LockInv, CallsInv, SeqInv, EmptyHead
<1> QED
  BY <1>2, <1>3, <1>4 DEF Inv

\* The memory backend appends without an await.
LEMMA AppendInMemoryKeeps ==
  ASSUME Inv, NEW w \in Writer, AppendInMemory(w)
  PROVE  Inv'
<1>1. PICK e : e = NewEntry(head.seq + 1, head.hash, <<w, calls[w] + 1>>)
  OBVIOUS
<1>2. /\ calls[w] \in 0 .. MaxCalls /\ calls[w] < MaxCalls
      /\ calls' \in [Writer -> 0 .. MaxCalls]
      /\ calls' = [calls EXCEPT ![w] = @ + 1]
  BY CallsAssumption DEF AppendInMemory, Inv, TypeOK
<1>3. e.payload = <<w, calls[w] + 1>> /\ e.payload \in Event
  BY <1>1, <1>2, CallsAssumption DEF NewEntry, Event
<1>4. e \in Entry
  BY <1>1, <1>3, AppendProperties DEF NewEntry, Entry, Inv, TypeOK
<1>5. /\ e.prev = head.hash /\ e.hash = Append(head.hash, e.payload)
      /\ e.seq = head.seq + 1 /\ head.seq \in Nat
  BY <1>1, <1>3 DEF NewEntry, Inv, TypeOK
<1>6. /\ log \in Seq(Entry) /\ DOMAIN log = 1 .. Len(log) /\ Len(log) \in Nat
      /\ \A i \in DOMAIN log : log[i].payload \in Event
  BY Entries DEF Inv, TypeOK
<1>7. Continues(e)
  BY <1>2, <1>3, <1>5, <1>6 DEF Continues, Inv, CallsInv, Event
<1>8. Committed(e)
  BY <1>1 DEF Committed, AppendInMemory
<1>9. Ledger' /\ log' \in Seq(Entry) /\ head' \in [seq : Nat, hash : Seq(Event)]
  BY <1>4, <1>5, <1>7, <1>8, CommitKeeps DEF Inv, Ledger
<1>10. TypeOK'
  BY <1>1, <1>2, <1>3, <1>9 DEF AppendInMemory, Inv, TypeOK
<1>11. RecordedOnce'
  BY <1>3, <1>4, <1>8, <1>9, CommitRecords
     DEF AppendInMemory, Inv, Ledger, NewEntry
<1>12. LockInv' /\ SeqInv'
  BY NoneAssumption DEF AppendInMemory, Inv, LockInv, SeqInv
<1>13. CallsInv'
  <2>1. \A i \in DOMAIN log : log[i].payload[2] <= calls[log[i].payload[1]]
    BY DEF Inv, CallsInv
  <2>2. \A v \in Writer : calls[v] \in Nat /\ calls'[v] \in Nat /\ calls[v] <= calls'[v]
    BY <1>2, CallsAssumption DEF Inv, TypeOK
  <2>3. /\ DOMAIN log' = 1 .. (Len(log) + 1)
        /\ \A i \in 1 .. Len(log) : log'[i] = log[i]
        /\ log'[Len(log) + 1] = e
    BY <1>4, <1>6, <1>8, Appended DEF Committed
  <2>4. \A i \in DOMAIN log' : log'[i].payload[2] <= calls'[log'[i].payload[1]]
    <3>1. ASSUME NEW i \in 1 .. Len(log)
          PROVE  log'[i].payload[2] <= calls'[log'[i].payload[1]]
      <4>1. log[i].payload[1] \in Writer /\ log[i].payload[2] \in Nat
        BY <1>6, <3>1, CallsAssumption DEF Event
      <4> QED
        BY <1>6, <2>1, <2>2, <2>3, <3>1, <4>1
    <3>2. e.payload[2] <= calls'[e.payload[1]]
      BY <1>2, <1>3
    <3> QED
      BY <1>6, <2>3, <3>1, <3>2
  <2>5. \A v \in Writer : pc'[v] = "idle"
    BY DEF AppendInMemory, Inv, LockInv
  <2> QED
    BY <2>4, <2>5 DEF CallsInv
<1> QED
  BY <1>9, <1>10, <1>11, <1>12, <1>13 DEF Inv, Ledger

\* A step that leaves the ledger alone.
LEMMA NoCommit ==
  ASSUME Inv, UNCHANGED <<backend, log, head, ok>>, nextval' \in Nat,
         nextval <= nextval'
  PROVE  Ledger' /\ RecordedOnce' /\ SeqInv'
<1>1. Ledger' /\ RecordedOnce'
  BY DEF Inv, Ledger, Chained, Covers, SeqIncreasing, OrderKept, RecordedOnce
<1>2. SeqInv'
  BY DEF Inv, TypeOK, SeqInv
<1> QED
  BY <1>1, <1>2

\* The calls of one handler before its commit.
LEMMA TransactionKeeps ==
  ASSUME Inv, NEW w \in Writer,
         Record(w) \/ LockHead(w) \/ InsertEntry(w) \/ UpdateHead(w)
  PROVE  Inv'
<1>1. ASSUME Record(w) PROVE Inv'
  <2>1. UNCHANGED <<backend, log, head, nextval, lock, orphan, entry, ok>>
    BY <1>1 DEF Record
  <2>2. /\ calls[w] \in 0 .. MaxCalls /\ calls[w] < MaxCalls
        /\ calls' \in [Writer -> 0 .. MaxCalls]
        /\ calls' = [calls EXCEPT ![w] = @ + 1]
        /\ pc[w] = "idle" /\ pc' = [pc EXCEPT ![w] = "head"]
    BY <1>1, CallsAssumption DEF Record, Inv, TypeOK
  <2>3. \A v \in Writer : calls[v] \in Nat /\ calls'[v] \in Nat /\ calls[v] <= calls'[v]
    BY <2>2, CallsAssumption DEF Inv, TypeOK
  <2>4. TypeOK'
    BY <2>1, <2>2 DEF Inv, TypeOK
  <2>5. \A i \in DOMAIN log : log[i].payload \in Event
    BY Entries DEF Inv, TypeOK
  <2>6. orphan # None => orphan.payload \in Event
    BY DEF Inv, TypeOK, Entry
  <2>7. CallsInv'
    BY <2>1, <2>2, <2>3, <2>5, <2>6, CallsAssumption DEF Inv, CallsInv, LockInv, Event
  <2>8. lock # w
    BY <2>2 DEF Inv, LockInv
  <2>9. LockInv'
    <3>1. orphan # None => orphan.payload[2] <= calls'[orphan.payload[1]]
      BY <2>3, <2>6, CallsAssumption DEF Inv, LockInv, Event
    <3>2. \A v \in Writer : v # w =>
            pc'[v] = pc[v] /\ calls'[v] = calls[v] /\ Current(v)' = Current(v)
      BY <2>2 DEF Current
    <3>3. backend = "postgres"
      BY <1>1 DEF Record
    <3>4. \A x : Continues(x) => Continues(x)'
      BY <2>1 DEF Continues
    <3>5. \A v \in Writer :
            /\ pc'[v] \in {"insert", "update", "commit"} <=> lock' = v
            /\ lock' = v => /\ entry'[v] \in Entry /\ entry'[v].payload = Current(v)'
                            /\ Continues(entry[v])
            /\ pc'[v] \in {"update", "commit"} =>
                 head.seq < entry'[v].seq /\ entry'[v].seq < nextval'
      <4>1. ASSUME NEW v \in Writer, v # w
            PROVE  /\ pc'[v] \in {"insert", "update", "commit"} <=> lock' = v
                   /\ lock' = v => /\ entry'[v] \in Entry
                                   /\ entry'[v].payload = Current(v)'
                                   /\ Continues(entry[v])
                   /\ pc'[v] \in {"update", "commit"} =>
                        head.seq < entry'[v].seq /\ entry'[v].seq < nextval'
        BY <2>1, <3>2, <4>1 DEF Inv, LockInv
      <4>2. pc'[w] = "head" /\ lock' # w
        BY <2>1, <2>2, <2>8 DEF Inv, TypeOK
      <4> QED
        BY <4>1, <4>2
    <3> QED
      BY <2>1, <3>1, <3>3, <3>4, <3>5 DEF Inv, LockInv
  <2> QED
    BY <2>1, <2>4, <2>7, <2>9, NoCommit DEF Inv, Ledger, TypeOK
<1>2. ASSUME LockHead(w) PROVE Inv'
  <2>1. /\ pc[w] = "head" /\ lock = None /\ lock' = w /\ orphan = None
        /\ UNCHANGED <<backend, log, head, nextval, orphan, calls, ok>>
        /\ pc' = [pc EXCEPT ![w] = "insert"]
    BY <1>2, NoneAssumption DEF LockHead, HeadFree, Inv, LockInv
  <2>2. PICK e : e = NewEntry(0, head.hash, Current(w))
    OBVIOUS
  <2>3. entry' = [entry EXCEPT ![w] = e]
    BY <1>2, <2>2 DEF LockHead
  <2>4. calls[w] \in 1 .. MaxCalls /\ Current(w) \in Event /\ Current(w)' = Current(w)
    <3>1. calls[w] \in 0 .. MaxCalls /\ calls[w] > 0
      BY <2>1 DEF Inv, TypeOK, CallsInv
    <3>2. calls[w] \in 1 .. MaxCalls
      BY <3>1, CallsAssumption
    <3> QED
      BY <2>1, <3>2 DEF Current, Event
  <2>5. e \in Entry /\ e.payload = Current(w)
    BY <2>2, <2>4, AppendProperties DEF NewEntry, Entry, Inv, TypeOK
  <2>6. Continues(e)
    BY <2>1, <2>2, <2>4, <2>5 DEF NewEntry, Continues, Inv, CallsInv, Current
  <2>7. Continues(e)'
    BY <2>1, <2>6, StillContinues
  <2>8. TypeOK'
    BY <2>1, <2>3, <2>5 DEF Inv, TypeOK
  <2>9. CallsInv'
    BY <2>1 DEF Inv, CallsInv, TypeOK
  <2>10. \A v \in Writer : v # w => pc[v] \notin {"insert", "update", "commit"}
    BY <2>1, NoneAssumption DEF Inv, LockInv
  <2>11. LockInv'
    BY <2>1, <2>3, <2>5, <2>4, <2>7, <2>10, NoneAssumption
       DEF Inv, LockInv, TypeOK
  <2> QED
    BY <2>1, <2>8, <2>9, <2>11, NoCommit DEF Inv, Ledger, TypeOK
<1>3. ASSUME InsertEntry(w) PROVE Inv'
  <2>1. /\ pc[w] = "insert" /\ lock = w /\ nextval' = nextval + 1
        /\ pc' = [pc EXCEPT ![w] = "update"]
        /\ UNCHANGED <<backend, log, head, lock, orphan, calls, ok>>
    BY <1>3 DEF InsertEntry, Inv, LockInv
  <2>2. /\ entry[w] \in Entry /\ entry[w].payload = Current(w)
        /\ Continues(entry[w]) /\ nextval \in Nat
    BY <2>1 DEF Inv, LockInv, TypeOK
  <2>3. PICK e : e = [entry[w] EXCEPT !.seq = nextval]
    OBVIOUS
  <2>4. /\ e \in Entry /\ e.payload = Current(w) /\ e.seq = nextval
        /\ e.prev = entry[w].prev /\ e.hash = entry[w].hash
        /\ e.payload = entry[w].payload
    BY <2>2, <2>3 DEF Entry
  <2>5. entry' = [entry EXCEPT ![w] = e]
    BY <1>3, <2>3 DEF InsertEntry
  <2>6. Continues(e)
    BY <2>2, <2>4 DEF Continues
  <2>7. Continues(e)'
    BY <2>1, <2>6, StillContinues
  <2>8. TypeOK'
    <3>1. entry' \in [Writer -> Entry \union {None}]
      BY <2>4, <2>5 DEF Inv, TypeOK
    <3>2. nextval' \in Nat
      BY <2>1, <2>2
    <3>3. TypeOK
      BY DEF Inv
    <3>4. pc' \in [Writer -> {"idle", "head", "insert", "update", "commit"}]
      BY <2>1, <3>3 DEF TypeOK
    <3> QED
      BY <2>1, <3>1, <3>2, <3>3, <3>4 DEF TypeOK
  <2>9. CallsInv'
    BY <2>1 DEF Inv, CallsInv, TypeOK
  <2>10. head.seq < nextval /\ head.seq \in Nat
    BY <2>1, NoneAssumption DEF Inv, LockInv, SeqInv, TypeOK
  <2>11. Current(w)' = Current(w) /\ orphan = None
    BY <2>1, NoneAssumption DEF Current, Inv, LockInv
  <2>12. \A v \in Writer : v # w => pc[v] \notin {"insert", "update", "commit"}
    BY <2>1 DEF Inv, LockInv
  <2>13. LockInv'
    BY <2>1, <2>2, <2>4, <2>5, <2>7, <2>10, <2>11, <2>12, NoneAssumption
       DEF Inv, LockInv, TypeOK
  <2> QED
    BY <2>1, <2>2, <2>8, <2>9, <2>13, NoCommit DEF Inv, Ledger, TypeOK
<1>4. ASSUME UpdateHead(w) PROVE Inv'
  <2>1. /\ pc[w] = "update" /\ pc' = [pc EXCEPT ![w] = "commit"]
        /\ UNCHANGED <<backend, log, head, nextval, lock, orphan, calls, entry, ok>>
    BY <1>4 DEF UpdateHead
  <2>2. TypeOK' /\ CallsInv'
    BY <2>1 DEF Inv, TypeOK, CallsInv
  <2>3. LockInv'
    BY <2>1 DEF Inv, TypeOK, LockInv, Continues, Current
  <2> QED
    BY <2>1, <2>2, <2>3, NoCommit DEF Inv, Ledger, TypeOK
<1> QED
  BY <1>1, <1>2, <1>3, <1>4

\* A transaction that ends without its handler's answer: rolled back, or left
\* to the database.
LEMMA EndKeeps ==
  ASSUME Inv, NEW w \in Writer, Abort(w) \/ TimeOut(w)
  PROVE  Inv'
<1>1. ASSUME Abort(w) PROVE Inv'
  <2>1. /\ pc[w] # "idle" /\ pc' = [pc EXCEPT ![w] = "idle"]
        /\ entry' = [entry EXCEPT ![w] = None]
        /\ lock' = IF lock = w THEN None ELSE lock
        /\ UNCHANGED <<backend, log, head, nextval, orphan, calls, ok>>
    BY <1>1 DEF Abort, LockAfterAbort, CountError, Return
  <2>2. TypeOK' /\ CallsInv'
    BY <2>1 DEF Inv, TypeOK, CallsInv
  <2>3. \A x : Continues(x) => Continues(x)'
    BY <2>1 DEF Continues
  <2>4. \A v \in Writer : Current(v)' = Current(v)
    BY <2>1 DEF Current
  <2>5. LockInv'
    BY <2>1, <2>3, <2>4, NoneAssumption DEF Inv, TypeOK, LockInv
  <2> QED
    BY <2>1, <2>2, <2>5, NoCommit DEF Inv, Ledger, TypeOK
<1>2. ASSUME TimeOut(w) PROVE Inv'
  <2>1. /\ pc[w] = "commit" /\ pc' = [pc EXCEPT ![w] = "idle"]
        /\ entry' = [entry EXCEPT ![w] = None]
        /\ orphan' = entry[w] /\ lock' = "orphan" /\ lock = w
        /\ UNCHANGED <<backend, log, head, nextval, calls, ok>>
    BY <1>2 DEF TimeOut, CountError, Return, Inv, LockInv
  <2>2. /\ entry[w] \in Entry /\ entry[w].payload = <<w, calls[w]>>
        /\ Continues(entry[w]) /\ head.seq < entry[w].seq
        /\ entry[w].seq < nextval
    BY <2>1 DEF Inv, LockInv, Current
  <2>3. TypeOK'
    BY <2>1, <2>2 DEF Inv, TypeOK
  <2>4. CallsInv'
    BY <2>1, <2>2 DEF Inv, TypeOK, CallsInv
  <2>5. PICK e : e = entry[w]
    OBVIOUS
  <2>6. Continues(e)'
    BY <2>1, <2>2, <2>5, StillContinues
  <2>7. \A v \in Writer : v # w => pc[v] \notin {"insert", "update", "commit"}
    BY <2>1 DEF Inv, LockInv
  <2>8. calls[w] \in Nat
    BY CallsAssumption DEF Inv, TypeOK
  <2>9. LockInv'
    BY <2>1, <2>2, <2>5, <2>6, <2>7, <2>8, NoneAssumption DEF Inv, TypeOK, LockInv
  <2> QED
    BY <2>1, <2>3, <2>4, <2>9, NoCommit DEF Inv, Ledger, TypeOK
<1> QED
  BY <1>1, <1>2

\* A commit, by the handler or behind its back, ends the only transaction there
\* is: nobody else is past the lock.
LEMMA CommitLedger ==
  ASSUME Inv, NEW e \in Entry, Continues(e), head.seq < e.seq,
         e.payload[2] <= calls[e.payload[1]], Committed(e),
         ok' \subseteq ok \union {e.payload}, UNCHANGED calls
  PROVE  /\ Ledger' /\ RecordedOnce'
         /\ log' \in Seq(Entry) /\ head' \in [seq : Nat, hash : Seq(Event)]
         /\ head'.seq = e.seq
         /\ \A i \in DOMAIN log' :
              /\ log'[i].payload[2] <= calls'[log'[i].payload[1]]
              /\ log'[i].payload = e.payload
                   \/ \E j \in DOMAIN log : log'[i].payload = log[j].payload
<1>1. /\ Ledger' /\ log' \in Seq(Entry)
      /\ head' \in [seq : Nat, hash : Seq(Event)]
  BY CommitKeeps DEF Inv, Ledger
<1>2. RecordedOnce'
  BY <1>1, CommitRecords DEF Inv, Ledger
<1>3. head'.seq = e.seq
  BY DEF Committed, HeadAt
<1>4. /\ Len(log) \in Nat /\ DOMAIN log = 1 .. Len(log)
      /\ DOMAIN log' = 1 .. (Len(log) + 1)
      /\ \A i \in 1 .. Len(log) : log'[i] = log[i]
      /\ log'[Len(log) + 1] = e
  BY Appended DEF Committed, Inv, TypeOK
<1>5. \A i \in DOMAIN log : log[i].payload[2] <= calls[log[i].payload[1]]
  BY DEF Inv, CallsInv
<1> QED
  BY <1>1, <1>2, <1>3, <1>4, <1>5

\* The handler's own commit.
LEMMA CommitStep == ASSUME Inv, NEW w \in Writer, Commit(w) PROVE Inv'
<1>1. /\ pc[w] = "commit" /\ lock = w /\ orphan = None
      /\ Continues(entry[w]) /\ entry[w] \in Entry
      /\ entry[w].payload = <<w, calls[w]>>
      /\ head.seq < entry[w].seq /\ entry[w].seq < nextval
  BY NoneAssumption DEF Commit, Inv, LockInv, Current
<1>2. /\ lock' = None /\ pc' = [pc EXCEPT ![w] = "idle"]
      /\ entry' = [entry EXCEPT ![w] = None]
      /\ UNCHANGED <<backend, nextval, orphan, calls>>
  BY DEF Commit, Return
<1>3. PICK e : e = entry[w]
  OBVIOUS
<1>4. calls[w] \in Nat
  BY CallsAssumption DEF Inv, TypeOK
<1>5. Committed(e) /\ ok' = ok \union {e.payload}
  BY <1>1, <1>3 DEF Commit, Current
<1>6. /\ Ledger' /\ RecordedOnce'
      /\ log' \in Seq(Entry) /\ head' \in [seq : Nat, hash : Seq(Event)]
      /\ head'.seq = e.seq
      /\ \A i \in DOMAIN log' :
           /\ log'[i].payload[2] <= calls'[log'[i].payload[1]]
           /\ log'[i].payload = e.payload
                \/ \E j \in DOMAIN log : log'[i].payload = log[j].payload
  BY <1>1, <1>2, <1>3, <1>4, <1>5, CommitLedger
<1>7. TypeOK'
  <2>1. e.payload \in Event
    BY <1>1, <1>3 DEF Entry
  <2> QED
    BY <1>2, <1>5, <1>6, <2>1 DEF Inv, TypeOK
<1>8. \A v \in Writer : v # w => pc[v] \notin {"insert", "update", "commit"}
  BY <1>1 DEF Inv, LockInv
<1>9. LockInv'
  BY <1>1, <1>2, <1>8, NoneAssumption DEF Inv, LockInv, TypeOK
<1>10. CallsInv'
  <2>1. ASSUME NEW v \in Writer, pc'[v] # "idle"
        PROVE  /\ calls'[v] > 0
               /\ \A i \in DOMAIN log' : log'[i].payload[1] = v =>
                                          log'[i].payload[2] < calls'[v]
    <3>1. v # w /\ pc[v] # "idle"
      BY <1>2, <2>1 DEF Inv, TypeOK
    <3>2. /\ calls[v] > 0
          /\ \A j \in DOMAIN log : log[j].payload[1] = v =>
                                    log[j].payload[2] < calls[v]
      BY <3>1 DEF Inv, CallsInv
    <3>3. e.payload[1] # v
      BY <1>1, <1>3, <3>1
    <3> QED
      BY <1>2, <1>6, <3>2, <3>3
  <2> QED
    BY <1>1, <1>2, <1>6, <2>1 DEF CallsInv
<1>11. SeqInv'
  BY <1>1, <1>2, <1>3, <1>6 DEF SeqInv
<1> QED
  BY <1>6, <1>7, <1>9, <1>10, <1>11 DEF Inv, Ledger

\* The database settles a transaction nobody waits for.
LEMMA SettleStep == ASSUME Inv, SettleOrphan PROVE Inv'
<1>1. /\ lock = "orphan" /\ orphan \in Entry /\ Continues(orphan)
      /\ head.seq < orphan.seq /\ orphan.seq < nextval
      /\ orphan.payload[2] <= calls[orphan.payload[1]]
  BY DEF SettleOrphan, Inv, LockInv, TypeOK
<1>2. /\ lock' = None /\ orphan' = None
      /\ UNCHANGED <<backend, nextval, pc, calls, entry, ok>>
  BY DEF SettleOrphan
<1>3. \A v \in Writer : pc[v] \notin {"insert", "update", "commit"}
  BY <1>1, NoneAssumption DEF Inv, LockInv
<1>4. LockInv'
  BY <1>1, <1>2, <1>3, NoneAssumption DEF Inv, LockInv, TypeOK
<1>5. CASE UNCHANGED <<log, head>>
  <2>1. TypeOK' /\ CallsInv'
    BY <1>2, <1>5 DEF Inv, TypeOK, CallsInv
  <2> QED
    BY <1>2, <1>4, <1>5, <2>1, NoCommit DEF Inv, Ledger, TypeOK
<1>6. CASE Committed(orphan)
  <2>1. PICK e : e = orphan
    OBVIOUS
  <2>2. /\ Ledger' /\ RecordedOnce'
        /\ log' \in Seq(Entry) /\ head' \in [seq : Nat, hash : Seq(Event)]
        /\ head'.seq = e.seq
        /\ \A i \in DOMAIN log' :
             /\ log'[i].payload[2] <= calls'[log'[i].payload[1]]
             /\ log'[i].payload = e.payload
                  \/ \E j \in DOMAIN log : log'[i].payload = log[j].payload
    BY <1>1, <1>2, <1>6, <2>1, CommitLedger
  <2>3. TypeOK'
    BY <1>2, <2>2 DEF Inv, TypeOK
  <2>4. CallsInv'
    BY <1>1, <1>2, <2>1, <2>2, NoneAssumption DEF Inv, CallsInv, TypeOK
  <2>5. SeqInv'
    BY <1>1, <1>2, <2>1, <2>2 DEF SeqInv
  <2> QED
    BY <1>4, <2>2, <2>3, <2>4, <2>5 DEF Inv, Ledger
<1> QED
  BY <1>5, <1>6 DEF SettleOrphan

\* A restart ends every call, and at most one transaction is left behind.
LEMMA RestartStep == ASSUME Inv, Restart PROVE Inv'
<1>1. /\ pc' = [w \in Writer |-> "idle"] /\ entry' = [w \in Writer |-> None]
      /\ UNCHANGED <<backend, nextval, calls>>
  BY DEF Restart
<1>2. ASSUME backend = "memory" PROVE Inv'
  <2>1. /\ log' = << >> /\ head' = EmptyHead /\ ok' = {}
        /\ UNCHANGED <<lock, orphan>> /\ lock = None /\ orphan = None
    BY <1>2, NoneAssumption DEF Restart, Inv, LockInv
  <2>2. << >> \in Seq(Entry) /\ << >> \in Seq(Event) /\ DOMAIN << >> = {}
    BY EmptySeq
  <2>3. TypeOK'
    BY <1>1, <2>1, <2>2 DEF Inv, TypeOK, EmptyHead
  <2>4. Chained' /\ SeqIncreasing' /\ RecordedOnce' /\ OrderKept'
    BY <2>1, <2>2 DEF Chained, SeqIncreasing, RecordedOnce, OrderKept, EmptyHead
  <2>5. LockInv' /\ CallsInv' /\ SeqInv'
    BY <1>1, <1>2, <2>1, <2>2, NoneAssumption DEF LockInv, CallsInv, SeqInv
  <2> QED
    BY <2>3, <2>4, <2>5 DEF Inv
<1>3. ASSUME backend = "postgres" PROVE Inv'
  <2>1. UNCHANGED <<log, head, ok>>
    BY <1>3 DEF Restart
  <2>2. \/ lock \notin Writer /\ UNCHANGED <<lock, orphan>>
        \/ lock \in Writer /\ lock' = None /\ UNCHANGED orphan
        \/ /\ lock \in Writer /\ pc[lock] = "commit"
           /\ lock' = "orphan" /\ orphan' = entry[lock]
    BY <1>3 DEF Restart
  <2>3. TypeOK'
    <3>1. orphan' \in Entry \union {None} /\ lock' \in Writer \union {"orphan", None}
      BY <2>2 DEF Inv, TypeOK
    <3> QED
      BY <1>1, <2>1, <3>1 DEF Inv, TypeOK
  <2>4. CallsInv'
    BY <1>1, <2>1 DEF Inv, CallsInv
  <2>5. LockInv'
    <3>1. \A x : Continues(x) => Continues(x)'
      BY <2>1 DEF Continues
    <3>2. lock' \notin Writer
      BY <2>2, NoneAssumption
    <3>3. orphan' # None <=> lock' = "orphan"
      BY <2>2, NoneAssumption DEF Inv, LockInv, TypeOK
    <3>4. orphan' # None => /\ Continues(orphan')
                           /\ head'.seq < orphan'.seq /\ orphan'.seq < nextval'
                           /\ orphan'.payload[2] <= calls'[orphan'.payload[1]]
      <4>1. CASE UNCHANGED orphan
        BY <1>1, <2>1, <4>1 DEF Inv, LockInv
      <4>2. CASE lock \in Writer /\ pc[lock] = "commit" /\ orphan' = entry[lock]
        <5>1. calls[lock] \in Nat
          BY <4>2, CallsAssumption DEF Inv, TypeOK
        <5> QED
          BY <1>1, <2>1, <4>2, <5>1 DEF Inv, LockInv, Current
      <4> QED
        BY <2>2, <4>1, <4>2
    <3>5. orphan' # None => Continues(orphan)'
      BY <2>1, <3>4 DEF Continues
    <3> QED
      BY <1>1, <1>3, <2>1, <3>2, <3>3, <3>4, <3>5 DEF LockInv
  <2> QED
    BY <1>1, <2>1, <2>3, <2>4, <2>5, NoCommit DEF Inv, Ledger, TypeOK
<1> QED
  BY <1>2, <1>3 DEF Inv, TypeOK

\* Every step keeps the invariant.
LEMMA InvStep == Inv /\ [Next]_vars => Inv'
<1>1. ASSUME Inv, UNCHANGED vars PROVE Inv'
  BY <1>1 DEF vars, Inv, TypeOK, Chained, Covers, SeqIncreasing, RecordedOnce,
     OrderKept, LockInv, CallsInv, SeqInv, Continues, Current
<1> QED
  BY <1>1, AppendInMemoryKeeps, TransactionKeeps, EndKeeps, CommitStep,
     SettleStep, RestartStep DEF Next, Serve

\* The invariant of the ledger.
THEOREM InvCorrect == Spec => []Inv
BY InvInit, InvStep, PTL DEF Spec

\* The ledger is one unforked chain that its head commits to.
THEOREM ChainedCorrect == Spec => []Chained
<1>1. Inv => Chained
  BY DEF Inv
<1> QED
  BY <1>1, InvCorrect, PTL

\* Reading the ledger by seq is reading the chain.
THEOREM SeqIncreasingCorrect == Spec => []SeqIncreasing
<1>1. Inv => SeqIncreasing
  BY DEF Inv
<1> QED
  BY <1>1, InvCorrect, PTL

\* Whatever times out, an event is in the ledger at most once, and exactly once
\* if it was counted as recorded.
THEOREM RecordedOnceCorrect == Spec => []RecordedOnce
<1>1. Inv => RecordedOnce
  BY DEF Inv
<1> QED
  BY <1>1, InvCorrect, PTL

\* A handler's events are in the ledger in the order it recorded them.
THEOREM OrderKeptCorrect == Spec => []OrderKept
<1>1. Inv => OrderKept
  BY DEF Inv
<1> QED
  BY <1>1, InvCorrect, PTL

=============================================================================
