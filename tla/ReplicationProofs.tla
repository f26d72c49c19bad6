-------------------------- MODULE ReplicationProofs --------------------------
(***************************************************************************)
(* Replication is safe for every set of keys and values, every batch limit *)
(* and every mix of engines: IndInv is inductive.  Two SQLite stores that  *)
(* replicate into each other also converge, lose no update and report a    *)
(* collision as a conflict, for which TwoWayInv is inductive.  A stream    *)
(* into a store whose application does not write never fails, and its      *)
(* destination is a delayed replica of its source: OneWayInv is inductive. *)
(***************************************************************************)
EXTENDS OneWayReplication, TwoWayReplication, ChangeStreamProofs, FiniteSetTheorems

-----------------------------------------------------------------------------
(* The inductive invariant.                                                *)

LEMMA NodesFacts ==
    /\ NodeA \in Nodes /\ NodeB \in Nodes
    /\ \A n \in Nodes : Peer(n) \in Nodes /\ Peer(n) # n /\ Peer(Peer(n)) = n
BY NodesAssumption DEF Nodes, Peer

\* What a statement of the transaction reads is a table.
LEMMA ViewType ==
    ASSUME TypeOK, NEW s \in Nodes
    PROVE  View(s) \in [Keys -> Images]
<1>1. Peer(s) \in Nodes
  BY NodesFacts
<1>2. \A k \in Keys : own[s][k] \in Images /\ rows[Peer(s)][k] \in Images
  BY <1>1 DEF TypeOK
<1>3. QED
  BY <1>2 DEF View

\* The change a transaction is at is in the journal.
LEMMA CurrentType ==
    ASSUME TypeOK, NEW s \in Nodes, StreamOK(s), pc[s] = "write"
    PROVE  Current(s) \in Changes /\ next[s] \in 1..Len(journal[s])
<1>1. journal[s] \in Seq(Changes) /\ cursor[s] \in Nat /\ next[s] \in Nat /\ upto[s] \in Nat
  BY DEF TypeOK
<1>2. Len(journal[s]) \in Nat
  BY <1>1
<1>3. cursor[s] < next[s] /\ next[s] <= upto[s] /\ upto[s] <= Len(journal[s])
  BY DEF StreamOK, InTransaction
<1>4. next[s] \in 1..Len(journal[s])
  BY <1>1, <1>2, <1>3
<1>5. QED
  BY <1>1, <1>4 DEF Current

LEMMA InitIndInv == Init => IndInv
<1> SUFFICES ASSUME Init PROVE IndInv
  OBVIOUS
<1>1. TypeOK
  BY EmptyTableType DEF Init, TypeOK, Steps, Failures
<1>2. \A n \in Nodes : SuppressionOK(n)
  BY DEF Init, SuppressionOK, InTransaction
<1>3. \A s \in Nodes : StreamOK(s)
  BY DEF Init, StreamOK, InTransaction
<1>4. QED
  BY <1>1, <1>2, <1>3 DEF IndInv

\* An application write only lengthens a journal and fires its trigger.
LEMMA AppWriteIndInv ==
    ASSUME IndInv, NEW n \in Nodes, AppWrite(n)
    PROVE  IndInv'
<1> USE DEF IndInv
<1>1. PICK c \in LocalChanges(rows[n]) :
        /\ rows' = [rows EXCEPT ![n] = Written(rows[n], c)]
        /\ journal' = IF TriggerFires(SessionSuppress(n))
                      THEN [journal EXCEPT ![n] = Append(journal[n], c)]
                      ELSE journal
  BY DEF AppWrite
<1>2. rows[n] \in [Keys -> Images]
  BY DEF TypeOK
<1>3. c \in Changes
  BY <1>2, LocalChangesType
<1>4. Written(rows[n], c) \in [Keys -> Images]
  BY <1>2, <1>3, WrittenType
<1>5. TriggerFires(SessionSuppress(n))
  BY DEF TriggerFires, SessionSuppress, SuppressionOK
<1>6. journal' = [journal EXCEPT ![n] = Append(journal[n], c)]
  BY <1>1, <1>5
<1>7. journal \in [Nodes -> Seq(Changes)] /\ writes \in [Nodes -> Nat]
  BY DEF TypeOK
<1>8. journal' \in [Nodes -> Seq(Changes)]
  BY <1>3, <1>6, <1>7
<1>9. \A m \in Nodes : /\ Len(journal[m]) \in Nat
                        /\ Len(journal'[m]) = IF m = n THEN Len(journal[m]) + 1
                                              ELSE Len(journal[m])
  BY <1>3, <1>6, <1>7
<1>10. TypeOK'
  BY <1>1, <1>4, <1>8 DEF TypeOK, AppWrite, txn
<1>11. \A m \in Nodes : SuppressionOK(m)'
  BY <1>7, <1>9 DEF SuppressionOK, AppWrite, txn, InTransaction
<1>12. ASSUME NEW s \in Nodes PROVE StreamOK(s)'
  <2>1. StreamOK(s) /\ upto[s] \in Nat
    BY DEF TypeOK
  <2>2. UNCHANGED <<applied, pc, cursor, upto, next, marked, locked>>
    BY DEF AppWrite, txn
  <2>3. Len(journal[s]) \in Nat /\ Len(journal'[s]) \in Nat /\ Len(journal[s]) <= Len(journal'[s])
    BY <1>9
  <2>4. applied[s] \subseteq 1..Len(journal'[s])
    BY <2>1, <2>3 DEF StreamOK
  <2>5. upto[s] <= Len(journal[s]) => upto[s] <= Len(journal'[s])
    BY <2>1, <2>3
  <2>6. QED
    BY <2>1, <2>2, <2>4, <2>5 DEF StreamOK, InTransaction
<1>13. QED
  BY <1>10, <1>11, <1>12

\* Reading a batch.
LEMMA PollIndInv ==
    ASSUME IndInv, NEW s \in Nodes, Poll(s)
    PROVE  IndInv'
<1> USE DEF IndInv
<1> DEFINE last == IF Len(journal[s]) - cursor[s] <= BatchLimit
                   THEN Len(journal[s]) ELSE cursor[s] + BatchLimit
<1>0. last \in Nat
  <2>1. journal[s] \in Seq(Changes) /\ cursor[s] \in Nat /\ BatchLimit \in Nat
    BY BoundsAssumption DEF TypeOK
  <2>2. QED
    BY <2>1
<1>1. TypeOK'
  <2>1. upto' = [upto EXCEPT ![s] = last]
    BY DEF Poll
  <2> HIDE DEF last
  <2>2. upto' \in [Nodes -> Nat]
    BY <1>0, <2>1 DEF TypeOK
  <2>3. QED
    BY <2>2 DEF TypeOK, Poll, stores, txn, Steps, Failures
<1>2. \A n \in Nodes : SuppressionOK(n)'
  BY DEF TypeOK, SuppressionOK, InTransaction, Poll, stores, txn
<1>3. ASSUME NEW n \in Nodes PROVE StreamOK(n)'
  <2>1. /\ StreamOK(n) /\ journal[n] \in Seq(Changes) /\ Len(journal[n]) \in Nat
        /\ cursor[n] \in Nat /\ upto[n] \in Nat /\ next[n] \in Nat
    BY DEF TypeOK
  <2>2. CASE n # s
    BY <2>1, <2>2 DEF TypeOK, StreamOK, InTransaction, Poll, stores, txn
  <2>3. CASE n = s
    BY <2>1, <2>3, BoundsAssumption DEF TypeOK, StreamOK, InTransaction, Poll, stores, txn
  <2>4. QED
    BY <2>2, <2>3
<1>4. QED
  BY <1>1, <1>2, <1>3

\* Opening the transaction arms the suppression.
LEMMA BeginIndInv ==
    ASSUME IndInv, NEW s \in Nodes, Begin(s)
    PROVE  IndInv'
<1> USE DEF IndInv
<1>1. TypeOK'
  <2>1. cursor[s] + 1 \in Nat
    BY DEF TypeOK
  <2>2. next' \in [Nodes -> Nat] /\ armed' \in [Nodes -> {0, 1}]
    BY <2>1 DEF TypeOK, Begin
  <2>3. pc' \in [Nodes -> Steps]
    BY DEF TypeOK, Begin, Steps
  <2>4. UNCHANGED <<rows, journal, flag, applied, cursor, upto, failure, own,
                    locked, marked, echo, writes, crashes>>
    BY DEF Begin, stores
  <2>5. QED
    BY <2>2, <2>3, <2>4 DEF TypeOK
<1>2. \A n \in Nodes : SuppressionOK(n)'
  BY DEF TypeOK, SuppressionOK, InTransaction, Begin, stores, txn
<1>3. ASSUME NEW n \in Nodes PROVE StreamOK(n)'
  <2>1. /\ StreamOK(n) /\ journal[n] \in Seq(Changes) /\ Len(journal[n]) \in Nat
        /\ cursor[n] \in Nat /\ upto[n] \in Nat /\ next[n] \in Nat
    BY DEF TypeOK
  <2>2. CASE n # s
    BY <2>1, <2>2 DEF TypeOK, StreamOK, InTransaction, Begin, stores, txn
  <2>3. CASE n = s
    BY <2>1, <2>3, BoundsAssumption DEF TypeOK, StreamOK, InTransaction, Begin, stores, txn
  <2>4. QED
    BY <2>2, <2>3
<1>4. QED
  BY <1>1, <1>2, <1>3

\* A change already applied or marked is passed over.
LEMMA SkipAppliedIndInv ==
    ASSUME IndInv, NEW s \in Nodes, SkipApplied(s)
    PROVE  IndInv'
<1> USE DEF IndInv
<1>1. TypeOK'
  BY DEF TypeOK, SkipApplied, AtChange, WasApplied, stores, txn, Steps, Failures
<1>2. \A n \in Nodes : SuppressionOK(n)'
  BY DEF TypeOK, SuppressionOK, InTransaction, SkipApplied, AtChange, WasApplied, stores, txn
<1>3. ASSUME NEW n \in Nodes PROVE StreamOK(n)'
  <2>1. /\ StreamOK(n) /\ journal[n] \in Seq(Changes) /\ Len(journal[n]) \in Nat
        /\ cursor[n] \in Nat /\ upto[n] \in Nat /\ next[n] \in Nat
    BY DEF TypeOK
  <2>2. CASE n # s
    BY <2>1, <2>2 DEF TypeOK, StreamOK, InTransaction, SkipApplied, AtChange, WasApplied, stores, txn
  <2>3. CASE n = s
    BY <2>1, <2>3, BoundsAssumption DEF TypeOK, StreamOK, InTransaction, SkipApplied, AtChange, WasApplied, stores, txn
  <2>4. QED
    BY <2>2, <2>3
<1>4. QED
  BY <1>1, <1>2, <1>3

\* The comparison only moves the loop to the write.
LEMMA PassCheckIndInv ==
    ASSUME IndInv, NEW s \in Nodes, PassCheck(s)
    PROVE  IndInv'
<1> USE DEF IndInv
<1>1. TypeOK'
  BY DEF TypeOK, PassCheck, AtChange, stores, txn, Steps, Failures
<1>2. \A n \in Nodes : SuppressionOK(n)'
  BY DEF TypeOK, SuppressionOK, InTransaction, PassCheck, AtChange, stores, txn
<1>3. ASSUME NEW n \in Nodes PROVE StreamOK(n)'
  <2>1. /\ StreamOK(n) /\ journal[n] \in Seq(Changes) /\ Len(journal[n]) \in Nat
        /\ cursor[n] \in Nat /\ upto[n] \in Nat /\ next[n] \in Nat
    BY DEF TypeOK
  <2>2. CASE n # s
    BY <2>1, <2>2 DEF TypeOK, StreamOK, InTransaction, PassCheck, AtChange, stores, txn
  <2>3. CASE n = s
    BY <2>1, <2>3, BoundsAssumption DEF TypeOK, StreamOK, InTransaction, PassCheck, AtChange, stores, txn
  <2>4. QED
    BY <2>2, <2>3
<1>4. QED
  BY <1>1, <1>2, <1>3

\* The cursor moves to the end of a batch that is applied.
LEMMA SaveCursorIndInv ==
    ASSUME IndInv, NEW s \in Nodes, SaveCursor(s)
    PROVE  IndInv'
<1> USE DEF IndInv
<1>1. TypeOK'
  BY DEF TypeOK, SaveCursor, ForgetBatch, stores, txn, Steps, Failures
<1>2. \A n \in Nodes : SuppressionOK(n)'
  BY DEF TypeOK, SuppressionOK, InTransaction, SaveCursor, ForgetBatch, stores, txn
<1>3. ASSUME NEW n \in Nodes PROVE StreamOK(n)'
  <2>1. /\ StreamOK(n) /\ journal[n] \in Seq(Changes) /\ Len(journal[n]) \in Nat
        /\ cursor[n] \in Nat /\ upto[n] \in Nat /\ next[n] \in Nat
    BY DEF TypeOK
  <2>2. CASE n # s
    BY <2>1, <2>2 DEF TypeOK, StreamOK, InTransaction, SaveCursor, ForgetBatch, stores, txn
  <2>3. CASE n = s
    BY <2>1, <2>3, BoundsAssumption DEF TypeOK, StreamOK, InTransaction, SaveCursor, ForgetBatch, stores, txn
  <2>4. QED
    BY <2>2, <2>3
<1>4. QED
  BY <1>1, <1>2, <1>3

\* Trying again reads from the same cursor.
LEMMA RetryIndInv ==
    ASSUME IndInv, NEW s \in Nodes, Retry(s)
    PROVE  IndInv'
<1> USE DEF IndInv
<1>1. TypeOK'
  BY DEF TypeOK, Retry, ForgetBatch, stores, txn, Steps, Failures
<1>2. \A n \in Nodes : SuppressionOK(n)'
  BY DEF TypeOK, SuppressionOK, InTransaction, Retry, ForgetBatch, stores, txn
<1>3. ASSUME NEW n \in Nodes PROVE StreamOK(n)'
  <2>1. /\ StreamOK(n) /\ journal[n] \in Seq(Changes) /\ Len(journal[n]) \in Nat
        /\ cursor[n] \in Nat /\ upto[n] \in Nat /\ next[n] \in Nat
    BY DEF TypeOK
  <2>2. CASE n # s
    BY <2>1, <2>2 DEF TypeOK, StreamOK, InTransaction, Retry, ForgetBatch, stores, txn
  <2>3. CASE n = s
    BY <2>1, <2>3, BoundsAssumption DEF TypeOK, StreamOK, InTransaction, Retry, ForgetBatch, stores, txn
  <2>4. QED
    BY <2>2, <2>3
<1>4. QED
  BY <1>1, <1>2, <1>3

\* Closing a transaction leaves none of its state.
LEMMA CloseTransactionType ==
    ASSUME TypeOK, NEW s \in Nodes, CloseTransaction(s)
    PROVE  /\ armed' \in [Nodes -> {0, 1}]
           /\ own' \in [Nodes -> [Keys -> Images]]
           /\ locked' \in [Nodes -> SUBSET Keys]
           /\ marked' \in [Nodes -> SUBSET Nat]
           /\ echo' \in [Nodes -> Seq(Changes)]
<1>1. armed' \in [Nodes -> {0, 1}] /\ own' \in [Nodes -> [Keys -> Images]]
  BY EmptyTableType DEF TypeOK, CloseTransaction
<1>2. locked' \in [Nodes -> SUBSET Keys] /\ marked' \in [Nodes -> SUBSET Nat]
  BY DEF TypeOK, CloseTransaction
<1>3. echo' \in [Nodes -> Seq(Changes)]
  BY DEF TypeOK, CloseTransaction
<1>4. QED
  BY <1>1, <1>2, <1>3

\* A rollback forgets the transaction and keeps what is committed.
LEMMA RollbackIndInv ==
    ASSUME IndInv, NEW s \in Nodes, CloseTransaction(s),
           pc' \in [Nodes -> Steps], pc'[s] \in {"poll", "failed"},
           \A n \in Nodes \ {s} : pc'[n] = pc[n],
           failure' \in [Nodes -> Failures],
           crashes' \in [Nodes -> Nat],
           upto' \in [Nodes -> Nat], next' \in [Nodes -> Nat],
           \A n \in Nodes \ {s} : upto'[n] = upto[n] /\ next'[n] = next[n],
           UNCHANGED <<stores, cursor, writes>>
    PROVE  IndInv'
<1> USE DEF IndInv
<1>1. TypeOK'
  BY CloseTransactionType DEF TypeOK, stores
<1>2. \A n \in Nodes : SuppressionOK(n)'
  BY DEF TypeOK, SuppressionOK, InTransaction, CloseTransaction, stores
<1>3. ASSUME NEW n \in Nodes PROVE StreamOK(n)'
  <2>1. StreamOK(n)
    OBVIOUS
  <2>2. CASE n # s
    BY <2>1, <2>2 DEF TypeOK, StreamOK, InTransaction, CloseTransaction, stores
  <2>3. CASE n = s
    BY <2>1, <2>3 DEF TypeOK, StreamOK, InTransaction, CloseTransaction, stores
  <2>4. QED
    BY <2>2, <2>3
<1>4. QED
  BY <1>1, <1>2, <1>3

LEMMA AbortIndInv ==
    ASSUME IndInv, NEW s \in Nodes, NEW error \in Failures, Abort(s, error)
    PROVE  IndInv'
BY RollbackIndInv DEF IndInv, TypeOK, Abort, Steps

LEMMA CrashIndInv ==
    ASSUME IndInv, NEW s \in Nodes, Crash(s)
    PROVE  IndInv'
<1>1. /\ pc' \in [Nodes -> Steps] /\ pc'[s] = "poll"
      /\ \A n \in Nodes \ {s} : pc'[n] = pc[n]
  BY DEF IndInv, TypeOK, Crash, ForgetBatch, Steps
<1>2. failure' \in [Nodes -> Failures] /\ crashes' \in [Nodes -> Nat]
  BY DEF IndInv, TypeOK, Crash, ForgetBatch, Failures
<1>3. /\ upto' \in [Nodes -> Nat] /\ next' \in [Nodes -> Nat]
      /\ \A n \in Nodes \ {s} : upto'[n] = upto[n] /\ next'[n] = next[n]
  BY DEF IndInv, TypeOK, Crash, ForgetBatch
<1>4. QED
  BY <1>1, <1>2, <1>3, RollbackIndInv DEF Crash

\* A write extends the transaction by the change it is at.
LEMMA WriteChangeIndInv ==
    ASSUME IndInv, NEW s \in Nodes, WriteChange(s)
    PROVE  IndInv'
<1> USE DEF IndInv
<1>1. /\ Current(s) \in Changes /\ next[s] \in 1..Len(journal[s])
      /\ View(s) \in [Keys -> Images]
  BY CurrentType, ViewType DEF WriteChange
<1>2. /\ Written(View(s), Current(s)) \in [Keys -> Images]
      /\ TouchedKeys(Current(s)) \subseteq Keys
  BY <1>1, WrittenType, TouchedKeysType
<1>3. echo' = echo
  BY DEF WriteChange, TriggerFires, SuppressionOK, InTransaction
<1>4. TypeOK'
  <2>1. own' \in [Nodes -> [Keys -> Images]] /\ locked' \in [Nodes -> SUBSET Keys]
    BY <1>2 DEF WriteChange, TypeOK
  <2>2. marked' \in [Nodes -> SUBSET Nat] /\ next' \in [Nodes -> Nat]
    BY DEF WriteChange, TypeOK
  <2>3. pc' \in [Nodes -> Steps]
    BY DEF WriteChange, TypeOK, Steps
  <2>4. QED
    BY <1>3, <2>1, <2>2, <2>3 DEF WriteChange, TypeOK, stores
<1>5. \A n \in Nodes : SuppressionOK(n)'
  BY <1>3 DEF WriteChange, TypeOK, SuppressionOK, InTransaction, stores
<1>6. ASSUME NEW n \in Nodes PROVE StreamOK(n)'
  <2>1. /\ StreamOK(n) /\ Len(journal[n]) \in Nat /\ cursor[n] \in Nat
        /\ upto[n] \in Nat /\ next[n] \in Nat /\ marked[n] \subseteq Nat
    BY DEF TypeOK
  <2>2. CASE n # s
    BY <2>1, <2>2 DEF TypeOK, StreamOK, InTransaction, WriteChange, stores
  <2>3. CASE n = s
    BY <2>1, <2>3 DEF TypeOK, StreamOK, InTransaction, WriteChange, stores
  <2>4. QED
    BY <2>2, <2>3
<1>7. QED
  BY <1>4, <1>5, <1>6

\* The transaction's view of the table follows its own writes.
LEMMA ViewFollows ==
    ASSUME IndInv, NEW s \in Nodes, WriteChange(s)
    PROVE  View(s)' = Written(View(s), Current(s))
<1>1. /\ UNCHANGED <<rows, journal>>
      /\ own'[s] = Written(View(s), Current(s))
      /\ locked'[s] = locked[s] \cup TouchedKeys(Current(s))
  BY DEF IndInv, TypeOK, WriteChange, stores
<1>2. ASSUME NEW k \in Keys
      PROVE  (IF k \in locked'[s] THEN own'[s][k] ELSE rows'[Peer(s)][k])
                = Written(View(s), Current(s))[k]
  <2>1. CASE k \in locked'[s]
    BY <1>1, <2>1
  <2>2. CASE k \notin locked'[s]
    <3>1. Written(View(s), Current(s))[k] = View(s)[k]
      BY <1>1, <2>2 DEF Written, TouchedKeys
    <3>2. View(s)[k] = rows'[Peer(s)][k]
      BY <1>1, <2>2 DEF View
    <3>3. QED
      BY <2>2, <3>1, <3>2
  <2>3. QED
    BY <2>1, <2>2
<1>3. View(s)' = [k \in Keys |-> Written(View(s), Current(s))[k]]
  BY <1>2 DEF View
<1>4. QED
  BY <1>3 DEF Written

\* A transaction captures nothing, so its commit lengthens no journal ...
LEMMA CommitKeepsJournals ==
    ASSUME IndInv, NEW s \in Nodes, Commit(s)
    PROVE  journal' = journal
<1>1. /\ journal \in [Nodes -> Seq(Changes)] /\ Peer(s) \in Nodes
      /\ journal[Peer(s)] \in Seq(Changes) /\ echo[s] = <<>>
  BY NodesFacts DEF IndInv, TypeOK, SuppressionOK
<1>2. journal[Peer(s)] \o echo[s] = journal[Peer(s)]
  BY <1>1
<1>3. QED
  BY <1>1, <1>2 DEF Commit

\* ... and no other step of a loop writes one.
LEMMA LoopKeepsJournals ==
    ASSUME IndInv, NEW s \in Nodes, Loop(s) \/ Crash(s)
    PROVE  journal' = journal
<1>1. CASE Commit(s)
  BY <1>1, CommitKeepsJournals
<1>2. CASE ~Commit(s)
  BY <1>2 DEF Loop, ApplyChanges, Poll, Begin, SkipApplied, DetectConflict, PassCheck,
              WriteChange, WriteFails, SaveCursor, Retry, Crash, ForgetBatch, Abort, stores
<1>3. QED
  BY <1>1, <1>2

\* A commit applies what is marked and appends nothing to a journal.
LEMMA CommitIndInv ==
    ASSUME IndInv, NEW s \in Nodes, Commit(s)
    PROVE  IndInv'
<1> USE DEF IndInv
<1>1. Peer(s) \in Nodes /\ View(s) \in [Keys -> Images]
  BY NodesFacts, ViewType
<1>2. journal' = journal
  BY CommitKeepsJournals
<1>3. flag' = flag
  BY <1>1 DEF Commit, DisarmedFlag, TypeOK, SuppressionOK
<1>4. TypeOK'
  <2>1. rows' \in [Nodes -> [Keys -> Images]]
    BY <1>1 DEF Commit, TypeOK
  <2>2. applied' \in [Nodes -> SUBSET Nat] /\ pc' \in [Nodes -> Steps]
    BY DEF Commit, TypeOK, Steps
  <2>3. QED
    BY <1>2, <1>3, <2>1, <2>2, CloseTransactionType DEF Commit, TypeOK
<1>5. \A n \in Nodes : SuppressionOK(n)'
  BY <1>2, <1>3 DEF Commit, CloseTransaction, TypeOK, SuppressionOK, InTransaction
<1>6. ASSUME NEW n \in Nodes PROVE StreamOK(n)'
  <2>1. /\ StreamOK(n) /\ Len(journal[n]) \in Nat /\ cursor[n] \in Nat
        /\ upto[n] \in Nat /\ next[n] \in Nat
        /\ marked[n] \subseteq Nat /\ applied[n] \subseteq Nat
    BY DEF TypeOK
  <2>2. CASE n # s
    BY <1>2, <2>1, <2>2 DEF TypeOK, StreamOK, InTransaction, Commit, CloseTransaction
  <2>3. CASE n = s
    <3>0. pc[s] = "check" /\ next[s] = upto[s] + 1
      BY <2>1, <2>3 DEF StreamOK, InTransaction, Commit
    <3>1. /\ applied'[s] = applied[s] \cup marked[s]
          /\ pc'[s] = "save" /\ marked'[s] = {} /\ locked'[s] = {}
          /\ UNCHANGED <<cursor, upto>>
      BY DEF TypeOK, Commit, CloseTransaction
    <3>2. 1..upto[s] \subseteq applied'[s]
      BY <2>1, <2>3, <3>0, <3>1 DEF StreamOK, InTransaction
    <3>3. applied'[s] \subseteq 1..Len(journal[s])
      BY <2>1, <2>3, <3>0, <3>1 DEF StreamOK, InTransaction
    <3>4. ASSUME NEW i \in applied'[s] PROVE 1..i \subseteq applied'[s]
      <4>1. CASE i \in applied[s]
        BY <2>1, <2>3, <3>0, <3>1, <4>1 DEF StreamOK
      <4>2. CASE i \in marked[s]
        BY <2>1, <2>3, <3>0, <3>1, <3>2, <4>2 DEF StreamOK, InTransaction
      <4>3. QED
        BY <3>1, <4>1, <4>2
    <3>5. QED
      BY <1>2, <2>1, <2>3, <3>0, <3>1, <3>2, <3>3, <3>4 DEF StreamOK, InTransaction
  <2>4. QED
    BY <2>2, <2>3
<1>7. QED
  BY <1>4, <1>5, <1>6

LEMMA NextIndInv == IndInv /\ [Next]_vars => IndInv'
<1> SUFFICES ASSUME IndInv, [Next]_vars PROVE IndInv'
  OBVIOUS
<1>1. CASE \E n \in Nodes : AppWrite(n)
  BY <1>1, AppWriteIndInv
<1>2. ASSUME NEW s \in Nodes, Loop(s) PROVE IndInv'
  <2>1. CASE Poll(s) \/ SaveCursor(s) \/ Retry(s)
    BY <2>1, PollIndInv, SaveCursorIndInv, RetryIndInv
  <2>2. CASE Begin(s) \/ SkipApplied(s) \/ PassCheck(s)
    BY <2>2, BeginIndInv, SkipAppliedIndInv, PassCheckIndInv
  <2>3. CASE WriteChange(s) \/ Commit(s)
    BY <2>3, WriteChangeIndInv, CommitIndInv
  <2>4. CASE DetectConflict(s) \/ WriteFails(s)
    BY <2>4, AbortIndInv DEF DetectConflict, WriteFails, Failures
  <2>5. QED
    BY <1>2, <2>1, <2>2, <2>3, <2>4 DEF Loop, ApplyChanges
<1>3. CASE \E n \in Nodes : Crash(n)
  BY <1>3, CrashIndInv
<1>4. CASE UNCHANGED vars
  BY <1>4 DEF IndInv, TypeOK, SuppressionOK, StreamOK, InTransaction, vars
<1>5. QED
  BY <1>1, <1>2, <1>3, <1>4 DEF Next

-----------------------------------------------------------------------------
(* The theorems.                                                           *)

\* The invariant the others follow from: batches lie in the journal, what
\* precedes the change at hand is applied or marked, and suppression is armed
\* exactly inside applyChanges.
THEOREM Inductive == Spec => []IndInv
BY InitIndInv, NextIndInv, PTL DEF Spec

\* Every variable keeps its type.
THEOREM TypeCorrect == Spec => []TypeOK
<1>1. IndInv => TypeOK
  BY DEF IndInv
<1>2. QED
  BY <1>1, Inductive, PTL

\* The cursor the caller persists never passes a change the destination has
\* not recorded as applied, wherever the loop crashes or fails.
THEOREM CursorIsSafe == Spec => []CursorSafe
<1>1. IndInv => CursorSafe
  BY DEF IndInv, StreamOK, CursorSafe
<1>2. QED
  BY <1>1, Inductive, PTL

\* The sequences recorded in __compat_applied_changes are a prefix of the
\* source's journal: applyChanges leaves no hole behind it.
THEOREM AppliedPrefix == Spec => []AppliedIsPrefix
<1>1. IndInv => AppliedIsPrefix
  BY DEF IndInv, StreamOK, AppliedIsPrefix
<1>2. QED
  BY <1>1, Inductive, PTL

\* Nothing applyChanges writes is captured again and nothing an application
\* writes is missed, on either engine and in every interleaving.
THEOREM NoEcho == Spec => []JournalIsLocal
<1>1. IndInv => JournalIsLocal
  BY DEF IndInv, SuppressionOK, JournalIsLocal
<1>2. QED
  BY <1>1, Inductive, PTL

-----------------------------------------------------------------------------
(* SQLite: the comparison of an update or delete is still good when the    *)
(* row is overwritten.                                                     *)

LEMMA StandsSteady ==
    ASSUME IndInv, NEW s \in Nodes, ComparisonStands(s),
           pc'[s] = "write" => pc[s] = "write",
           next'[s] = next[s] \/ pc'[s] # "write",
           pc[s] = "write" => journal'[s][next[s]] = journal[s][next[s]],
           (pc[s] = "write" /\ Peer(s) \notin PostgresNodes)
               => rows'[Peer(s)] = rows[Peer(s)],
           pc'[s] = "write" => own'[s] = own[s] /\ locked'[s] = locked[s]
    PROVE  ComparisonStands(s)'
<1>1. SUFFICES ASSUME pc'[s] = "write", Peer(s) \notin PostgresNodes
               PROVE  PassesComparison(s)'
  BY DEF ComparisonStands
<1>2. View(s)' = View(s) /\ Current(s)' = Current(s)
  BY <1>1 DEF View, Current
<1>3. PassesComparison(s)
  BY <1>1 DEF ComparisonStands
<1>4. QED
  BY <1>2, <1>3 DEF PassesComparison, BeforeMatches, Load

LEMMA StandsNext ==
    ASSUME IndInv, \A s \in Nodes : ComparisonStands(s), [Next]_vars,
           NEW s \in Nodes
    PROVE  ComparisonStands(s)'
<1>1. Peer(s) \in Nodes /\ Peer(s) # s /\ Peer(Peer(s)) = s
  BY NodesFacts
<1>2. ASSUME NEW n \in Nodes, AppWrite(n) PROVE ComparisonStands(s)'
  <2>1. PICK c \in LocalChanges(rows[n]) :
          /\ ~Excluded(Peer(n), TouchedKeys(c))
          /\ rows' = [rows EXCEPT ![n] = Written(rows[n], c)]
          /\ journal' = IF TriggerFires(SessionSuppress(n))
                        THEN [journal EXCEPT ![n] = Append(journal[n], c)]
                        ELSE journal
    BY <1>2 DEF AppWrite
  <2>2. (pc[s] = "write" /\ Peer(s) \notin PostgresNodes) => n # Peer(s)
    BY <1>1, <2>1 DEF Excluded, InTransaction
  <2>3. (pc[s] = "write" /\ Peer(s) \notin PostgresNodes)
            => rows'[Peer(s)] = rows[Peer(s)]
    BY <1>1, <2>1, <2>2 DEF IndInv, TypeOK
  <2>4. pc[s] = "write" => journal'[s][next[s]] = journal[s][next[s]]
    <3>1. SUFFICES ASSUME pc[s] = "write"
                   PROVE  journal'[s][next[s]] = journal[s][next[s]]
      OBVIOUS
    <3>2. next[s] \in 1..Len(journal[s])
      BY <3>1, CurrentType DEF IndInv
    <3>3. journal[s] \in Seq(Changes) /\ journal \in [Nodes -> Seq(Changes)]
      BY DEF IndInv, TypeOK
    <3>4. journal'[s] = journal[s] \/ journal'[s] = Append(journal[s], c)
      BY <2>1, <3>3
    <3>5. QED
      BY <3>2, <3>3, <3>4
  <2>5. UNCHANGED <<pc, next, own, locked>>
    BY <1>2 DEF AppWrite, txn
  <2>6. QED
    BY <2>3, <2>4, <2>5, StandsSteady
<1>3. ASSUME NEW t \in Nodes, t # s, Loop(t) PROVE ComparisonStands(s)'
  <2>1. pc'[s] = pc[s] /\ next'[s] = next[s] /\ own'[s] = own[s] /\ locked'[s] = locked[s]
    BY <1>3 DEF IndInv, TypeOK, Loop, ApplyChanges, Poll, Begin, SkipApplied,
                DetectConflict, PassCheck, WriteChange, WriteFails, Commit,
                SaveCursor, Retry, ForgetBatch, Abort, CloseTransaction, txn
  <2>2. journal' = journal
    BY <1>3, LoopKeepsJournals
  <2>3. Peer(t) = s
    BY <1>3 DEF Nodes, Peer
  <2>4. rows'[Peer(s)] = rows[Peer(s)]
    BY <1>1, <1>3, <2>3 DEF IndInv, TypeOK, Loop, ApplyChanges, Poll, Begin,
                SkipApplied, DetectConflict, PassCheck, WriteChange, WriteFails,
                Commit, SaveCursor, Retry, ForgetBatch, Abort, stores
  <2>5. QED
    BY <2>1, <2>2, <2>4, StandsSteady
<1>4. CASE Loop(s)
  <2>1. CASE PassCheck(s)
    <3>1. View(s)' = View(s) /\ Current(s)' = Current(s)
      BY <2>1 DEF PassCheck, View, Current, stores, txn
    <3>2. QED
      BY <2>1, <3>1 DEF PassCheck, ComparisonStands, PassesComparison, BeforeMatches, Load
  <2>2. CASE ~PassCheck(s)
    <3>1. pc'[s] # "write"
      BY <1>4, <2>2 DEF IndInv, TypeOK, Loop, ApplyChanges, Poll, Begin, SkipApplied,
                AtChange, DetectConflict, WriteChange, WriteFails, Commit,
                SaveCursor, Retry, ForgetBatch, Abort
    <3>2. QED
      BY <3>1 DEF ComparisonStands
  <2>3. QED
    BY <2>1, <2>2
<1>5. ASSUME NEW t \in Nodes, Crash(t) PROVE ComparisonStands(s)'
  <2>1. CASE t = s
    BY <1>5, <2>1 DEF IndInv, TypeOK, Crash, ForgetBatch, ComparisonStands
  <2>2. CASE t # s
    BY <1>5, <2>2, StandsSteady DEF IndInv, TypeOK, Crash, ForgetBatch, CloseTransaction, stores
  <2>3. QED
    BY <2>1, <2>2
<1>6. CASE UNCHANGED vars
  BY <1>6, StandsSteady DEF vars
<1>7. QED
  BY <1>2, <1>3, <1>4, <1>5, <1>6 DEF Next

\* With SQLite on both sides, an update or delete only ever overwrites the row
\* whose image its change was journaled with: no write of another session can
\* come between the comparison and the statement.
THEOREM SQLiteLosesNoUpdate == PostgresNodes = {} => (Spec => NoLostUpdate)
<1> SUFFICES ASSUME PostgresNodes = {} PROVE Spec => NoLostUpdate
  OBVIOUS
<1> DEFINE Stands == \A s \in Nodes : ComparisonStands(s)
<1>1. Init => Stands
  BY DEF Init, ComparisonStands
<1>2. IndInv /\ Stands /\ [Next]_vars => Stands'
  BY StandsNext
<1>3. ASSUME IndInv, Stands, [Next]_vars, NEW s \in Nodes,
             next'[s] = next[s] + 1, marked'[s] # marked[s],
             Current(s).kind \in {"update", "delete"}
      PROVE  Load(View(s), Current(s).key) = Current(s).before
  <2>1. pc[s] = "write"
    <3>1. next[s] \in Nat /\ next'[s] # next[s]
      BY <1>3 DEF IndInv, TypeOK
    <3>2. SUFFICES ASSUME ~WriteChange(s) PROVE FALSE
      BY DEF WriteChange
    <3>3. CASE \E n \in Nodes : AppWrite(n) \/ Crash(n)
      BY <1>3, <3>1, <3>3 DEF IndInv, TypeOK, AppWrite, Crash, ForgetBatch
    <3>4. CASE \E t \in Nodes : t # s /\ Loop(t)
      <4>1. PICK t \in Nodes : t # s /\ Loop(t)
        BY <3>4
      <4>2. next'[s] = next[s]
        BY <1>3, <4>1 DEF IndInv, TypeOK, Loop, ApplyChanges, Poll, Begin,
            SkipApplied, DetectConflict, PassCheck, WriteChange, WriteFails,
            Commit, SaveCursor, Retry, ForgetBatch, Abort
      <4>3. QED
        BY <3>1, <4>2
    <3>5. CASE Loop(s)
      BY <1>3, <3>1, <3>2, <3>5 DEF Loop, ApplyChanges, Poll, Begin,
          SkipApplied, DetectConflict, PassCheck, WriteFails,
          Commit, SaveCursor, Retry, ForgetBatch, Abort, txn
    <3>6. CASE UNCHANGED vars
      BY <3>1, <3>6 DEF vars
    <3>7. QED
      BY <1>3, <3>3, <3>4, <3>5, <3>6 DEF Next
  <2>2. QED
    BY <1>3, <2>1 DEF ComparisonStands, PassesComparison, BeforeMatches
<1>4. IndInv /\ Stands /\ [Next]_vars
        => [\A s \in Nodes :
              (next'[s] = next[s] + 1 /\ marked'[s] # marked[s]
                 /\ Current(s).kind \in {"update", "delete"})
              => Load(View(s), Current(s).key) = Current(s).before]_vars
  BY <1>3
<1>5. QED
  BY <1>1, <1>2, <1>4, Inductive, PTL DEF Spec, NoLostUpdate

-----------------------------------------------------------------------------
(* Two SQLite stores that replicate into each other: balances.             *)

LEMMA GainType == \A c, k, v : Gain(c, k, v) \in Int
BY DEF Gain, Bit

\* A balance exists for each prefix of a journal.
LEMMA NetExists ==
    \A changes, k, v : changes \in Seq(Changes) /\ k \in Keys /\ v \in Images =>
        \E f \in [0..Len(changes) -> Int] :
            /\ f[0] = 0
            /\ \A n \in 1..Len(changes) : f[n] = f[n - 1] + Gain(changes[n], k, v)
<1>1. ASSUME NEW changes, NEW k, NEW v,
             changes \in Seq(Changes) /\ k \in Keys /\ v \in Images
      PROVE  \E f \in [0..Len(changes) -> Int] :
                /\ f[0] = 0
                /\ \A n \in 1..Len(changes) : f[n] = f[n - 1] + Gain(changes[n], k, v)
  <2> DEFINE T == Int
             zero == 0
             N == Len(changes)
             step == [n \in 1..N |-> [t \in T |-> t + Gain(changes[n], k, v)]]
  <2>1. N \in Nat /\ zero \in T
    BY <1>1
  <2>2. step \in [1..N -> [T -> T]]
    <3>1. ASSUME NEW n \in 1..N, NEW t \in T PROVE t + Gain(changes[n], k, v) \in T
      BY GainType
    <3>2. QED
      BY <3>1
  <2>3. PICK f \in [0..N -> T] : f[0] = zero /\ \A n \in 1..N : f[n] = step[n][f[n - 1]]
    <3> HIDE DEF T, zero, N, step
    <3>1. QED
      BY <2>1, <2>2, RecursionExists
  <2>4. ASSUME NEW n \in 1..N PROVE f[n] = f[n - 1] + Gain(changes[n], k, v)
    <3>1. f[n - 1] \in T
      BY <2>1
    <3>2. f[n] = step[n][f[n - 1]]
      BY <2>3
    <3>3. QED
      BY <3>1, <3>2
  <2>5. QED
    BY <2>3, <2>4
<1>2. QED
  BY <1>1

\* The equation of a balance.
LEMMA NetFacts ==
    ASSUME NEW changes \in Seq(Changes), NEW k \in Keys, NEW v \in Images
    PROVE  /\ \A n \in 0..Len(changes) : Net(changes, k, v)[n] \in Int
           /\ Net(changes, k, v)[0] = 0
           /\ \A n \in 1..Len(changes) :
                 Net(changes, k, v)[n] = Net(changes, k, v)[n - 1] + Gain(changes[n], k, v)
<1> DEFINE N == Len(changes)
           After(f) == [n \in 0..N |-> IF n = 0 THEN 0
                                       ELSE f[n - 1] + Gain(changes[n], k, v)]
           r == Net(changes, k, v)
<1>1. N \in Nat
  OBVIOUS
<1>2. PICK f \in [0..N -> Int] :
          f[0] = 0 /\ \A n \in 1..N : f[n] = f[n - 1] + Gain(changes[n], k, v)
  BY NetExists
<1>3. f = After(f)
  <2>1. ASSUME NEW n \in 0..N
        PROVE  f[n] = IF n = 0 THEN 0 ELSE f[n - 1] + Gain(changes[n], k, v)
    <3>1. CASE n = 0
      BY <1>2, <3>1
    <3>2. CASE n # 0
      <4>1. n \in 1..N
        BY <1>1, <3>2
      <4>2. QED
        BY <1>2, <3>2, <4>1
    <3>3. QED
      BY <3>1, <3>2
  <2>2. QED
    BY <2>1
<1>4. r = CHOOSE g : g = After(g)
  BY DEF Net
<1>5. r = After(r)
  <2> HIDE DEF After
  <2>1. QED
    BY <1>3, <1>4
<1>6. r[0] = 0 /\ \A n \in 1..N : r[n] = r[n - 1] + Gain(changes[n], k, v)
  <2> HIDE DEF r
  <2>1. \A n \in 0..N : r[n] = IF n = 0 THEN 0 ELSE r[n - 1] + Gain(changes[n], k, v)
    BY <1>5
  <2>2. QED
    BY <1>1, <2>1
<1>7. \A n \in 0..N : r[n] \in Int
  <2> DEFINE S == {n \in Nat : n <= N => r[n] \in Int}
  <2>1. 0 \in S
    BY <1>6
  <2>2. ASSUME NEW n \in Nat, n \in S PROVE n + 1 \in S
    <3>1. SUFFICES ASSUME n + 1 <= N PROVE r[n + 1] \in Int
      OBVIOUS
    <3>2. r[n] \in Int /\ n + 1 \in 1..N /\ (n + 1) - 1 = n
      BY <1>1, <2>2, <3>1
    <3>3. r[n + 1] = r[n] + Gain(changes[n + 1], k, v)
      BY <1>6, <3>2
    <3>4. QED
      BY <3>2, <3>3, GainType
  <2>3. Nat \subseteq S
    <3> HIDE DEF S
    <3>1. QED
      BY <2>1, <2>2, SetInduction
  <2>4. QED
    BY <1>1, <2>3
<1>8. QED
  BY <1>6, <1>7

\* An entry appended to a journal changes none of the balances before it.
LEMMA NetAppend ==
    ASSUME NEW g \in Seq(Changes), NEW c \in Changes,
           NEW k \in Keys, NEW v \in Images
    PROVE  /\ \A n \in 0..Len(g) : Net(Append(g, c), k, v)[n] = Net(g, k, v)[n]
           /\ Net(Append(g, c), k, v)[Len(g) + 1] = Net(g, k, v)[Len(g)] + Gain(c, k, v)
<1> DEFINE h == Append(g, c)
<1>1. /\ h \in Seq(Changes) /\ Len(g) \in Nat
      /\ Len(h) = Len(g) + 1 /\ h[Len(g) + 1] = c
      /\ \A i \in 1..Len(g) : h[i] = g[i]
  OBVIOUS
<1> HIDE DEF h
<1> DEFINE S == {n \in Nat : n <= Len(g) => Net(h, k, v)[n] = Net(g, k, v)[n]}
<1>2. 0 \in S
  BY <1>1, NetFacts
<1>3. ASSUME NEW n \in Nat, n \in S PROVE n + 1 \in S
  <2>1. SUFFICES ASSUME n + 1 <= Len(g) PROVE Net(h, k, v)[n + 1] = Net(g, k, v)[n + 1]
    OBVIOUS
  <2>2. /\ n + 1 \in 1..Len(g) /\ n + 1 \in 1..Len(h) /\ (n + 1) - 1 = n
    BY <1>1, <2>1
  <2>3. /\ Net(h, k, v)[n + 1] = Net(h, k, v)[n] + Gain(h[n + 1], k, v)
        /\ Net(g, k, v)[n + 1] = Net(g, k, v)[n] + Gain(g[n + 1], k, v)
    BY <1>1, <2>2, NetFacts
  <2>4. QED
    BY <1>1, <1>3, <2>1, <2>2, <2>3
<1>4. Nat \subseteq S
  <2> HIDE DEF S
  <2>1. QED
    BY <1>2, <1>3, SetInduction
<1>5. \A n \in 0..Len(g) : Net(h, k, v)[n] = Net(g, k, v)[n]
  BY <1>1, <1>4
<1>6. Net(h, k, v)[Len(g) + 1] = Net(h, k, v)[Len(g)] + Gain(c, k, v)
  <2>1. Len(g) + 1 \in 1..Len(h) /\ (Len(g) + 1) - 1 = Len(g)
    BY <1>1
  <2>2. QED
    BY <1>1, <2>1, NetFacts
<1>7. QED
  BY <1>1, <1>5, <1>6 DEF h

\* A change that fits a table moves each balance by its gain.
LEMMA WrittenGain ==
    ASSUME NEW t \in Tables, NEW c \in Changes, Fits(t, c), Shaped(c),
           NEW k \in Keys, NEW v
    PROVE  Bit(Written(t, c)[k], v) = Bit(t[k], v) + Gain(c, k, v)
<1>1. CASE k \notin TouchedKeys(c)
  <2>1. Written(t, c)[k] = t[k]
    BY <1>1 DEF Written, TouchedKeys
  <2>2. QED
    BY <1>1, <2>1 DEF Gain, Bit
<1>2. CASE k \in TouchedKeys(c)
  BY <1>2, WrittenTouched DEF Gain, Bit
<1>3. QED
  BY <1>1, <1>2

\* A change that fits a balanced table, the next of the second journal, leaves
\* it balanced.
LEMMA BalancedWrite ==
    ASSUME NEW t, NEW g \in Seq(Changes), NEW h \in Seq(Changes), NEW m \in 1..Len(h),
           Balanced(t, g, h, m - 1), Fits(t, h[m]), Shaped(h[m])
    PROVE  Balanced(Written(t, h[m]), g, h, m)
<1>1. t \in Tables /\ h[m] \in Changes /\ Len(g) \in 0..Len(g) /\ m - 1 \in 0..Len(h)
  BY DEF Balanced
<1>2. Written(t, h[m]) \in Tables
  BY <1>1, WrittenTable
<1>3. ASSUME NEW k \in Keys, NEW v \in Images
      PROVE  Bit(Written(t, h[m])[k], v) - Bit(NoRow, v) =
                Net(g, k, v)[Len(g)] + Net(h, k, v)[m]
  <2>1. Bit(Written(t, h[m])[k], v) = Bit(t[k], v) + Gain(h[m], k, v)
    BY <1>1, WrittenGain
  <2>2. Net(h, k, v)[m] = Net(h, k, v)[m - 1] + Gain(h[m], k, v)
    BY NetFacts
  <2>3. Net(g, k, v)[Len(g)] \in Int /\ Net(h, k, v)[m - 1] \in Int
    BY <1>1, NetFacts
  <2>4. Bit(t[k], v) - Bit(NoRow, v) = Net(g, k, v)[Len(g)] + Net(h, k, v)[m - 1]
    BY DEF Balanced
  <2>5. /\ Bit(Written(t, h[m])[k], v) \in Int /\ Bit(t[k], v) \in Int
        /\ Bit(NoRow, v) \in Int /\ Gain(h[m], k, v) \in Int
    BY GainType DEF Bit
  <2>6. QED
    BY <2>1, <2>2, <2>3, <2>4, <2>5
<1>4. QED
  BY <1>2, <1>3 DEF Balanced

\* So does a write of the table's own application, appended to the first.
LEMMA BalancedLocal ==
    ASSUME NEW t, NEW g \in Seq(Changes), NEW h \in Seq(Changes), NEW m \in 0..Len(h),
           NEW c \in Changes, Balanced(t, g, h, m), Fits(t, c), Shaped(c)
    PROVE  Balanced(Written(t, c), Append(g, c), h, m)
<1>1. t \in Tables /\ Len(g) \in 0..Len(g) /\ Len(Append(g, c)) = Len(g) + 1
  BY DEF Balanced
<1>2. Written(t, c) \in Tables
  BY <1>1, WrittenTable
<1>3. ASSUME NEW k \in Keys, NEW v \in Images
      PROVE  Bit(Written(t, c)[k], v) - Bit(NoRow, v) =
                Net(Append(g, c), k, v)[Len(g) + 1] + Net(h, k, v)[m]
  <2>1. Bit(Written(t, c)[k], v) = Bit(t[k], v) + Gain(c, k, v)
    BY <1>1, WrittenGain
  <2>2. Net(Append(g, c), k, v)[Len(g) + 1] = Net(g, k, v)[Len(g)] + Gain(c, k, v)
    BY NetAppend
  <2>3. Net(g, k, v)[Len(g)] \in Int /\ Net(h, k, v)[m] \in Int
    BY <1>1, NetFacts
  <2>4. Bit(t[k], v) - Bit(NoRow, v) = Net(g, k, v)[Len(g)] + Net(h, k, v)[m]
    BY DEF Balanced
  <2>5. /\ Bit(Written(t, c)[k], v) \in Int /\ Bit(t[k], v) \in Int
        /\ Bit(NoRow, v) \in Int /\ Gain(c, k, v) \in Int
    BY GainType DEF Bit
  <2>6. Net(Append(g, c), k, v)[Len(g) + 1] \in Int
    BY <2>2, <2>3, <2>5
  <2> DEFINE w == Bit(Written(t, c)[k], v)
             a == Bit(t[k], v)
             b == Bit(NoRow, v)
             gain == Gain(c, k, v)
             x == Net(g, k, v)[Len(g)]
             y == Net(h, k, v)[m]
             z == Net(Append(g, c), k, v)[Len(g) + 1]
  <2>7. /\ w \in Int /\ a \in Int /\ b \in Int /\ gain \in Int
        /\ x \in Int /\ y \in Int /\ z \in Int
        /\ w = a + gain /\ z = x + gain /\ a - b = x + y
    BY <2>1, <2>2, <2>3, <2>4, <2>5, <2>6
  <2> HIDE DEF w, a, b, gain, x, y, z
  <2>8. w - b = z + y
    BY <2>7
  <2>9. QED
    BY <2>8 DEF w, b, y, z
<1>4. QED
  BY <1>1, <1>2, <1>3 DEF Balanced

\* An entry appended to the second journal changes nothing of what is balanced
\* by those before it.
LEMMA BalancedLater ==
    ASSUME NEW t, NEW g, NEW h \in Seq(Changes), NEW c \in Changes, NEW m \in 0..Len(h)
    PROVE  Balanced(t, g, Append(h, c), m) <=> Balanced(t, g, h, m)
<1>1. \A k \in Keys, v \in Images : Net(Append(h, c), k, v)[m] = Net(h, k, v)[m]
  BY NetAppend
<1>2. QED
  BY <1>1 DEF Balanced

-----------------------------------------------------------------------------
(* Two SQLite stores: the invariant.                                       *)

LEMMA LoopTypes ==
    ASSUME IndInv, NEW s \in Nodes
    PROVE  /\ TypeOK /\ StreamOK(s) /\ Peer(s) \in Nodes /\ Peer(s) # s
           /\ upto[s] \in Nat /\ next[s] \in Nat /\ cursor[s] \in Nat
           /\ journal[s] \in Seq(Changes) /\ Len(journal[s]) \in Nat
           /\ applied \in [Nodes -> SUBSET Nat] /\ marked[s] \subseteq Nat
<1>1. TypeOK /\ StreamOK(s) /\ Peer(s) \in Nodes /\ Peer(s) # s
  BY NodesFacts DEF IndInv
<1>2. upto[s] \in Nat /\ next[s] \in Nat /\ cursor[s] \in Nat /\ journal[s] \in Seq(Changes)
  BY DEF IndInv, TypeOK
<1>3. Len(journal[s]) \in Nat
  BY <1>2
<1>4. applied \in [Nodes -> SUBSET Nat] /\ marked[s] \subseteq Nat
  BY DEF IndInv, TypeOK
<1>5. QED
  BY <1>1, <1>2, <1>3, <1>4

LEMMA InitTwoWay ==
    ASSUME Init
    PROVE  TwoWayInv
<1>1. TypeOK
  BY InitIndInv DEF IndInv
<1>2. ASSUME NEW s \in Nodes PROVE TwoWayOK(s)
  <2>1. Peer(s) \in Nodes
    BY NodesFacts
  <2>2. /\ journal[s] = <<>> /\ journal[Peer(s)] = <<>> /\ Len(journal[s]) = 0
        /\ rows[Peer(s)] = EmptyTable /\ applied[s] = 1..0 /\ pc[s] = "poll"
    BY <2>1 DEF Init
  <2>3. Balanced(EmptyTable, <<>>, <<>>, 0)
    <3>1. <<>> \in Seq(Changes) /\ Len(<<>>) = 0 /\ 0 \in 0..0
      OBVIOUS
    <3>2. \A k \in Keys, v \in Images : Net(<<>>, k, v)[0] = 0
      BY <3>1, NetFacts
    <3>3. \A k \in Keys, v \in Images : Bit(EmptyTable[k], v) = Bit(NoRow, v)
      BY DEF EmptyTable
    <3>4. \A v \in Images : Bit(NoRow, v) \in Int
      BY DEF Bit
    <3>5. QED
      BY <3>1, <3>2, <3>3, <3>4, EmptyTableType DEF Balanced
  <2>4. DestinationBalanced(s)
    <3>1. 0 \in 0..Len(journal[s]) /\ ~InTransaction(s)
      BY <2>2 DEF InTransaction
    <3>2. QED
      BY <2>2, <2>3, <3>1 DEF DestinationBalanced
  <2>5. QED
    BY <2>2, <2>4 DEF TwoWayOK
<1>3. \A s \in Nodes : ComparisonStands(s)
  BY DEF Init, ComparisonStands
<1>4. QED
  BY <1>2, <1>3 DEF TwoWayInv

\* What an application write does to its journal and its table.
LEMMA AppWriteFacts ==
    ASSUME IndInv, NEW n \in Nodes, AppWrite(n)
    PROVE  /\ UNCHANGED <<applied, pc, cursor, upto, next, failure, own, locked, marked>>
           /\ \A t \in Nodes \ {n} : rows'[t] = rows[t] /\ journal'[t] = journal[t]
           /\ ~Excluded(Peer(n), {}) \/ n \in PostgresNodes
           /\ \E c \in LocalChanges(rows[n]) :
                 /\ c \in Changes
                 /\ KeyIsFree(rows[n], c)
                 /\ rows'[n] = Written(rows[n], c)
                 /\ journal'[n] = Append(journal[n], c)
<1>0. rows \in [Nodes -> [Keys -> Images]] /\ journal \in [Nodes -> Seq(Changes)]
  BY DEF IndInv, TypeOK
<1>1. PICK c \in LocalChanges(rows[n]) :
        /\ KeyIsFree(rows[n], c)
        /\ ~Excluded(Peer(n), TouchedKeys(c))
        /\ rows' = [rows EXCEPT ![n] = Written(rows[n], c)]
        /\ journal' = IF TriggerFires(SessionSuppress(n))
                      THEN [journal EXCEPT ![n] = Append(journal[n], c)]
                      ELSE journal
  BY DEF AppWrite
<1>2. c \in Changes
  BY <1>0, LocalChangesType
<1>3. TriggerFires(SessionSuppress(n))
  BY DEF TriggerFires, SessionSuppress, SuppressionOK, IndInv
<1>4. journal' = [journal EXCEPT ![n] = Append(journal[n], c)]
  BY <1>1, <1>3
<1>5. ~Excluded(Peer(n), {}) \/ n \in PostgresNodes
  BY <1>1, NodesFacts DEF Excluded
<1>6. UNCHANGED <<applied, pc, cursor, upto, next, failure, own, locked, marked>>
  BY DEF AppWrite, txn
<1>7. QED
  BY <1>0, <1>1, <1>2, <1>4, <1>5, <1>6

\* The application of the source writes.
LEMMA SourceWrites ==
    ASSUME IndInv, NEW s \in Nodes, TwoWayOK(s), AppWrite(s), rows[s] \in Tables
    PROVE  TwoWayOK(s)'
<1>0. /\ TypeOK /\ StreamOK(s) /\ Peer(s) \in Nodes /\ Peer(s) # s
      /\ journal[s] \in Seq(Changes) /\ Len(journal[s]) \in Nat
      /\ next[s] \in Nat /\ upto[s] \in Nat /\ cursor[s] \in Nat
  BY LoopTypes
<1>1. PICK c \in LocalChanges(rows[s]) : c \in Changes /\ journal'[s] = Append(journal[s], c)
  BY AppWriteFacts
<1>2. /\ UNCHANGED <<applied, pc, cursor, upto, next, failure, own, locked, marked>>
      /\ rows'[Peer(s)] = rows[Peer(s)] /\ journal'[Peer(s)] = journal[Peer(s)]
  BY <1>0, AppWriteFacts
<1>3. /\ Len(journal'[s]) = Len(journal[s]) + 1
      /\ \A i \in 1..Len(journal[s]) : journal'[s][i] = journal[s][i]
      /\ journal'[s][Len(journal[s]) + 1] = c
  BY <1>0, <1>1
<1>4. \A i \in 1..Len(journal'[s]) : Shaped(journal'[s][i])
  <2>1. Shaped(c)
    BY <1>1, LocalChangeShaped
  <2>2. QED
    BY <1>0, <1>3, <2>1 DEF TwoWayOK
<1>5. View(s)' = View(s) /\ InTransaction(s)' = InTransaction(s)
  BY <1>2 DEF View, InTransaction
<1>6. DestinationBalanced(s)'
  <2>1. PICK m \in 0..Len(journal[s]) :
          /\ applied[s] = 1..m
          /\ Balanced(rows[Peer(s)], journal[Peer(s)], journal[s], m)
          /\ InTransaction(s) =>
                IF next[s] - 1 <= m THEN locked[s] = {} /\ marked[s] = {}
                ELSE Balanced(View(s), journal[Peer(s)], journal[s], next[s] - 1)
    BY DEF TwoWayOK, DestinationBalanced
  <2>2. m \in 0..Len(journal'[s])
    BY <1>0, <1>3
  <2>3. Balanced(rows'[Peer(s)], journal'[Peer(s)], journal'[s], m)
    BY <1>0, <1>1, <1>2, <2>1, BalancedLater
  <2>4. InTransaction(s) /\ ~(next[s] - 1 <= m) =>
           Balanced(View(s), journal'[Peer(s)], journal'[s], next[s] - 1)
    <3>1. InTransaction(s) /\ ~(next[s] - 1 <= m) => next[s] - 1 \in 0..Len(journal[s])
      BY <1>0, <2>1 DEF StreamOK, InTransaction
    <3>2. QED
      BY <1>0, <1>1, <1>2, <2>1, <3>1, BalancedLater
  <2>5. QED
    BY <1>2, <1>5, <2>1, <2>2, <2>3, <2>4 DEF DestinationBalanced
<1>7. QED
  BY <1>2, <1>4, <1>6 DEF TwoWayOK, WasApplied

\* The application of a SQLite destination writes, between transactions.
LEMMA DestinationWrites ==
    ASSUME IndInv, NEW s \in Nodes, Peer(s) \notin PostgresNodes, TwoWayOK(s),
           AppWrite(Peer(s))
    PROVE  TwoWayOK(s)'
<1>0. /\ TypeOK /\ Peer(s) \in Nodes /\ Peer(s) # s /\ Peer(Peer(s)) = s
      /\ journal[s] \in Seq(Changes) /\ journal[Peer(s)] \in Seq(Changes)
  BY NodesFacts DEF IndInv, TypeOK
<1>1. PICK c \in LocalChanges(rows[Peer(s)]) :
        /\ c \in Changes /\ KeyIsFree(rows[Peer(s)], c)
        /\ rows'[Peer(s)] = Written(rows[Peer(s)], c)
        /\ journal'[Peer(s)] = Append(journal[Peer(s)], c)
  BY <1>0, AppWriteFacts
<1>2. /\ UNCHANGED <<applied, pc, cursor, upto, next, failure, own, locked, marked>>
      /\ journal'[s] = journal[s] /\ ~InTransaction(s)
  BY <1>0, AppWriteFacts DEF Excluded
<1>3. DestinationBalanced(s)'
  <2>1. PICK m \in 0..Len(journal[s]) :
          /\ applied[s] = 1..m
          /\ Balanced(rows[Peer(s)], journal[Peer(s)], journal[s], m)
    BY DEF TwoWayOK, DestinationBalanced
  <2>2. Fits(rows[Peer(s)], c) /\ Shaped(c)
    BY <1>1, <2>1, LocalChangeFits, LocalChangeShaped DEF Balanced
  <2>3. Balanced(rows'[Peer(s)], journal'[Peer(s)], journal'[s], m)
    BY <1>0, <1>1, <1>2, <2>1, <2>2, BalancedLocal
  <2>4. ~InTransaction(s)'
    BY <1>2 DEF InTransaction
  <2>5. QED
    BY <1>2, <2>1, <2>3, <2>4 DEF DestinationBalanced
<1>4. QED
  BY <1>2, <1>3 DEF TwoWayOK, WasApplied

\* A step that commits nothing into the destination: what has to be shown.
LEMMA LoopTwoWay ==
    ASSUME IndInv, NEW s \in Nodes, TwoWayOK(s),
           journal' = journal, applied'[s] = applied[s], rows'[Peer(s)] = rows[Peer(s)],
           pc'[s] = "write" => ~WasApplied(s)',
           \A m \in Nat :
              /\ applied[s] = 1..m
              /\ InTransaction(s) =>
                    IF next[s] - 1 <= m THEN locked[s] = {} /\ marked[s] = {}
                    ELSE Balanced(View(s), journal[Peer(s)], journal[s], next[s] - 1)
              /\ InTransaction(s)'
              => IF next'[s] - 1 <= m THEN locked'[s] = {} /\ marked'[s] = {}
                 ELSE Balanced(View(s)', journal[Peer(s)], journal[s], next'[s] - 1)
    PROVE  TwoWayOK(s)'
<1>1. PICK m \in 0..Len(journal[s]) :
        /\ applied[s] = 1..m
        /\ Balanced(rows[Peer(s)], journal[Peer(s)], journal[s], m)
        /\ InTransaction(s) =>
              IF next[s] - 1 <= m THEN locked[s] = {} /\ marked[s] = {}
              ELSE Balanced(View(s), journal[Peer(s)], journal[s], next[s] - 1)
  BY DEF TwoWayOK, DestinationBalanced
<1>2. m \in Nat
  BY DEF IndInv, TypeOK
<1>3. InTransaction(s)' =>
         IF next'[s] - 1 <= m THEN locked'[s] = {} /\ marked'[s] = {}
         ELSE Balanced(View(s)', journal[Peer(s)], journal[s], next'[s] - 1)
  BY <1>1, <1>2
<1>4. DestinationBalanced(s)'
  BY <1>1, <1>3 DEF DestinationBalanced
<1>5. QED
  BY <1>4 DEF TwoWayOK

\* A step that leaves no transaction open.
LEMMA ClosedTwoWay ==
    ASSUME IndInv, NEW s \in Nodes, TwoWayOK(s),
           journal' = journal, applied'[s] = applied[s], rows'[Peer(s)] = rows[Peer(s)],
           ~InTransaction(s)'
    PROVE  TwoWayOK(s)'
<1>1. pc'[s] # "write"
  BY DEF InTransaction
<1>2. QED
  BY <1>1, LoopTwoWay

LEMMA BeginTwoWay ==
    ASSUME IndInv, NEW s \in Nodes, TwoWayOK(s), Begin(s)
    PROVE  TwoWayOK(s)'
<1>1. /\ UNCHANGED <<rows, journal, applied, failure, locked, marked>>
      /\ pc'[s] = "check" /\ next'[s] = cursor[s] + 1 /\ cursor[s] \in Nat
  BY DEF IndInv, TypeOK, Begin, stores
<1>2. locked[s] = {} /\ marked[s] = {} /\ 1..cursor[s] \subseteq applied[s]
  BY DEF IndInv, StreamOK, InTransaction, Begin
<1>3. ASSUME NEW m \in Nat, applied[s] = 1..m PROVE next'[s] - 1 <= m
  BY <1>1, <1>2, <1>3
<1>4. QED
  BY <1>1, <1>2, <1>3, LoopTwoWay

LEMMA SkipAppliedTwoWay ==
    ASSUME IndInv, NEW s \in Nodes, TwoWayOK(s), SkipApplied(s)
    PROVE  TwoWayOK(s)'
<1>1. /\ UNCHANGED <<rows, journal, applied, failure, locked, marked, own>>
      /\ pc' = pc /\ pc[s] = "check"
      /\ next'[s] = next[s] + 1 /\ next[s] \in Nat /\ next[s] # 0
      /\ cursor[s] \in Nat /\ cursor[s] < next[s]
      /\ marked[s] \subseteq 1..(next[s] - 1)
  BY DEF IndInv, TypeOK, StreamOK, InTransaction, SkipApplied, AtChange, stores, txn
<1>2. next[s] \in applied[s]
  BY <1>1 DEF SkipApplied, WasApplied
<1>3. InTransaction(s)
  BY <1>1 DEF InTransaction
<1>4. ASSUME NEW m \in Nat, applied[s] = 1..m
      PROVE  next[s] - 1 <= m /\ next'[s] - 1 <= m
  BY <1>1, <1>2, <1>4
<1>5. QED
  BY <1>1, <1>3, <1>4, LoopTwoWay

LEMMA PassCheckTwoWay ==
    ASSUME IndInv, NEW s \in Nodes, TwoWayOK(s), PassCheck(s)
    PROVE  TwoWayOK(s)'
<1>1. /\ UNCHANGED <<rows, journal, applied, failure, locked, marked, own, next>>
      /\ pc[s] = "check" /\ pc'[s] = "write" /\ ~WasApplied(s)
  BY DEF IndInv, TypeOK, PassCheck, AtChange, stores, txn
<1>2. InTransaction(s) /\ View(s)' = View(s) /\ WasApplied(s)' = WasApplied(s)
  BY <1>1 DEF InTransaction, View, WasApplied
<1>3. QED
  BY <1>1, <1>2, LoopTwoWay

\* A transaction at a change that is not applied sees a balanced table.
LEMMA SeesBalanced ==
    ASSUME IndInv, NEW s \in Nodes, TwoWayOK(s), InTransaction(s),
           next[s] <= upto[s], ~WasApplied(s)
    PROVE  /\ next[s] \in 1..Len(journal[s])
           /\ Balanced(View(s), journal[Peer(s)], journal[s], next[s] - 1)
<1>1. /\ TypeOK /\ StreamOK(s) /\ next[s] \in Nat /\ upto[s] \in Nat /\ cursor[s] \in Nat
      /\ Len(journal[s]) \in Nat
  BY DEF IndInv, TypeOK
<1>2. next[s] \in 1..Len(journal[s])
  BY <1>1 DEF StreamOK, InTransaction
<1>3. PICK m \in 0..Len(journal[s]) :
        /\ applied[s] = 1..m
        /\ Balanced(rows[Peer(s)], journal[Peer(s)], journal[s], m)
        /\ IF next[s] - 1 <= m THEN locked[s] = {} /\ marked[s] = {}
           ELSE Balanced(View(s), journal[Peer(s)], journal[s], next[s] - 1)
  BY DEF TwoWayOK, DestinationBalanced
<1>4. CASE next[s] - 1 <= m
  <2>1. m = next[s] - 1
    BY <1>1, <1>2, <1>3, <1>4 DEF WasApplied
  <2>2. rows[Peer(s)] \in [Keys -> Images] /\ locked[s] = {}
    BY <1>1, <1>3, <1>4, NodesFacts DEF TypeOK
  <2>3. View(s) = rows[Peer(s)]
    BY <2>2 DEF View
  <2>4. QED
    BY <1>2, <1>3, <2>1, <2>3
<1>5. CASE ~(next[s] - 1 <= m)
  BY <1>2, <1>3, <1>5
<1>6. QED
  BY <1>4, <1>5

LEMMA WriteChangeTwoWay ==
    ASSUME IndInv, NEW s \in Nodes, Peer(s) \notin PostgresNodes, ComparisonStands(s),
           TwoWayOK(s), WriteChange(s)
    PROVE  TwoWayOK(s)'
<1>1. /\ UNCHANGED <<rows, journal, applied, failure>>
      /\ pc[s] = "write" /\ pc'[s] = "check"
      /\ next'[s] = next[s] + 1 /\ next[s] \in Nat /\ next[s] <= upto[s]
      /\ InTransaction(s) /\ ~WasApplied(s)
  BY DEF IndInv, TypeOK, StreamOK, TwoWayOK, InTransaction, WriteChange, stores
<1>2. /\ next[s] \in 1..Len(journal[s])
      /\ Balanced(View(s), journal[Peer(s)], journal[s], next[s] - 1)
  BY <1>1, SeesBalanced
<1>3. Fits(View(s), Current(s)) /\ Shaped(Current(s))
  BY <1>1, <1>2 DEF Fits, WriteChange, ComparisonStands, PassesComparison, TwoWayOK, Current
<1>4. Balanced(Written(View(s), Current(s)), journal[Peer(s)], journal[s], next[s])
  <2>1. journal[s] \in Seq(Changes) /\ journal[Peer(s)] \in Seq(Changes)
    BY NodesFacts DEF IndInv, TypeOK
  <2>2. QED
    BY <1>2, <1>3, <2>1, BalancedWrite DEF Current
<1>5. View(s)' = Written(View(s), Current(s))
  BY ViewFollows
<1>6. next'[s] - 1 = next[s] /\ pc'[s] # "write"
  BY <1>1
<1>7. ASSUME NEW m \in Nat, applied[s] = 1..m PROVE ~(next'[s] - 1 <= m)
  BY <1>1, <1>2, <1>6, <1>7 DEF WasApplied
<1>8. QED
  BY <1>1, <1>4, <1>5, <1>6, <1>7, LoopTwoWay

\* A change that fails rolls the transaction back.
LEMMA AbortTwoWay ==
    ASSUME IndInv, NEW s \in Nodes, Peer(s) \notin PostgresNodes, TwoWayOK(s),
           DetectConflict(s) \/ WriteFails(s)
    PROVE  TwoWayOK(s)'
<1>1. UNCHANGED <<rows, journal, applied>> /\ pc'[s] = "failed"
  BY DEF IndInv, TypeOK, DetectConflict, WriteFails, Abort, stores
<1>2. ~InTransaction(s)'
  BY <1>1 DEF InTransaction
<1>3. QED
  BY <1>1, <1>2, ClosedTwoWay

LEMMA CommitTwoWay ==
    ASSUME IndInv, NEW s \in Nodes, TwoWayOK(s), Commit(s)
    PROVE  TwoWayOK(s)'
<1>0. /\ TypeOK /\ StreamOK(s) /\ Peer(s) \in Nodes
      /\ upto[s] \in Nat /\ next[s] \in Nat /\ cursor[s] \in Nat /\ Len(journal[s]) \in Nat
      /\ applied \in [Nodes -> SUBSET Nat] /\ marked[s] \subseteq Nat
  BY LoopTypes
<1>1. journal' = journal
  BY CommitKeepsJournals
<1>2. /\ InTransaction(s) /\ upto[s] = next[s] - 1
      /\ upto[s] <= Len(journal[s])
      /\ 1..upto[s] \subseteq applied[s] \cup marked[s]
      /\ marked[s] \subseteq 1..upto[s]
  BY <1>0 DEF StreamOK, InTransaction, Commit
<1>3. /\ rows'[Peer(s)] = View(s)
      /\ applied'[s] = applied[s] \cup marked[s] /\ pc'[s] = "save"
  BY <1>0 DEF TypeOK, Commit
<1>4. PICK m \in 0..Len(journal[s]) :
        /\ applied[s] = 1..m
        /\ Balanced(rows[Peer(s)], journal[Peer(s)], journal[s], m)
        /\ IF next[s] - 1 <= m THEN locked[s] = {} /\ marked[s] = {}
           ELSE Balanced(View(s), journal[Peer(s)], journal[s], next[s] - 1)
  BY <1>2 DEF TwoWayOK, DestinationBalanced
<1>5. \E q \in 0..Len(journal[s]) :
         applied'[s] = 1..q /\ Balanced(rows'[Peer(s)], journal[Peer(s)], journal[s], q)
  <2>1. CASE upto[s] <= m
    <3>1. locked[s] = {} /\ marked[s] = {}
      BY <1>2, <1>4, <2>1
    <3>2. rows[Peer(s)] \in [Keys -> Images]
      BY <1>0 DEF TypeOK
    <3>3. View(s) = rows[Peer(s)]
      BY <3>1, <3>2 DEF View
    <3>4. applied'[s] = 1..m
      BY <1>3, <1>4, <3>1
    <3>5. QED
      BY <1>3, <1>4, <3>3, <3>4
  <2>2. CASE ~(upto[s] <= m)
    <3>1. Balanced(View(s), journal[Peer(s)], journal[s], upto[s])
      BY <1>2, <1>4, <2>2
    <3>2. upto[s] \in 0..Len(journal[s]) /\ m <= upto[s]
      BY <1>0, <1>2, <1>4, <2>2
    <3>3. applied'[s] = 1..upto[s]
      BY <1>0, <1>2, <1>3, <1>4, <3>2
    <3>4. QED
      BY <1>3, <3>1, <3>2, <3>3
  <2>3. QED
    BY <2>1, <2>2
<1>6. ~InTransaction(s)' /\ pc'[s] # "write"
  BY <1>3 DEF InTransaction
<1>7. DestinationBalanced(s)'
  BY <1>1, <1>5, <1>6 DEF DestinationBalanced
<1>8. QED
  BY <1>1, <1>6, <1>7 DEF TwoWayOK

\* What the loop of the other stream does touches neither this one's
\* destination nor its journals.
LEMMA OtherLoopTwoWay ==
    ASSUME IndInv, NEW s \in Nodes, TwoWayOK(s), Loop(Peer(s)) \/ Crash(Peer(s))
    PROVE  TwoWayOK(s)'
<1>1. Peer(s) \in Nodes /\ Peer(s) # s /\ Peer(Peer(s)) = s
  BY NodesFacts
<1>2. journal' = journal
  BY <1>1, LoopKeepsJournals
<1>3. /\ pc'[s] = pc[s] /\ next'[s] = next[s] /\ own'[s] = own[s] /\ locked'[s] = locked[s]
      /\ marked'[s] = marked[s] /\ failure'[s] = failure[s] /\ applied'[s] = applied[s]
      /\ rows'[Peer(s)] = rows[Peer(s)]
  BY <1>1 DEF IndInv, TypeOK, Loop, ApplyChanges, Poll, Begin, SkipApplied,
              DetectConflict, PassCheck, WriteChange, WriteFails, Commit, Crash,
              SaveCursor, Retry, ForgetBatch, Abort, CloseTransaction, txn, stores
<1>4. /\ InTransaction(s)' = InTransaction(s) /\ View(s)' = View(s)
      /\ WasApplied(s)' = WasApplied(s)
  BY <1>2, <1>3 DEF InTransaction, View, WasApplied
<1>5. QED
  BY <1>2, <1>3, <1>4, LoopTwoWay DEF TwoWayOK

LEMMA LoopStepTwoWay ==
    ASSUME IndInv, NEW s \in Nodes, Peer(s) \notin PostgresNodes, ComparisonStands(s),
           TwoWayOK(s), Loop(s) \/ Crash(s)
    PROVE  TwoWayOK(s)'
<1>1. CASE Poll(s) \/ SaveCursor(s) \/ Retry(s) \/ Crash(s)
  <2>1. /\ UNCHANGED <<rows, journal, applied>> /\ pc'[s] \in {"poll", "begin"}
    <3>1. CASE Poll(s)
      BY <3>1 DEF IndInv, TypeOK, Poll, stores
    <3>2. CASE SaveCursor(s) \/ Retry(s) \/ Crash(s)
      BY <3>2 DEF IndInv, TypeOK, SaveCursor, Retry, Crash, ForgetBatch, stores
    <3>3. QED
      BY <1>1, <3>1, <3>2
  <2>2. ~InTransaction(s)'
    BY <2>1 DEF InTransaction
  <2>3. QED
    BY <2>1, <2>2, ClosedTwoWay
<1>2. CASE ApplyChanges(s)
  BY <1>2, BeginTwoWay, SkipAppliedTwoWay, PassCheckTwoWay, WriteChangeTwoWay,
     CommitTwoWay, AbortTwoWay DEF ApplyChanges
<1>3. QED
  BY <1>1, <1>2 DEF Loop

LEMMA NextTwoWay ==
    PostgresNodes = {} => (IndInv /\ TwoWayInv /\ [Next]_vars => TwoWayInv')
<1> SUFFICES ASSUME PostgresNodes = {}, IndInv, TwoWayInv, [Next]_vars PROVE TwoWayInv'
  OBVIOUS
<1>1. ASSUME NEW s \in Nodes PROVE ComparisonStands(s)'
  BY StandsNext DEF TwoWayInv
<1>2. ASSUME NEW s \in Nodes PROVE TwoWayOK(s)'
  <2>1. /\ TwoWayOK(s) /\ TwoWayOK(Peer(s)) /\ ComparisonStands(s)
        /\ Peer(s) \in Nodes /\ Peer(Peer(s)) = s /\ \A n \in Nodes : n = s \/ n = Peer(s)
    BY NodesFacts DEF TwoWayInv, Nodes, Peer
  <2>2. rows[s] \in Tables
    BY <2>1 DEF TwoWayOK, DestinationBalanced, Balanced
  <2>3. CASE AppWrite(s) \/ AppWrite(Peer(s))
    BY <2>1, <2>2, <2>3, SourceWrites, DestinationWrites
  <2>4. CASE Loop(s) \/ Crash(s)
    BY <2>1, <2>4, LoopStepTwoWay
  <2>5. CASE Loop(Peer(s)) \/ Crash(Peer(s))
    BY <2>1, <2>5, OtherLoopTwoWay
  <2>6. CASE UNCHANGED vars
    BY <2>1, <2>6 DEF vars, TwoWayOK, DestinationBalanced, InTransaction, View,
                      WasApplied
  <2>7. QED
    BY <2>1, <2>3, <2>4, <2>5, <2>6 DEF Next
<1>3. QED
  BY <1>1, <1>2 DEF TwoWayInv

-----------------------------------------------------------------------------
(* Two SQLite stores: the theorems.                                        *)

\* Between SQLite stores, the image a store holds at a key is the one that the
\* writes of its application and the changes applied to it balance to.
THEOREM TwoWayInductive == PostgresNodes = {} => (Spec => []TwoWayInv)
<1> SUFFICES ASSUME PostgresNodes = {} PROVE Spec => []TwoWayInv
  OBVIOUS
<1>1. IndInv /\ TwoWayInv /\ [Next]_vars => TwoWayInv'
  BY NextTwoWay
<1>2. QED
  BY <1>1, InitTwoWay, Inductive, PTL DEF Spec

\* Two SQLite stores that have applied all of each other's journals hold the
\* same table: writes that collide are refused, never left different.
THEOREM SQLiteConverges == PostgresNodes = {} => (Spec => []Convergence)
<1> SUFFICES ASSUME PostgresNodes = {} PROVE Spec => []Convergence
  OBVIOUS
<1>1. IndInv /\ TwoWayInv => Convergence
  <2> SUFFICES ASSUME IndInv, TwoWayInv, Drained PROVE rows[NodeA] = rows[NodeB]
    BY DEF Convergence
  <2>1. /\ NodeA \in Nodes /\ NodeB \in Nodes /\ Peer(NodeA) = NodeB /\ Peer(NodeB) = NodeA
        /\ journal[NodeA] \in Seq(Changes) /\ journal[NodeB] \in Seq(Changes)
    BY NodesAssumption DEF Nodes, Peer, IndInv, TypeOK
  <2>2. ASSUME NEW s \in Nodes
        PROVE  Balanced(rows[Peer(s)], journal[Peer(s)], journal[s], Len(journal[s]))
    <3>1. PICK m \in 0..Len(journal[s]) :
            /\ applied[s] = 1..m
            /\ Balanced(rows[Peer(s)], journal[Peer(s)], journal[s], m)
      BY DEF TwoWayInv, TwoWayOK, DestinationBalanced
    <3>2. 1..m = 1..Len(journal[s]) /\ Len(journal[s]) \in Nat
      BY <3>1 DEF Drained, IndInv, TypeOK
    <3>3. m = Len(journal[s])
      BY <3>2
    <3>4. QED
      BY <3>1, <3>3
  <2>3. /\ Balanced(rows[NodeA], journal[NodeA], journal[NodeB], Len(journal[NodeB]))
        /\ Balanced(rows[NodeB], journal[NodeB], journal[NodeA], Len(journal[NodeA]))
    BY <2>1, <2>2
  <2>4. ASSUME NEW k \in Keys PROVE rows[NodeA][k] = rows[NodeB][k]
    <3>1. rows[NodeA][k] \in Images
      BY <2>3 DEF Balanced, Tables
    <3>2. PICK v \in Images : v = rows[NodeA][k]
      BY <3>1
    <3> DEFINE a == Net(journal[NodeA], k, v)[Len(journal[NodeA])]
               b == Net(journal[NodeB], k, v)[Len(journal[NodeB])]
    <3>3. a \in Int /\ b \in Int
      <4>1. Len(journal[NodeA]) \in 0..Len(journal[NodeA]) /\ Len(journal[NodeB]) \in 0..Len(journal[NodeB])
        BY <2>1
      <4>2. QED
        BY <2>1, <4>1, NetFacts
    <3>4. /\ Bit(rows[NodeA][k], v) - Bit(NoRow, v) = a + b
          /\ Bit(rows[NodeB][k], v) - Bit(NoRow, v) = b + a
      BY <2>3 DEF Balanced
    <3>5. Bit(rows[NodeA][k], v) = 1 /\ Bit(NoRow, v) \in Int /\ Bit(rows[NodeB][k], v) \in Int
      BY <3>2 DEF Bit
    <3> HIDE DEF a, b
    <3>6. Bit(rows[NodeB][k], v) = 1
      BY <3>3, <3>4, <3>5
    <3>7. QED
      BY <3>2, <3>6 DEF Bit
  <2>5. rows[NodeA] \in [Keys -> Images] /\ rows[NodeB] \in [Keys -> Images]
    BY <2>1 DEF IndInv, TypeOK
  <2>6. QED
    BY <2>4, <2>5
<1>2. QED
  BY <1>1, Inductive, TwoWayInductive, PTL

-----------------------------------------------------------------------------
(* What a journal retells.                                                 *)

\* The tables a source has been through.
LEMMA WasFacts ==
    ASSUME TypeOK, NEW s \in Nodes
    PROVE  /\ journal[s] \in Seq(Changes) /\ Len(journal[s]) \in Nat
           /\ Was(s, 0) = EmptyTable
           /\ \A i \in 0..Len(journal[s]) : Was(s, i) \in Tables
           /\ \A i \in 1..Len(journal[s]) :
                 Was(s, i) = Written(Was(s, i - 1), journal[s][i])
<1>1. journal[s] \in Seq(Changes)
  BY DEF TypeOK
<1>2. QED
  BY <1>1, EmptyTableType, ReplayFacts, ReplayTables DEF Was

\* A transaction at a change that is not applied sees the table the change
\* was captured on.
LEMMA SeesBefore ==
    ASSUME IndInv, NEW s \in Nodes, OneWayOK(s), InTransaction(s),
           next[s] <= upto[s], ~WasApplied(s)
    PROVE  /\ next[s] \in 1..Len(journal[s])
           /\ View(s) = Was(s, next[s] - 1)
           /\ Fits(View(s), Current(s))
<1>1. /\ TypeOK /\ StreamOK(s) /\ next[s] \in Nat /\ upto[s] \in Nat /\ cursor[s] \in Nat
      /\ Len(journal[s]) \in Nat
  BY WasFacts DEF IndInv, TypeOK
<1>2. next[s] \in 1..Len(journal[s])
  BY <1>1 DEF StreamOK, InTransaction
<1>3. PICK m \in 0..Len(journal[s]) :
        /\ applied[s] = 1..m
        /\ rows[Peer(s)] = Was(s, m)
        /\ IF next[s] - 1 <= m THEN locked[s] = {} /\ marked[s] = {}
           ELSE View(s) = Was(s, next[s] - 1)
  BY DEF OneWayOK, DestinationOK
<1>4. View(s) = Was(s, next[s] - 1)
  <2>1. CASE next[s] - 1 <= m
    <3>1. m = next[s] - 1
      BY <1>1, <1>2, <1>3, <2>1 DEF WasApplied
    <3>2. rows[Peer(s)] \in [Keys -> Images] /\ locked[s] = {}
      BY <1>1, <1>3, <2>1, NodesFacts DEF TypeOK
    <3>3. View(s) = rows[Peer(s)]
      BY <3>2 DEF View
    <3>4. QED
      BY <1>3, <3>1, <3>3
  <2>2. CASE ~(next[s] - 1 <= m)
    BY <1>3, <2>2
  <2>3. QED
    BY <2>1, <2>2
<1>5. Fits(Was(s, next[s] - 1), journal[s][next[s]])
  BY <1>2 DEF OneWayOK, SourceOK
<1>6. QED
  BY <1>2, <1>4, <1>5 DEF Current

-----------------------------------------------------------------------------
(* The invariant.                                                          *)

LEMMA InitOneWay ==
    ASSUME Init
    PROVE  OneWayInv
<1>1. TypeOK
  BY InitIndInv DEF IndInv
<1>2. ASSUME NEW s \in Nodes PROVE OneWayOK(s)
  <2>1. Peer(s) \in Nodes
    BY NodesFacts
  <2>2. journal[s] = <<>> /\ Len(journal[s]) = 0 /\ Was(s, 0) = EmptyTable
    BY <1>1, WasFacts DEF Init
  <2>3. NothingBack(s) /\ ~InTransaction(s) /\ pc[s] # "write" /\ failure[s] = "none"
    BY <2>1 DEF Init, NothingBack, InTransaction
  <2>4. SourceOK(s)
    BY <2>2 DEF SourceOK, Init
  <2>5. DestinationOK(s)
    <3>1. 0 \in 0..Len(journal[s]) /\ applied[s] = 1..0 /\ rows[Peer(s)] = Was(s, 0)
      BY <2>1, <2>2 DEF Init
    <3>2. QED
      BY <2>3, <3>1 DEF DestinationOK
  <2>6. QED
    BY <2>3, <2>4, <2>5 DEF OneWayOK
<1>3. QED
  BY <1>2 DEF OneWayInv

\* The application of the source writes.
LEMMA AppWriteOneWay ==
    ASSUME IndInv, NEW s \in Nodes, OneWayOK(s), AppWrite(s)
    PROVE  OneWayOK(s)'
<1>0. /\ TypeOK /\ StreamOK(s) /\ Peer(s) \in Nodes /\ Peer(s) # s
      /\ rows \in [Nodes -> [Keys -> Images]] /\ journal \in [Nodes -> Seq(Changes)]
  BY NodesFacts DEF IndInv, TypeOK
<1>len. PICK n \in Nat : n = Len(journal[s])
  BY <1>0, WasFacts
<1>1. PICK c \in LocalChanges(rows[s]) :
        /\ KeyIsFree(rows[s], c)
        /\ rows' = [rows EXCEPT ![s] = Written(rows[s], c)]
        /\ journal' = IF TriggerFires(SessionSuppress(s))
                      THEN [journal EXCEPT ![s] = Append(journal[s], c)]
                      ELSE journal
  BY DEF AppWrite
<1>2. c \in Changes
  BY <1>0, LocalChangesType
<1>3. journal' = [journal EXCEPT ![s] = Append(journal[s], c)]
  <2>1. TriggerFires(SessionSuppress(s))
    BY DEF TriggerFires, SessionSuppress, SuppressionOK, IndInv
  <2>2. QED
    BY <1>1, <2>1
<1>4. /\ journal'[s] = Append(journal[s], c) /\ journal'[Peer(s)] = journal[Peer(s)]
      /\ Len(journal'[s]) = n + 1 /\ journal'[s][n + 1] = c
      /\ \A i \in 1..n : journal'[s][i] = journal[s][i]
  BY <1>len, <1>0, <1>2, <1>3
<1>5. /\ rows'[s] = Written(rows[s], c) /\ rows'[Peer(s)] = rows[Peer(s)]
  BY <1>0, <1>1
<1>6. /\ \A i \in 0..n : Was(s, i)' = Was(s, i)
      /\ Was(s, n + 1)' = Written(Was(s, n), c)
  BY <1>len, <1>0, <1>2, <1>4, EmptyTableType, ReplayAppend DEF Was
<1>7. UNCHANGED <<pc, next, upto, cursor, applied, locked, marked, own, failure>>
  BY DEF AppWrite, txn
<1>8. SourceOK(s)'
  <2>1. rows[s] = Was(s, n) /\ rows[s] \in Tables
    BY <1>len, <1>0, <1>2, WasFacts DEF OneWayOK, SourceOK
  <2>2. Fits(rows[s], c)
    BY <1>1, <2>1, LocalChangeFits
  <2>3. ASSUME NEW i \in 1..n + 1 PROVE Fits(Was(s, i - 1)', journal'[s][i])
    <3>1. CASE i = n + 1
      <4>1. i - 1 = n /\ n \in 0..n
        BY <1>2, <3>1
      <4>2. QED
        BY <1>4, <1>6, <2>1, <2>2, <3>1, <4>1
    <3>2. CASE i \in 1..n
      <4>1. i - 1 \in 0..n
        BY <1>2, <3>2
      <4>2. QED
        BY <1>len, <1>4, <1>6, <3>2, <4>1 DEF OneWayOK, SourceOK
    <3>3. QED
      BY <1>2, <3>1, <3>2
  <2>4. rows'[s] = Was(s, n + 1)'
    BY <1>5, <1>6, <2>1
  <2>5. QED
    BY <1>4, <2>3, <2>4 DEF SourceOK, Was
<1>9. DestinationOK(s)'
  <2>1. PICK m \in 0..n :
          /\ applied[s] = 1..m
          /\ rows[Peer(s)] = Was(s, m)
          /\ InTransaction(s) =>
                IF next[s] - 1 <= m THEN locked[s] = {} /\ marked[s] = {}
                ELSE View(s) = Was(s, next[s] - 1)
    BY <1>len DEF OneWayOK, DestinationOK
  <2>2. m \in 0..Len(journal'[s])
    BY <1>2, <1>4
  <2>3. rows'[Peer(s)] = Was(s, m)'
    BY <1>5, <1>6, <2>1
  <2>4. View(s)' = View(s)
    BY <1>5, <1>7 DEF View
  <2>5. InTransaction(s) /\ ~(next[s] - 1 <= m) => Was(s, next[s] - 1)' = Was(s, next[s] - 1)
    <3>1. InTransaction(s) /\ ~(next[s] - 1 <= m) => next[s] - 1 \in 0..n
      <4>1. next[s] \in Nat /\ upto[s] \in Nat /\ cursor[s] \in Nat
        BY <1>0 DEF TypeOK
      <4>2. InTransaction(s) => next[s] <= upto[s] + 1 /\ upto[s] <= n
        BY <1>len, <1>0 DEF StreamOK, InTransaction
      <4>3. QED
        BY <2>1, <4>1, <4>2
    <3>2. QED
      BY <1>6, <1>7, <3>1 DEF Was
  <2>6. QED
    BY <1>7, <2>1, <2>2, <2>3, <2>4, <2>5 DEF DestinationOK, InTransaction, Was
<1>10. QED
  BY <1>4, <1>7, <1>8, <1>9 DEF OneWayOK, NothingBack, WasApplied

\* The other stream has nothing to read, so its loop never leaves its poll.
LEMMA NothingTravelsBack ==
    ASSUME IndInv, NEW t \in Nodes, journal[t] = <<>>, pc[t] = "poll"
    PROVE  ~Loop(t) /\ ~Crash(t)
<1>1. Len(journal[t]) = 0 /\ cursor[t] \in Nat
  BY DEF IndInv, TypeOK
<1>2. ~Poll(t)
  BY <1>1 DEF Poll
<1>3. QED
  BY <1>2 DEF Loop, ApplyChanges, Begin, SkipApplied, AtChange, DetectConflict,
              PassCheck, WriteChange, WriteFails, Commit, SaveCursor, Retry, Crash

\* A step of the loop that commits nothing: what has to be shown of it.
LEMMA LoopOneWay ==
    ASSUME IndInv, NEW s \in Nodes, OneWayOK(s),
           UNCHANGED <<rows, journal, applied>>, pc'[Peer(s)] = pc[Peer(s)],
           failure'[s] = "none", pc'[s] = "write" => ~WasApplied(s)',
           \A m \in Nat :
              /\ applied[s] = 1..m
              /\ InTransaction(s) =>
                    IF next[s] - 1 <= m THEN locked[s] = {} /\ marked[s] = {}
                    ELSE View(s) = Was(s, next[s] - 1)
              /\ InTransaction(s)'
              => IF next'[s] - 1 <= m THEN locked'[s] = {} /\ marked'[s] = {}
                 ELSE View(s)' = Was(s, next'[s] - 1)
    PROVE  OneWayOK(s)'
<1>1. SourceOK(s)' /\ NothingBack(s)'
  BY DEF OneWayOK, SourceOK, NothingBack, Was
<1>2. PICK m \in 0..Len(journal[s]) :
        /\ applied[s] = 1..m
        /\ rows[Peer(s)] = Was(s, m)
        /\ InTransaction(s) =>
              IF next[s] - 1 <= m THEN locked[s] = {} /\ marked[s] = {}
              ELSE View(s) = Was(s, next[s] - 1)
  BY DEF OneWayOK, DestinationOK
<1>3. m \in Nat
  BY WasFacts DEF IndInv
<1>4. InTransaction(s)' =>
         IF next'[s] - 1 <= m THEN locked'[s] = {} /\ marked'[s] = {}
         ELSE View(s)' = Was(s, next'[s] - 1)
  BY <1>2, <1>3
<1>5. DestinationOK(s)'
  BY <1>2, <1>4 DEF DestinationOK, Was
<1>6. QED
  BY <1>1, <1>5 DEF OneWayOK

\* A step that leaves no transaction open.
LEMMA ClosedOneWay ==
    ASSUME IndInv, NEW s \in Nodes, OneWayOK(s),
           UNCHANGED <<rows, journal, applied>>, pc'[Peer(s)] = pc[Peer(s)],
           failure'[s] = "none", ~InTransaction(s)'
    PROVE  OneWayOK(s)'
<1>1. pc'[s] # "write"
  BY DEF InTransaction
<1>2. QED
  BY <1>1, LoopOneWay

LEMMA BeginOneWay ==
    ASSUME IndInv, NEW s \in Nodes, OneWayOK(s), Begin(s)
    PROVE  OneWayOK(s)'
<1>1. /\ UNCHANGED <<rows, journal, applied, failure, locked, marked>>
      /\ pc'[Peer(s)] = pc[Peer(s)] /\ pc'[s] = "check"
      /\ next'[s] = cursor[s] + 1 /\ cursor[s] \in Nat
  BY NodesFacts DEF IndInv, TypeOK, Begin, stores
<1>2. locked[s] = {} /\ marked[s] = {} /\ 1..cursor[s] \subseteq applied[s]
  BY DEF IndInv, StreamOK, InTransaction, Begin, OneWayOK
<1>3. ASSUME NEW m \in Nat, applied[s] = 1..m PROVE next'[s] - 1 <= m
  BY <1>1, <1>2, <1>3
<1>4. QED
  BY <1>1, <1>2, <1>3, LoopOneWay DEF OneWayOK

LEMMA SkipAppliedOneWay ==
    ASSUME IndInv, NEW s \in Nodes, OneWayOK(s), SkipApplied(s)
    PROVE  OneWayOK(s)'
<1>1. /\ UNCHANGED <<rows, journal, applied, failure, locked, marked, own>>
      /\ pc' = pc /\ pc[s] = "check"
      /\ next'[s] = next[s] + 1 /\ next[s] \in Nat /\ next[s] # 0
      /\ cursor[s] \in Nat /\ cursor[s] < next[s]
      /\ marked[s] \subseteq 1..(next[s] - 1)
  BY DEF IndInv, TypeOK, StreamOK, InTransaction, SkipApplied, AtChange, stores, txn
<1>2. next[s] \in applied[s]
  BY <1>1 DEF SkipApplied, WasApplied
<1>3. InTransaction(s) /\ View(s)' = View(s)
  BY <1>1 DEF InTransaction, View
<1>4. ASSUME NEW m \in Nat, applied[s] = 1..m
      PROVE  next[s] - 1 <= m /\ next'[s] - 1 <= m
  BY <1>1, <1>2, <1>4
<1>5. QED
  BY <1>1, <1>3, <1>4, LoopOneWay DEF OneWayOK

LEMMA PassCheckOneWay ==
    ASSUME IndInv, NEW s \in Nodes, OneWayOK(s), PassCheck(s)
    PROVE  OneWayOK(s)'
<1>1. /\ UNCHANGED <<rows, journal, applied, failure, locked, marked, own, next>>
      /\ pc'[Peer(s)] = pc[Peer(s)] /\ pc[s] = "check"
  BY NodesFacts DEF IndInv, TypeOK, PassCheck, AtChange, stores, txn
<1>2. InTransaction(s) /\ View(s)' = View(s) /\ WasApplied(s)' = WasApplied(s)
  BY <1>1 DEF InTransaction, View, WasApplied
<1>3. ~WasApplied(s)
  BY DEF PassCheck
<1>4. QED
  BY <1>1, <1>2, <1>3, LoopOneWay DEF OneWayOK

LEMMA WriteChangeOneWay ==
    ASSUME IndInv, NEW s \in Nodes, OneWayOK(s), WriteChange(s)
    PROVE  OneWayOK(s)'
<1>1. /\ UNCHANGED <<rows, journal, applied, failure>>
      /\ pc'[Peer(s)] = pc[Peer(s)] /\ pc[s] = "write" /\ pc'[s] = "check"
      /\ next'[s] = next[s] + 1 /\ next[s] \in Nat /\ next[s] <= upto[s]
      /\ InTransaction(s) /\ ~WasApplied(s)
  BY NodesFacts DEF IndInv, TypeOK, StreamOK, OneWayOK, InTransaction, WriteChange, stores
<1>2. /\ next[s] \in 1..Len(journal[s])
      /\ View(s) = Was(s, next[s] - 1)
  BY <1>1, SeesBefore
<1>3. View(s)' = Was(s, next[s])
  BY <1>2, ViewFollows, WasFacts DEF IndInv, Current
<1>4. next'[s] - 1 = next[s] /\ pc'[s] # "write"
  BY <1>1
<1>5. ASSUME NEW m \in Nat, applied[s] = 1..m,
             IF next[s] - 1 <= m THEN locked[s] = {} /\ marked[s] = {}
             ELSE View(s) = Was(s, next[s] - 1)
      PROVE  ~(next'[s] - 1 <= m)
  <2>1. next[s] \notin 1..m
    BY <1>1, <1>5 DEF WasApplied
  <2>2. QED
    BY <1>1, <1>2, <1>4, <2>1
<1>6. QED
  BY <1>1, <1>3, <1>4, <1>5, LoopOneWay DEF OneWayOK

\* Neither the comparison nor the statement can fail.
LEMMA NoFailureOneWay ==
    ASSUME IndInv, NEW s \in Nodes, OneWayOK(s)
    PROVE  ~DetectConflict(s) /\ ~WriteFails(s)
<1>1. ~DetectConflict(s)
  <2>1. ~(AtChange(s) /\ ~WasApplied(s)) \/ PassesComparison(s)
    BY SeesBefore DEF AtChange, InTransaction, Fits, PassesComparison
  <2>2. QED
    BY <2>1 DEF DetectConflict
<1>2. ~WriteFails(s)
  <2>1. CASE pc[s] = "write"
    <3>1. Fits(View(s), Current(s))
      BY <2>1, SeesBefore DEF IndInv, StreamOK, OneWayOK, InTransaction
    <3>2. QED
      BY <3>1 DEF Fits, FindsRow, BeforeMatches, WriteFails
  <2>2. QED
    BY <2>1 DEF WriteFails
<1>3. QED
  BY <1>1, <1>2

\* What a commit leaves: every change up to the end of the batch is applied,
\* and the destination holds the table after the last of them.
LEMMA CommitMoves ==
    ASSUME IndInv, NEW s \in Nodes, OneWayOK(s), Commit(s)
    PROVE  /\ journal' = journal
           /\ rows'[s] = rows[s]
           /\ \E m, q \in 0..Len(journal[s]) :
                 /\ m <= q
                 /\ applied[s] = 1..m /\ rows[Peer(s)] = Was(s, m)
                 /\ applied'[s] = 1..q /\ rows'[Peer(s)] = Was(s, q)
<1>0. /\ TypeOK /\ StreamOK(s) /\ Peer(s) \in Nodes /\ Peer(s) # s
      /\ upto[s] \in Nat /\ next[s] \in Nat /\ cursor[s] \in Nat /\ Len(journal[s]) \in Nat
      /\ applied \in [Nodes -> SUBSET Nat] /\ marked[s] \subseteq Nat
  BY NodesFacts, WasFacts DEF IndInv, TypeOK
<1>1. journal' = journal
  <2>1. echo[s] = <<>> /\ journal[Peer(s)] = <<>> /\ journal \in [Nodes -> Seq(Changes)]
    BY <1>0 DEF IndInv, TypeOK, SuppressionOK, OneWayOK, NothingBack
  <2>2. journal[Peer(s)] \o echo[s] = journal[Peer(s)]
    BY <2>1
  <2>3. QED
    BY <2>1, <2>2 DEF Commit
<1>2. /\ InTransaction(s) /\ upto[s] = next[s] - 1
      /\ upto[s] <= Len(journal[s])
      /\ 1..upto[s] \subseteq applied[s] \cup marked[s]
      /\ marked[s] \subseteq 1..upto[s]
  BY <1>0 DEF StreamOK, InTransaction, Commit
<1>3. /\ rows'[Peer(s)] = View(s) /\ rows'[s] = rows[s]
      /\ applied'[s] = applied[s] \cup marked[s]
  BY <1>0 DEF TypeOK, Commit
<1>4. PICK m \in 0..Len(journal[s]) :
        /\ applied[s] = 1..m
        /\ rows[Peer(s)] = Was(s, m)
        /\ IF next[s] - 1 <= m THEN locked[s] = {} /\ marked[s] = {}
           ELSE View(s) = Was(s, next[s] - 1)
  BY <1>2 DEF OneWayOK, DestinationOK
<1>5. CASE upto[s] <= m
  <2>1. locked[s] = {} /\ marked[s] = {}
    BY <1>2, <1>4, <1>5
  <2>2. View(s) = rows[Peer(s)]
    <3>1. rows[Peer(s)] \in [Keys -> Images]
      BY <1>0 DEF TypeOK
    <3>2. QED
      BY <2>1, <3>1 DEF View
  <2>3. applied'[s] = 1..m
    BY <1>3, <1>4, <2>1
  <2>4. m <= m
    BY <1>4
  <2>5. QED
    BY <1>1, <1>3, <1>4, <2>2, <2>3, <2>4
<1>6. CASE ~(upto[s] <= m)
  <2>1. View(s) = Was(s, upto[s])
    BY <1>2, <1>4, <1>6
  <2>2. upto[s] \in 0..Len(journal[s]) /\ m <= upto[s]
    BY <1>0, <1>2, <1>4, <1>6
  <2>3. applied'[s] = 1..upto[s]
    BY <1>0, <1>2, <1>3, <1>4, <2>2
  <2>4. QED
    BY <1>1, <1>3, <1>4, <2>1, <2>2, <2>3
<1>7. QED
  BY <1>5, <1>6

LEMMA CommitOneWay ==
    ASSUME IndInv, NEW s \in Nodes, OneWayOK(s), Commit(s)
    PROVE  OneWayOK(s)'
<1>1. /\ journal' = journal /\ rows'[s] = rows[s]
      /\ \E q \in 0..Len(journal[s]) :
            applied'[s] = 1..q /\ rows'[Peer(s)] = Was(s, q)
  BY CommitMoves
<1>2. /\ pc'[s] = "save" /\ pc'[Peer(s)] = pc[Peer(s)] /\ failure' = failure
  BY NodesFacts DEF IndInv, TypeOK, Commit
<1>3. ~InTransaction(s)' /\ pc'[s] # "write"
  BY <1>2 DEF InTransaction
<1>4. SourceOK(s)' /\ NothingBack(s)'
  BY <1>1, <1>2 DEF OneWayOK, SourceOK, NothingBack, Was
<1>5. DestinationOK(s)'
  BY <1>1, <1>3 DEF DestinationOK, Was
<1>6. QED
  BY <1>2, <1>3, <1>4, <1>5 DEF OneWayOK

LEMMA LoopStepOneWay ==
    ASSUME IndInv, NEW s \in Nodes, OneWayOK(s), Loop(s) \/ Crash(s)
    PROVE  OneWayOK(s)'
<1>1. CASE Poll(s) \/ SaveCursor(s) \/ Retry(s) \/ Crash(s)
  <2>1. /\ UNCHANGED <<rows, journal, applied>>
        /\ pc'[Peer(s)] = pc[Peer(s)] /\ pc'[s] \in {"poll", "begin"}
        /\ failure'[s] = "none"
    <3>1. CASE Poll(s)
      <4>1. pc' = [pc EXCEPT ![s] = "begin"] /\ UNCHANGED <<stores, failure>>
        BY <3>1 DEF Poll
      <4>2. pc \in [Nodes -> Steps] /\ Peer(s) # s /\ failure[s] = "none"
        BY NodesFacts DEF IndInv, TypeOK, OneWayOK
      <4>3. QED
        BY <4>1, <4>2 DEF stores
    <3>2. CASE SaveCursor(s) \/ Retry(s) \/ Crash(s)
      <4>1. ForgetBatch(s) /\ UNCHANGED stores
        BY <3>2 DEF SaveCursor, Retry, Crash
      <4>2. /\ pc \in [Nodes -> Steps] /\ failure \in [Nodes -> Failures] /\ Peer(s) # s
            /\ Peer(s) \in Nodes
        BY NodesFacts DEF IndInv, TypeOK
      <4>3. QED
        BY <4>1, <4>2 DEF ForgetBatch, stores
    <3>3. QED
      BY <1>1, <3>1, <3>2
  <2>2. ~InTransaction(s)'
    BY <2>1 DEF InTransaction
  <2>3. QED
    BY <2>1, <2>2, ClosedOneWay
<1>2. CASE ApplyChanges(s)
  BY <1>2, BeginOneWay, SkipAppliedOneWay, PassCheckOneWay, WriteChangeOneWay,
     CommitOneWay, NoFailureOneWay DEF ApplyChanges
<1>3. QED
  BY <1>1, <1>2 DEF Loop

LEMMA NextOneWay == IndInv /\ OneWayInv /\ [Next]_vars => OneWayInv'
<1> SUFFICES ASSUME IndInv, OneWayInv, [Next]_vars,
                    NEW s \in Nodes, Peer(s) \notin AppNodes
             PROVE  OneWayOK(s)'
  BY DEF OneWayInv
<1>1. OneWayOK(s) /\ Peer(s) \in Nodes /\ \A n \in Nodes : n = s \/ n = Peer(s)
  BY NodesFacts DEF OneWayInv, Nodes, Peer
<1>2. ~Loop(Peer(s)) /\ ~Crash(Peer(s)) /\ ~AppWrite(Peer(s))
  BY <1>1, NothingTravelsBack DEF OneWayOK, NothingBack, AppWrite
<1>3. CASE AppWrite(s)
  BY <1>1, <1>3, AppWriteOneWay
<1>4. CASE Loop(s) \/ Crash(s)
  BY <1>1, <1>4, LoopStepOneWay
<1>5. CASE UNCHANGED vars
  BY <1>1, <1>5 DEF vars, OneWayOK, NothingBack, SourceOK, DestinationOK, InTransaction,
                    View, WasApplied, Was
<1>6. QED
  BY <1>1, <1>2, <1>3, <1>4, <1>5 DEF Next

-----------------------------------------------------------------------------
(* The theorems.                                                           *)

\* The source holds what its journal retells, the destination what the source
\* held after the changes applied, and an open transaction sees the table the
\* change at hand was captured on.
THEOREM OneWayInductive == Spec => []OneWayInv
<1>1. Spec => []IndInv
  BY Inductive
<1>2. QED
  BY <1>1, InitOneWay, NextOneWay, PTL DEF Spec

\* applyChanges returns no error when nothing but the loop writes its
\* destination, whatever is redelivered, retried or cut by a crash.
THEOREM OneWayStreamNeverFails == Spec => []OneWayNeverFails
<1>1. OneWayInv => OneWayNeverFails
  BY DEF OneWayInv, OneWayOK, OneWayNeverFails
<1>2. QED
  BY <1>1, OneWayInductive, PTL

-----------------------------------------------------------------------------
(* The destination is a delayed replica of the source.                     *)

\* A history grows by the tables it leads to.
LEMMA HistoryFacts ==
    /\ \A j \in Seq(Changes) :
          /\ Len(j) \in Nat /\ Len(History(j)) = Len(j) + 1
          /\ \A q \in 0..Len(j) : History(j)[q + 1] = Replay(EmptyTable, j)[q]
    /\ \A j \in Seq(Changes), c \in Changes :
          Replay(EmptyTable, j)[Len(j)] \in Tables =>
             \E t \in Tables : History(Append(j, c)) = Append(History(j), t)
<1>1. ASSUME NEW j \in Seq(Changes)
      PROVE  /\ Len(j) \in Nat /\ Len(History(j)) = Len(j) + 1
             /\ \A q \in 0..Len(j) : History(j)[q + 1] = Replay(EmptyTable, j)[q]
  <2>1. PICK n \in Nat : n = Len(j)
    OBVIOUS
  <2>2. History(j) = [i \in 1 .. n + 1 |-> Replay(EmptyTable, j)[i - 1]]
    BY <2>1 DEF History
  <2>3. Len(History(j)) = n + 1
    BY <2>2
  <2>4. ASSUME NEW q \in 0..n PROVE History(j)[q + 1] = Replay(EmptyTable, j)[q]
    <3>1. q + 1 \in 1 .. n + 1 /\ q + 1 - 1 = q
      OBVIOUS
    <3>2. QED
      BY <2>2, <3>1
  <2>5. QED
    BY <2>1, <2>3, <2>4
<1>2. ASSUME NEW j \in Seq(Changes), NEW c \in Changes,
             Replay(EmptyTable, j)[Len(j)] \in Tables
      PROVE  \E t \in Tables : History(Append(j, c)) = Append(History(j), t)
  <2>1. PICK n \in Nat : n = Len(j)
    OBVIOUS
  <2>2. PICK t : t = Written(Replay(EmptyTable, j)[n], c)
    OBVIOUS
  <2>3. t \in Tables
    BY <1>2, <2>1, <2>2, WrittenTable
  <2>4. /\ Append(j, c) \in Seq(Changes) /\ Len(Append(j, c)) = n + 1
        /\ \A q \in 0..n : Replay(EmptyTable, Append(j, c))[q] = Replay(EmptyTable, j)[q]
        /\ Replay(EmptyTable, Append(j, c))[n + 1] = t
    BY <2>1, <2>2, EmptyTableType, ReplayAppend
  <2>5. History(Append(j, c)) =
           [i \in 1 .. n + 2 |-> Replay(EmptyTable, Append(j, c))[i - 1]]
    BY <2>4 DEF History
  <2>6. ASSUME NEW i \in 1 .. n + 2
        PROVE  Replay(EmptyTable, Append(j, c))[i - 1]
                  = IF i = n + 2 THEN t ELSE Replay(EmptyTable, j)[i - 1]
    <3>1. CASE i = n + 2
      <4>1. i - 1 = n + 1
        BY <3>1
      <4>2. QED
        BY <2>4, <3>1, <4>1
    <3>2. CASE i # n + 2
      <4>1. i - 1 \in 0..n
        BY <3>2
      <4>2. QED
        BY <2>4, <3>2, <4>1
    <3>3. QED
      BY <3>1, <3>2
  <2>7. History(j) = [i \in 1 .. n + 1 |-> Replay(EmptyTable, j)[i - 1]]
    BY <2>1 DEF History
  <2>8. Append(History(j), t) = [i \in 1 .. n + 2 |->
           IF i = n + 2 THEN t ELSE Replay(EmptyTable, j)[i - 1]]
    BY <2>7
  <2>9. QED
    BY <2>3, <2>5, <2>6, <2>8
<1>3. QED
  BY <1>1, <1>2

\* Outside the application's writes and the commits nothing is stored.
LEMMA StoringSteps ==
    ASSUME IndInv, OneWayInv, NodeB \notin AppNodes, [Next]_vars
    PROVE  AppWrite(NodeA) \/ Commit(NodeA) \/ UNCHANGED <<rows, journal, applied>>
<1>1. /\ NodeA \in Nodes /\ NodeB \in Nodes /\ Peer(NodeA) = NodeB
      /\ \A n \in Nodes : n = NodeA \/ n = NodeB
  BY DEF Nodes, Peer
<1>2. ~Loop(NodeB) /\ ~Crash(NodeB) /\ ~AppWrite(NodeB)
  BY <1>1, NothingTravelsBack DEF OneWayInv, OneWayOK, NothingBack, AppWrite
<1>3. CASE Loop(NodeA)
  <2>1. CASE Poll(NodeA) \/ SaveCursor(NodeA) \/ Retry(NodeA)
    BY <2>1 DEF Poll, SaveCursor, Retry, stores
  <2>2. CASE ApplyChanges(NodeA) /\ ~Commit(NodeA)
    BY <2>2 DEF ApplyChanges, Begin, SkipApplied, DetectConflict, PassCheck,
                WriteChange, WriteFails, Abort, stores
  <2>3. QED
    BY <1>3, <2>1, <2>2 DEF Loop
<1>4. CASE Crash(NodeA)
  BY <1>4 DEF Crash, stores
<1>5. CASE UNCHANGED vars
  BY <1>5 DEF vars
<1>6. QED
  BY <1>1, <1>2, <1>3, <1>4, <1>5 DEF Next

\* Every step of the replication moves the source, advances the replica or
\* changes neither.
LEMMA ReplicaStep ==
    ASSUME IndInv, OneWayInv, NodeB \notin AppNodes, [Next]_vars
    PROVE  [Delayed!Next]_<<History(journal[NodeA]), Cardinality(applied[NodeA]) + 1,
                             rows[NodeB]>>
<1>1. /\ NodeA \in Nodes /\ NodeB \in Nodes /\ Peer(NodeA) = NodeB /\ NodeB # NodeA
  BY NodesAssumption DEF Nodes, Peer
<1>2. /\ TypeOK /\ OneWayOK(NodeA)
      /\ rows \in [Nodes -> [Keys -> Images]] /\ journal \in [Nodes -> Seq(Changes)]
  BY <1>1 DEF IndInv, OneWayInv, TypeOK
<1>3. CASE AppWrite(NodeA)
  <2>1. PICK c \in LocalChanges(rows[NodeA]) :
          /\ rows' = [rows EXCEPT ![NodeA] = Written(rows[NodeA], c)]
          /\ journal' = IF TriggerFires(SessionSuppress(NodeA))
                        THEN [journal EXCEPT ![NodeA] = Append(journal[NodeA], c)]
                        ELSE journal
    BY <1>3 DEF AppWrite
  <2>2. c \in Changes
    BY <1>1, <1>2, LocalChangesType
  <2>3. TriggerFires(SessionSuppress(NodeA))
    BY <1>1 DEF TriggerFires, SessionSuppress, SuppressionOK, IndInv
  <2>4. journal'[NodeA] = Append(journal[NodeA], c)
    BY <1>1, <1>2, <2>1, <2>3
  <2>5. Replay(EmptyTable, journal[NodeA])[Len(journal[NodeA])] \in Tables
    BY <1>1, <1>2, WasFacts DEF Was
  <2>6. \E t \in Tables : History(Append(journal[NodeA], c)) = Append(History(journal[NodeA]), t)
    BY <1>1, <1>2, <2>2, <2>5, HistoryFacts
  <2>7. History(journal[NodeA])' = History(Append(journal[NodeA], c))
    BY <2>4 DEF History
  <2>8. UNCHANGED <<Cardinality(applied[NodeA]) + 1, rows[NodeB]>>
    BY <1>1, <1>2, <1>3, <2>1 DEF AppWrite
  <2>9. QED
    BY <2>6, <2>7, <2>8 DEF Delayed!Next, Delayed!SourceMoves
<1>4. CASE Commit(NodeA)
  <2>1. PICK m \in 0..Len(journal[NodeA]) : \E q \in 0..Len(journal[NodeA]) :
          /\ m <= q
          /\ applied[NodeA] = 1..m /\ rows[NodeB] = Was(NodeA, m)
          /\ applied'[NodeA] = 1..q /\ rows'[NodeB] = Was(NodeA, q)
    BY <1>1, <1>2, <1>4, CommitMoves
  <2>2. PICK q \in 0..Len(journal[NodeA]) :
          /\ m <= q
          /\ applied[NodeA] = 1..m /\ rows[NodeB] = Was(NodeA, m)
          /\ applied'[NodeA] = 1..q /\ rows'[NodeB] = Was(NodeA, q)
    BY <2>1
  <2>3. /\ m \in Nat /\ q \in Nat /\ Len(journal[NodeA]) \in Nat
        /\ q <= Len(journal[NodeA]) /\ journal[NodeA] \in Seq(Changes)
    BY <1>1, <1>2, WasFacts
  <2>4. Cardinality(applied[NodeA]) = m /\ Cardinality(applied'[NodeA]) = q
    <3>1. ASSUME NEW n \in Nat PROVE Cardinality(1..n) = n
      <4>1. Cardinality(1..n) = IF 1 > n THEN 0 ELSE n - 1 + 1
        BY FS_Interval
      <4>2. QED
        BY <4>1
    <3>2. QED
      BY <2>2, <2>3, <3>1
  <2>5. /\ Len(History(journal[NodeA])) = Len(journal[NodeA]) + 1
        /\ History(journal[NodeA])[q + 1] = rows'[NodeB]
    BY <2>2, <2>3, HistoryFacts DEF Was
  <2>6. History(journal[NodeA])' = History(journal[NodeA])
    BY <1>1, <1>2, <1>4, CommitMoves DEF History
  <2>7. CASE m = q
    BY <2>2, <2>4, <2>6, <2>7
  <2>8. CASE m # q
    <3>1. q + 1 \in (m + 1) + 1 .. Len(History(journal[NodeA]))
      BY <2>2, <2>3, <2>5, <2>8
    <3>2. QED
      BY <2>4, <2>5, <2>6, <3>1 DEF Delayed!Next, Delayed!ReplicaAdvances
  <2>9. QED
    BY <2>7, <2>8
<1>5. CASE UNCHANGED <<rows, journal, applied>>
  BY <1>5 DEF History
<1>6. QED
  BY <1>3, <1>4, <1>5, StoringSteps

LEMMA ReplicaInit ==
    ASSUME Init
    PROVE  Delayed!Init
<1>1. NodeA \in Nodes /\ NodeB \in Nodes /\ <<>> \in Seq(Changes)
  BY DEF Nodes
<1>2. journal[NodeA] = <<>> /\ applied[NodeA] = {} /\ rows[NodeB] = EmptyTable
  BY <1>1 DEF Init
<1>3. Cardinality(applied[NodeA]) + 1 = 1
  BY <1>2, FS_EmptySet
<1>4. History(<<>>) = <<EmptyTable>>
  <2>1. Replay(EmptyTable, <<>>)[0] = EmptyTable
    BY <1>1, EmptyTableType, ReplayFacts
  <2>2. History(<<>>) = [i \in 1..1 |-> Replay(EmptyTable, <<>>)[i - 1]]
    BY DEF History
  <2>3. \A i \in 1..1 : i = 1 /\ i - 1 = 0
    OBVIOUS
  <2>4. History(<<>>) = [i \in 1..1 |-> EmptyTable]
    BY <2>1, <2>2, <2>3
  <2>5. QED
    BY <2>4
<1>5. QED
  BY <1>2, <1>3, <1>4 DEF Delayed!Init

\* Replication into a store whose application does not write implements the
\* delayed replica: at every moment the destination holds what the source held
\* after some prefix of its journal, and it never goes back.
THEOREM ImplementsDelayedReplica ==
    NodeB \notin AppNodes => (Spec => IsDelayedReplica)
<1> SUFFICES ASSUME NodeB \notin AppNodes PROVE Spec => IsDelayedReplica
  OBVIOUS
<1>1. IndInv /\ OneWayInv /\ [Next]_vars =>
         [Delayed!Next]_<<History(journal[NodeA]), Cardinality(applied[NodeA]) + 1,
                           rows[NodeB]>>
  BY ReplicaStep
<1>2. QED
  BY <1>1, ReplicaInit, Inductive, OneWayInductive, PTL
     DEF Spec, IsDelayedReplica, Delayed!Spec

=============================================================================
