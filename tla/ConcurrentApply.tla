--------------------------- MODULE ConcurrentApply ---------------------------
(***************************************************************************)
(* Several workers call ApplyChanges on one PostgreSQL destination at the  *)
(* same time, for one stream or for several: compat/replicate.go at the    *)
(* grain of its SQL statements, under READ COMMITTED.                      *)
(*                                                                         *)
(* Nothing in the code serialises two calls.  What keeps a change from     *)
(* being applied twice is the primary key of __compat_applied_changes:     *)
(* the engine's row locks and unique indexes decide who waits and who      *)
(* fails.  A worker that fails rolls back and starts again from the        *)
(* persisted cursor of the stream, which the workers share.                *)
(***************************************************************************)
EXTENDS ChangeStream, SequencesExt

CONSTANTS
    Workers,        \* database sessions that run the replication loop
    Streams,        \* the sources
    KeysOf,         \* [Streams -> SUBSET Keys]: the rows a source owns
    Identity,       \* [Streams]: engine and version of the source
    Base,           \* the rows both sides hold before the first change
    BatchLimit,     \* the limit given to ReadCapturedChanges
    MaxChanges,     \* bound: changes all sources together capture
    MaxCrashes      \* bound: workers that die

\* The deduplication key holds no other mark of a source than its target.
ASSUME DistinctIdentities ==
    \A s, t \in Streams : s # t => Identity[s] # Identity[t]

ASSUME BaseAssumption == Base \in Tables

ASSUME StreamsAssumption == Streams # {} /\ KeysOf \in [Streams -> SUBSET Keys]

ASSUME BoundsAssumption ==
    BatchLimit \in Nat \ {0} /\ MaxChanges \in Nat /\ MaxCrashes \in Nat

ASSUME SeparateKeys ==
    \A s, t \in Streams : s # t => KeysOf[s] \cap KeysOf[t] = {}

VARIABLES
    journal,    \* [s]: the changes the source has captured
    rows,       \* the committed rows of the destination
    applied,    \* the committed keys of __compat_applied_changes
    cursor,     \* [s]: the persisted cursor
    tx,         \* [w]: the call a worker has under way
    crashes

vars == <<journal, rows, applied, cursor, tx, crashes>>

\* The table a sequence of changes builds.
TableAfter(changes) == Replay(Base, changes)[Len(changes)]

\* What a statement on the rows of source s can add to its journal g, the
\* updates that change nothing included.
NextEntries(s, g) ==
    {c \in LocalChanges(TableAfter(g)) :
        /\ TouchedKeys(c) \subseteq KeysOf[s]
        /\ KeyIsFree(TableAfter(g), c)}

\* A journal of source s with one more entry.
Extensions(s, g) == {Append(g, c) : c \in NextEntries(s, g)}

\* The journals a source can have.
Histories == [s \in Streams |->
    LET h[n \in 0..MaxChanges] ==
            IF n = 0 THEN {<<>>} ELSE UNION {Extensions(s, g) : g \in h[n - 1]}
    IN UNION {h[n] : n \in 0..MaxChanges}]

\* The changes all sources together capture.
TotalLength(journals) == FoldFunction(LAMBDA h, n : Len(h) + n, 0, journals)

\* Faulty: the key of a mark leaves the source out.
Mark_SequenceOnly(s, n) == <<n>>

\* The primary key of __compat_applied_changes.
Mark(s, n) == <<Identity[s], n>>

\* The marks of the changes the sources have captured.
AllMarks == UNION {{Mark(s, n) : n \in DOMAIN journal[s]} : s \in Streams}

\* Where a call is: between calls, before the lookup of a change, before the
\* comparison, before the write, before the mark, after the last change, and
\* between the commit and the persisted cursor.
Steps == {"idle", "lookup", "compare", "write", "mark", "commit", "save"}

Calls == [step : Steps, stream : Streams, next : Nat, upto : Nat,
          rows : [Keys -> Images], locked : SUBSET Keys, marked : SUBSET AllMarks]

NoCall(s) == [step |-> "idle", stream |-> s, next |-> 0, upto |-> 0,
              rows |-> EmptyTable, locked |-> {}, marked |-> {}]

TypeOK ==
    /\ \A s \in Streams : journal[s] \in Seq(Changes)
    /\ rows \in [Keys -> Images]
    /\ applied \subseteq AllMarks
    /\ cursor \in [Streams -> Nat]
    /\ tx \in [Workers -> Calls]
    /\ crashes \in Nat

Init ==
    /\ journal \in [Streams -> UNION {Histories[s] : s \in Streams}]
    /\ \A s \in Streams : journal[s] \in Histories[s]
    /\ TotalLength(journal) = MaxChanges
    /\ rows = Base
    /\ applied = {}
    /\ cursor = [s \in Streams |-> 0]
    /\ tx = [w \in Workers |-> NoCall(CHOOSE s \in Streams : TRUE)]
    /\ crashes = 0

-----------------------------------------------------------------------------
(* What a session sees and what it waits for.                              *)

\* A statement sees what is committed when it starts and the session's writes.
View(w) == [k \in Keys |-> IF k \in tx[w].locked THEN tx[w].rows[k] ELSE rows[k]]

Change(w) == journal[tx[w].stream][tx[w].next]

\* Faulty: the mark of the next change.
CurrentMark_Next(w) == Mark(tx[w].stream, tx[w].next + 1)

CurrentMark(w) == Mark(tx[w].stream, tx[w].next)

\* v holds the row lock or the pending index entry the statement of w needs.
WaitsFor(w, v) ==
    /\ v # w
    /\ \/ tx[w].step = "write" /\ TouchedKeys(Change(w)) \cap tx[v].locked # {}
       \/ tx[w].step = "mark" /\ CurrentMark(w) \in tx[v].marked

Runs(w, step) == tx[w].step = step /\ ~\E v \in Workers : WaitsFor(w, v)

\* The step after a change, in a batch that ends at upto.
StepAt(n, upto) == IF n > upto THEN "commit" ELSE "lookup"

\* Faulty: the caller persists its cursor whatever the call returned.
Rollback_SavesCursor(w) ==
    tx' = [tx EXCEPT ![w] = [NoCall(tx[w].stream) EXCEPT
                                !.step = "save", !.upto = tx[w].upto]]

\* The deferred Rollback: nothing of the call remains.
Rollback(w) == tx' = [tx EXCEPT ![w] = NoCall(tx[w].stream)]

-----------------------------------------------------------------------------
(* One round of the replication loop.                                      *)

\* ReadCapturedChanges after the persisted cursor, of as many changes as the
\* source has captured by then, and BeginTx.
Begin(w) ==
    /\ tx[w].step = "idle"
    /\ \E s \in Streams : \E upto \in DOMAIN journal[s] :
        /\ cursor[s] < upto /\ upto <= cursor[s] + BatchLimit
        /\ tx' = [tx EXCEPT ![w] = [NoCall(s) EXCEPT
                    !.step = "lookup", !.next = cursor[s] + 1, !.upto = upto]]
    /\ UNCHANGED <<journal, rows, applied, cursor, crashes>>

\* Faulty: the lookup does not see what other sessions have marked.
WasApplied_OwnOnly(w) == CurrentMark(w) \in tx[w].marked

\* changeWasApplied.
WasApplied(w) == CurrentMark(w) \in applied \cup tx[w].marked

Lookup(w) ==
    /\ Runs(w, "lookup")
    /\ LET n == tx[w].next
       IN tx' = IF WasApplied(w)
                THEN [tx EXCEPT ![w].next = n + 1,
                                ![w].step = StepAt(n + 1, tx[w].upto)]
                ELSE [tx EXCEPT ![w].step = "compare"]
    /\ UNCHANGED <<journal, rows, applied, cursor, crashes>>

\* loadRow and the comparison of an update or a delete: a statement of its
\* own, after the lookup and before the write.  A mismatch is a ConflictError.
Compare(w) ==
    /\ Runs(w, "compare")
    /\ IF Change(w).kind = "insert" \/ BeforeMatches(View(w), Change(w))
       THEN tx' = [tx EXCEPT ![w].step = "write"]
       ELSE Rollback(w)
    /\ UNCHANGED <<journal, rows, applied, cursor, crashes>>

\* The statement finds its row (requireOneAffected) and its key free.
Succeeds(w) ==
    /\ Change(w).kind # "insert" => Load(View(w), Change(w).key) # NoRow
    /\ KeyIsFree(View(w), Change(w))

\* insertRow, updateRow or deleteRow, once the locks it needs are free.  It
\* acts on the rows committed by then, not on those that were compared.
Write(w) ==
    /\ Runs(w, "write")
    /\ IF Succeeds(w)
       THEN tx' = [tx EXCEPT ![w].rows = Written(View(w), Change(w)),
                             ![w].locked = @ \cup TouchedKeys(Change(w)),
                             ![w].step = "mark"]
       ELSE Rollback(w)
    /\ UNCHANGED <<journal, rows, applied, cursor, crashes>>

\* Faulty: marking a change again is not an error.
MarkIsFree_Always(w) == TRUE

\* The unique index of __compat_applied_changes.
MarkIsFree(w) == CurrentMark(w) \notin applied \cup tx[w].marked

\* markChangeApplied.
MarkApplied(w) ==
    /\ Runs(w, "mark")
    /\ IF MarkIsFree(w)
       THEN LET n == tx[w].next
            IN tx' = [tx EXCEPT ![w].marked = @ \cup {CurrentMark(w)},
                                ![w].next = n + 1,
                                ![w].step = StepAt(n + 1, tx[w].upto)]
       ELSE Rollback(w)
    /\ UNCHANGED <<journal, rows, applied, cursor, crashes>>

Commit(w) ==
    /\ tx[w].step = "commit"
    /\ rows' = View(w)
    /\ applied' = applied \cup tx[w].marked
    /\ tx' = [tx EXCEPT ![w] = [NoCall(tx[w].stream) EXCEPT
                                    !.step = "save", !.upto = tx[w].upto]]
    /\ UNCHANGED <<journal, cursor, crashes>>

\* The caller persists the last sequence of its batch, whatever another
\* worker has persisted meanwhile.
SaveCursor(w) ==
    /\ tx[w].step = "save"
    /\ cursor' = [cursor EXCEPT ![tx[w].stream] = tx[w].upto]
    /\ tx' = [tx EXCEPT ![w] = NoCall(tx[w].stream)]
    /\ UNCHANGED <<journal, rows, applied, crashes>>

\* The worker dies: the server rolls its transaction back; after the commit
\* only the cursor is lost.
Crash(w) ==
    /\ crashes < MaxCrashes
    /\ tx[w].step # "idle"
    /\ Rollback(w)
    /\ crashes' = crashes + 1
    /\ UNCHANGED <<journal, rows, applied, cursor>>

Step(w) ==
    \/ Begin(w) \/ Lookup(w) \/ Compare(w) \/ Write(w) \/ MarkApplied(w)
    \/ Commit(w) \/ SaveCursor(w)

Next == \E w \in Workers : Step(w) \/ Crash(w)

Spec == Init /\ [][Next]_vars

\* The workers' loops keep running.
FairSpec == Spec /\ \A w \in Workers : WF_vars(Step(w))

AppliedSequences(s) == {n \in 1..Len(journal[s]) : Mark(s, n) \in applied}

\* What source s held after the first n changes of its journal.
After(s, n) == Replay(Base, journal[s])[n]

-----------------------------------------------------------------------------
(* Why the properties hold: an inductive invariant.                        *)

\* The changes marked for a source are a prefix of its journal, the rows it
\* owns are what that prefix built, and its cursor lies within it.
HistoryOK(s) ==
    /\ \A n \in 1..Len(journal[s]) : TouchedKeys(journal[s][n]) \subseteq KeysOf[s]
    /\ \E m \in 0..Len(journal[s]) :
        /\ AppliedSequences(s) = 1..m
        /\ \A k \in KeysOf[s] : rows[k] = After(s, m)[k]
    /\ 1..cursor[s] \subseteq AppliedSequences(s)

InTransaction(w) == tx[w].step \notin {"idle", "save"}

\* Worker w has the mark of the i-th change of its stream uncommitted.
Marks(w, i) == Mark(tx[w].stream, i) \in tx[w].marked

\* A batch lies in the journal; every change before the one at hand is applied
\* or marked by the call itself, and a call marks nothing that is applied.
CallOK(w) ==
    LET s == tx[w].stream
        n == tx[w].next
    IN  /\ InTransaction(w) =>
            /\ tx[w].upto <= Len(journal[s])
            /\ n \in 1..tx[w].upto + 1
            /\ tx[w].step # "commit" => n <= tx[w].upto
            /\ tx[w].step = "commit" => n = tx[w].upto + 1
            /\ tx[w].marked \subseteq {Mark(s, i) : i \in 1..n - 1}
            /\ \A i \in 1..n - 1 : i \in AppliedSequences(s) \/ Marks(w, i)
            /\ tx[w].marked \cap applied = {}
        /\ ~InTransaction(w) => tx[w].marked = {} /\ tx[w].locked = {}
        /\ tx[w].step = "save" => 1..tx[w].upto \subseteq AppliedSequences(s)

\* A call holds the row locks of what it has written, and only those of rows
\* of its source.
LocksOK(w) ==
    LET s == tx[w].stream
    IN  /\ tx[w].locked \subseteq KeysOf[s]
        /\ \A i \in 1..Len(journal[s]) :
               Marks(w, i) \/ (tx[w].step = "mark" /\ i = tx[w].next)
                   => TouchedKeys(journal[s][i]) \subseteq tx[w].locked
        /\ tx[w].step # "mark" /\ tx[w].marked = {} => tx[w].locked = {}

\* Once it has written, a call sees the rows of its source as they were after
\* its last change, unless the change it is about to mark is already marked.
RowsOK(w) ==
    LET s == tx[w].stream
        n == tx[w].next
        Sees(m) == \A k \in KeysOf[s] : View(w)[k] = After(s, m)[k]
    IN  /\ tx[w].step # "mark" /\ tx[w].marked # {} => Sees(n - 1)
        /\ tx[w].step = "mark" /\ Mark(s, n) \notin applied => Sees(n)

\* Two calls hold no lock and no mark in common.
Apart(w, v) ==
    /\ tx[w].locked \cap tx[v].locked = {}
    /\ tx[w].marked \cap tx[v].marked = {}

IndInv ==
    /\ TypeOK
    /\ \A s \in Streams : HistoryOK(s)
    /\ \A w \in Workers : CallOK(w) /\ LocksOK(w) /\ RowsOK(w)
    /\ \A w, v \in Workers : w # v => Apart(w, v)

-----------------------------------------------------------------------------
(* Properties.                                                             *)

\* The rows a source owns are exactly what the changes marked for it built:
\* no change is applied twice or out of turn, and none is marked without its
\* effect, whichever workers race for the same batch (replicate.go:85-103).
AppliedIsHistory ==
    \A s \in Streams :
        LET n == Cardinality(AppliedSequences(s))
        IN /\ AppliedSequences(s) = 1..n
           /\ \A k \in KeysOf[s] : rows[k] = After(s, n)[k]

\* A persisted cursor never passes a change that is not applied, even when a
\* slower worker overwrites it (OPERATIONS.md: only after ApplyChanges).
CursorIsCovered ==
    \A s \in Streams : 1..cursor[s] \subseteq AppliedSequences(s)

\* Workers never wait for one another in a circle, although each takes its row
\* locks one change at a time: in any set of them one waits for none of the
\* others.  A batch is applied in the order of its sequences, and a worker that
\* lags is stopped at its first mark (replicate.go:85,100).
NoDeadlock ==
    \A waiting \in SUBSET Workers :
        waiting # {} => \E w \in waiting : \A v \in waiting : ~WaitsFor(w, v)

\* Whatever the collisions and crashes, every captured change is
\* applied in the end and every cursor reaches the end of its journal.
EventuallyDrained ==
    <>[](\A s \in Streams :
            AppliedSequences(s) = DOMAIN journal[s] /\ cursor[s] = Len(journal[s]))

=============================================================================
