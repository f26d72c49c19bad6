------------------------ MODULE ConcurrentApplyProofs ------------------------
(***************************************************************************)
(* Concurrent appliers are safe for any number of workers, sources and     *)
(* rows, any batch limit and any journals: IndInv is inductive.            *)
(***************************************************************************)
EXTENDS ConcurrentApply, ChangeStreamProofs, FiniteSetTheorems

-----------------------------------------------------------------------------
(* The journals the sources start with.                                    *)

\* A table a source passes through is a table.
LEMMA TableAfterType ==
    ASSUME NEW g \in Seq(Changes)
    PROVE  TableAfter(g) \in [Keys -> Images]
<1>1. Base \in [Keys -> Images]
  BY BaseAssumption DEF Tables
<1>2. Len(g) \in 0..Len(g)
  OBVIOUS
<1>3. QED
  BY <1>1, <1>2, ReplayFacts DEF TableAfter

\* The journals whose entries touch only rows of the source.
OwnJournals(s) ==
    {g \in Seq(Changes) : \A n \in 1..Len(g) : TouchedKeys(g[n]) \subseteq KeysOf[s]}

LEMMA ExtensionsType ==
    ASSUME NEW s \in Streams, NEW g \in OwnJournals(s)
    PROVE  Extensions(s, g) \subseteq OwnJournals(s)
<1>1. g \in Seq(Changes) /\ \A n \in 1..Len(g) : TouchedKeys(g[n]) \subseteq KeysOf[s]
  BY DEF OwnJournals
<1>2. ASSUME NEW c \in NextEntries(s, g) PROVE Append(g, c) \in OwnJournals(s)
  <2>1. c \in LocalChanges(TableAfter(g)) /\ TouchedKeys(c) \subseteq KeysOf[s]
    BY DEF NextEntries
  <2>2. c \in Changes
    BY <1>1, <2>1, TableAfterType, LocalChangesType
  <2>3. /\ Append(g, c) \in Seq(Changes) /\ Len(Append(g, c)) = Len(g) + 1
        /\ \A n \in 1..Len(g) + 1 : Append(g, c)[n] = IF n <= Len(g) THEN g[n] ELSE c
    BY <1>1, <2>2
  <2>4. ASSUME NEW n \in 1..Len(g) + 1 PROVE TouchedKeys(Append(g, c)[n]) \subseteq KeysOf[s]
    <3>1. CASE n <= Len(g)
      BY <1>1, <2>3, <3>1
    <3>2. CASE ~(n <= Len(g))
      BY <2>1, <2>3, <3>2
    <3>3. QED
      BY <3>1, <3>2
  <2>5. QED
    BY <2>3, <2>4 DEF OwnJournals
<1>3. QED
  BY <1>2 DEF Extensions

\* The sets of journals of each length exist.
LEMMA HistoriesExist ==
    ASSUME NEW s \in Streams
    PROVE  \E h \in [0..MaxChanges -> SUBSET OwnJournals(s)] :
              /\ h[0] = {<<>>}
              /\ \A n \in 1..MaxChanges : h[n] = UNION {Extensions(s, g) : g \in h[n - 1]}
<1> DEFINE T == SUBSET OwnJournals(s)
           More(H) == UNION {Extensions(s, g) : g \in H}
           step == [n \in 1..MaxChanges |-> [H \in T |-> More(H)]]
<1>1. {<<>>} \in T
  BY DEF OwnJournals
<1>2. step \in [1..MaxChanges -> [T -> T]]
  <2>1. ASSUME NEW H \in T PROVE More(H) \in T
    BY ExtensionsType
  <2> HIDE DEF More
  <2>2. QED
    BY <2>1
<1>3. MaxChanges \in Nat
  BY BoundsAssumption
<1>4. PICK h \in [0..MaxChanges -> T] :
          h[0] = {<<>>} /\ \A n \in 1..MaxChanges : h[n] = step[n][h[n - 1]]
  <2> HIDE DEF T, step
  <2>1. QED
    BY <1>1, <1>2, <1>3, RecursionExists
<1>5. ASSUME NEW n \in 1..MaxChanges PROVE h[n] = More(h[n - 1])
  <2>1. h[n - 1] \in T
    BY <1>3
  <2>2. h[n] = step[n][h[n - 1]]
    BY <1>4
  <2> HIDE DEF More
  <2>3. QED
    BY <2>1, <2>2
<1>6. QED
  BY <1>4, <1>5

\* Every history is a journal of changes of the source's own rows.
LEMMA HistoriesType ==
    ASSUME NEW s \in Streams, NEW g \in Histories[s]
    PROVE  g \in OwnJournals(s)
<1> DEFINE Equation(h) ==
        [n \in 0..MaxChanges |->
            IF n = 0 THEN {<<>>} ELSE UNION {Extensions(s, j) : j \in h[n - 1]}]
<1>1. PICK f \in [0..MaxChanges -> SUBSET OwnJournals(s)] :
          /\ f[0] = {<<>>}
          /\ \A n \in 1..MaxChanges : f[n] = UNION {Extensions(s, j) : j \in f[n - 1]}
  BY HistoriesExist
<1>2. f = Equation(f)
  <2>1. MaxChanges \in Nat
    BY BoundsAssumption
  <2>2. ASSUME NEW n \in 0..MaxChanges
        PROVE  f[n] = IF n = 0 THEN {<<>>} ELSE UNION {Extensions(s, j) : j \in f[n - 1]}
    <3>1. CASE n = 0
      BY <1>1, <3>1
    <3>2. CASE n # 0
      <4>1. n \in 1..MaxChanges
        BY <2>1, <3>2
      <4>2. QED
        BY <1>1, <3>2, <4>1
    <3>3. QED
      BY <3>1, <3>2
  <2>3. QED
    BY <2>2
<1> DEFINE h == CHOOSE q : q = Equation(q)
<1>3. h = Equation(h)
  <2> HIDE DEF Equation
  <2>1. QED
    BY <1>2
<1>4. Histories[s] = UNION {h[n] : n \in 0..MaxChanges}
  BY DEF Histories
<1>5. h[0] = {<<>>} /\ \A n \in 1..MaxChanges : h[n] = UNION {Extensions(s, j) : j \in h[n - 1]}
  <2> HIDE DEF h
  <2>1. \A n \in 0..MaxChanges :
            h[n] = IF n = 0 THEN {<<>>} ELSE UNION {Extensions(s, j) : j \in h[n - 1]}
    BY <1>3
  <2>2. MaxChanges \in Nat
    BY BoundsAssumption
  <2>3. 0 \in 0..MaxChanges /\ \A n \in 1..MaxChanges : n \in 0..MaxChanges /\ n # 0
    BY <2>2
  <2>4. QED
    BY <2>1, <2>3
<1> HIDE DEF h
<1> DEFINE S == {n \in Nat : n <= MaxChanges => h[n] \subseteq OwnJournals(s)}
<1>6. 0 \in S
  <2>1. <<>> \in OwnJournals(s)
    BY DEF OwnJournals
  <2>2. QED
    BY <1>5, <2>1
<1>7. ASSUME NEW n \in Nat, n \in S PROVE n + 1 \in S
  <2>1. SUFFICES ASSUME n + 1 <= MaxChanges PROVE h[n + 1] \subseteq OwnJournals(s)
    OBVIOUS
  <2>2. h[n] \subseteq OwnJournals(s) /\ n + 1 \in 1..MaxChanges /\ (n + 1) - 1 = n
    BY <1>7, <2>1, BoundsAssumption
  <2>3. h[n + 1] = UNION {Extensions(s, j) : j \in h[n]}
    BY <1>5, <2>2
  <2>4. QED
    BY <2>2, <2>3, ExtensionsType
<1>8. \A n \in 0..MaxChanges : h[n] \subseteq OwnJournals(s)
  <2>1. Nat \subseteq S
    <3> HIDE DEF S
    <3>1. QED
      BY <1>6, <1>7, SetInduction
  <2>2. QED
    BY <2>1, BoundsAssumption
<1>9. QED
  BY <1>4, <1>8

-----------------------------------------------------------------------------
(* What the invariant says of one call.                                    *)

\* A mark names its source and its sequence.
LEMMA MarkNames ==
    ASSUME NEW s \in Streams, NEW t \in Streams, NEW m, NEW n
    PROVE  Mark(s, m) = Mark(t, n) <=> s = t /\ m = n
BY DistinctIdentities DEF Mark

\* The fields of a call.
LEMMA CallFields ==
    ASSUME TypeOK, NEW w \in Workers
    PROVE  /\ tx[w].step \in Steps /\ tx[w].stream \in Streams
           /\ tx[w].next \in Nat /\ tx[w].upto \in Nat
           /\ tx[w].rows \in [Keys -> Images] /\ tx[w].locked \subseteq Keys
           /\ tx[w].marked \subseteq AllMarks
BY DEF TypeOK, Calls

\* The tables of a source, each from the one before.
LEMMA AfterFacts ==
    ASSUME TypeOK, NEW s \in Streams
    PROVE  /\ journal[s] \in Seq(Changes) /\ Len(journal[s]) \in Nat
           /\ \A n \in 1..Len(journal[s]) : journal[s][n] \in Changes
           /\ \A n \in 0..Len(journal[s]) : After(s, n) \in [Keys -> Images]
           /\ After(s, 0) = Base
           /\ \A n \in 1..Len(journal[s]) :
                 After(s, n) = Written(After(s, n - 1), journal[s][n])
<1>1. journal[s] \in Seq(Changes)
  BY DEF TypeOK
<1>2. Base \in [Keys -> Images]
  BY BaseAssumption DEF Tables
<1>3. QED
  BY <1>1, <1>2, ReplayFacts DEF After

LEMMA ViewType ==
    ASSUME TypeOK, NEW w \in Workers
    PROVE  View(w) \in [Keys -> Images]
<1>1. rows \in [Keys -> Images] /\ tx[w].rows \in [Keys -> Images]
  BY CallFields DEF TypeOK
<1>2. QED
  BY <1>1 DEF View

\* The change a call is at is in the journal of its stream.
LEMMA ChangeFacts ==
    ASSUME TypeOK, NEW w \in Workers, CallOK(w), HistoryOK(tx[w].stream),
           tx[w].step \in {"lookup", "compare", "write", "mark"}
    PROVE  /\ tx[w].next \in 1..Len(journal[tx[w].stream])
           /\ Change(w) \in Changes
           /\ TouchedKeys(Change(w)) \subseteq KeysOf[tx[w].stream]
<1>1. /\ tx[w].stream \in Streams /\ tx[w].next \in Nat /\ tx[w].upto \in Nat
      /\ Len(journal[tx[w].stream]) \in Nat
  BY CallFields, AfterFacts
<1>2. tx[w].next \in 1..Len(journal[tx[w].stream])
  BY <1>1 DEF CallOK, InTransaction
<1>3. QED
  BY <1>1, <1>2, AfterFacts DEF Change, HistoryOK

\* A call is at a change of its batch or just after the last one.
LEMMA BatchInJournal ==
    ASSUME TypeOK, NEW w \in Workers, CallOK(w), InTransaction(w)
    PROVE  /\ Len(journal[tx[w].stream]) \in Nat
           /\ tx[w].next \in Nat \ {0} /\ tx[w].upto \in Nat
           /\ tx[w].next <= tx[w].upto + 1 /\ tx[w].upto <= Len(journal[tx[w].stream])
           /\ 1..tx[w].next - 1 \subseteq 1..Len(journal[tx[w].stream])
<1>1. tx[w].next \in Nat /\ tx[w].upto \in Nat /\ Len(journal[tx[w].stream]) \in Nat
  BY CallFields, AfterFacts
<1>2. tx[w].upto <= Len(journal[tx[w].stream]) /\ tx[w].next \in 1..tx[w].upto + 1
  BY DEF CallOK
<1>3. QED
  BY <1>1, <1>2

\* Of two calls for one stream at most one has marked changes.
LEMMA OneMarks ==
    ASSUME IndInv, NEW w \in Workers, NEW v \in Workers, w # v,
           tx[w].stream = tx[v].stream, tx[w].marked # {}
    PROVE  tx[v].marked = {}
<1> USE DEF IndInv
<1> DEFINE s == tx[w].stream
<1>1. /\ tx[w].next \in Nat /\ tx[v].next \in Nat /\ s \in Streams
      /\ tx[w].upto \in Nat /\ tx[v].upto \in Nat
  BY CallFields
<1>2. SUFFICES ASSUME tx[v].marked # {} PROVE FALSE
  OBVIOUS
<1>3. InTransaction(w) /\ InTransaction(v)
  BY <1>2 DEF CallOK
<1>4. PICK i \in 1..tx[w].next - 1 : Marks(w, i)
  BY <1>3 DEF CallOK, Marks
<1>5. PICK j \in 1..tx[v].next - 1 : Marks(v, j)
  BY <1>2, <1>3 DEF CallOK, Marks
<1>6. /\ i \in 1..Len(journal[s]) /\ j \in 1..Len(journal[s])
  <2>1. 1..tx[w].next - 1 \subseteq 1..Len(journal[s])
    BY <1>3, BatchInJournal
  <2>2. 1..tx[v].next - 1 \subseteq 1..Len(journal[s])
    BY <1>3, BatchInJournal
  <2>3. QED
    BY <1>4, <1>5, <2>1, <2>2
<1>7. /\ i \notin AppliedSequences(s) /\ ~Marks(v, i)
      /\ j \notin AppliedSequences(s) /\ ~Marks(w, j)
  BY <1>3, <1>4, <1>5 DEF CallOK, Marks, AppliedSequences, Apart
<1>8. ~(i <= tx[v].next - 1) /\ ~(j <= tx[w].next - 1)
  BY <1>1, <1>3, <1>4, <1>5, <1>7 DEF CallOK
<1>9. QED
  BY <1>1, <1>4, <1>5, <1>8

-----------------------------------------------------------------------------
(* The inductive invariant.                                                *)

LEMMA NoCallType ==
    ASSUME NEW s \in Streams
    PROVE  NoCall(s) \in Calls
BY DEF NoCall, Calls, Steps, EmptyTable, Images

LEMMA InitIndInv == Init => IndInv
<1> SUFFICES ASSUME Init PROVE IndInv
  OBVIOUS
<1>1. \A s \in Streams : journal[s] \in OwnJournals(s)
  BY HistoriesType DEF Init
<1>2. (CHOOSE s \in Streams : TRUE) \in Streams
  BY StreamsAssumption
<1>3. \A w \in Workers : \E s \in Streams : tx[w] = NoCall(s)
  BY <1>2 DEF Init
<1>4. TypeOK
  <2>1. \A s \in Streams : journal[s] \in Seq(Changes)
    BY <1>1 DEF OwnJournals
  <2>2. rows \in [Keys -> Images]
    BY BaseAssumption DEF Init, Tables
  <2>3. tx \in [Workers -> Calls]
    BY <1>2, NoCallType DEF Init
  <2>4. QED
    BY <2>1, <2>2, <2>3 DEF Init, TypeOK
<1>5. ASSUME NEW s \in Streams PROVE HistoryOK(s)
  <2>1. AppliedSequences(s) = {} /\ cursor[s] = 0
    BY DEF Init, AppliedSequences
  <2>2. /\ Len(journal[s]) \in Nat
        /\ \A n \in 1..Len(journal[s]) : TouchedKeys(journal[s][n]) \subseteq KeysOf[s]
    BY <1>1 DEF OwnJournals
  <2>3. rows = After(s, 0)
    BY <1>4, AfterFacts DEF Init
  <2>4. 0 \in 0..Len(journal[s]) /\ 1..0 = {}
    BY <2>2
  <2>5. QED
    BY <2>1, <2>2, <2>3, <2>4 DEF HistoryOK
<1>6. ASSUME NEW w \in Workers PROVE CallOK(w) /\ LocksOK(w) /\ RowsOK(w)
  <2>1. PICK s \in Streams : tx[w] = NoCall(s)
    BY <1>3
  <2>2. tx[w].step = "idle" /\ tx[w].marked = {} /\ tx[w].locked = {}
    BY <2>1 DEF NoCall
  <2>3. QED
    BY <2>2 DEF CallOK, LocksOK, RowsOK, InTransaction, Marks
<1>7. ASSUME NEW w \in Workers, NEW v \in Workers PROVE Apart(w, v)
  <2>1. PICK s \in Streams : tx[w] = NoCall(s)
    BY <1>3
  <2>2. tx[w].marked = {} /\ tx[w].locked = {}
    BY <2>1 DEF NoCall
  <2>3. QED
    BY <2>2 DEF Apart
<1>8. QED
  BY <1>4, <1>5, <1>6, <1>7 DEF IndInv

\* A call none of whose surroundings changes.
LEMMA CallSteady ==
    ASSUME IndInv, NEW v \in Workers, tx'[v] = tx[v],
           UNCHANGED <<journal, rows, applied>>
    PROVE  CallOK(v)' /\ LocksOK(v)' /\ RowsOK(v)'
<1>1. /\ CallOK(v) /\ LocksOK(v) /\ RowsOK(v) /\ tx[v].stream \in Streams
  BY CallFields DEF IndInv
<1>2. AppliedSequences(tx[v].stream)' = AppliedSequences(tx[v].stream)
  BY DEF AppliedSequences
<1>3. CallOK(v)'
  BY <1>1, <1>2 DEF CallOK, InTransaction, Marks
<1>4. LocksOK(v)'
  BY <1>1 DEF LocksOK, Marks
<1>5. RowsOK(v)'
  BY <1>1 DEF RowsOK, View, After
<1>6. QED
  BY <1>3, <1>4, <1>5

\* A step that changes one call only: what has to be shown of it.
LEMMA OneCallMoves ==
    ASSUME IndInv, NEW w \in Workers,
           UNCHANGED <<journal, rows, applied, cursor>>, crashes' \in Nat,
           NEW call \in Calls, tx' = [tx EXCEPT ![w] = call],
           CallOK(w)', LocksOK(w)', RowsOK(w)',
           \A v \in Workers \ {w} : Apart(w, v)'
    PROVE  IndInv'
<1> USE DEF IndInv
<1>1. AllMarks' = AllMarks /\ Calls' = Calls
  BY DEF AllMarks, Calls
<1>2. TypeOK'
  BY <1>1 DEF TypeOK
<1>3. \A v \in Workers \ {w} : tx'[v] = tx[v]
  BY DEF TypeOK
<1>4. \A s \in Streams : HistoryOK(s)'
  BY DEF HistoryOK, AppliedSequences, After
<1>5. \A v \in Workers \ {w} : CallOK(v)' /\ LocksOK(v)' /\ RowsOK(v)'
  BY <1>3, CallSteady
<1>6. \A u, v \in Workers : u # v => Apart(u, v)'
  BY <1>3 DEF Apart
<1>7. QED
  BY <1>2, <1>4, <1>5, <1>6

\* A call that ends without a commit leaves nothing behind.
LEMMA RollbackIndInv ==
    ASSUME IndInv, NEW w \in Workers, Rollback(w),
           UNCHANGED <<journal, rows, applied, cursor>>, crashes' \in Nat
    PROVE  IndInv'
<1> DEFINE call == NoCall(tx[w].stream)
<1>1. call \in Calls /\ tx' = [tx EXCEPT ![w] = call]
  BY CallFields, NoCallType DEF IndInv, Rollback
<1>2. tx'[w] = call
  BY <1>1 DEF IndInv, TypeOK
<1>3. tx'[w].step = "idle" /\ tx'[w].marked = {} /\ tx'[w].locked = {}
  BY <1>2 DEF NoCall
<1>4. CallOK(w)' /\ LocksOK(w)' /\ RowsOK(w)'
  BY <1>3 DEF CallOK, LocksOK, RowsOK, InTransaction, Marks
<1>5. \A v \in Workers \ {w} : Apart(w, v)'
  BY <1>3 DEF Apart
<1>6. QED
  BY <1>1, <1>4, <1>5, OneCallMoves

\* Reading a batch that starts after the cursor.
LEMMA BeginIndInv ==
    ASSUME IndInv, NEW w \in Workers, Begin(w)
    PROVE  IndInv'
<1>0. PICK s \in Streams : \E upto \in DOMAIN journal[s] :
          /\ cursor[s] < upto
          /\ tx' = [tx EXCEPT ![w] = [NoCall(s) EXCEPT
                        !.step = "lookup", !.next = cursor[s] + 1, !.upto = upto]]
  BY DEF Begin
<1>1. PICK upto \in DOMAIN journal[s] :
          /\ cursor[s] < upto
          /\ tx' = [tx EXCEPT ![w] = [NoCall(s) EXCEPT
                        !.step = "lookup", !.next = cursor[s] + 1, !.upto = upto]]
  BY <1>0
<1> DEFINE call == [NoCall(s) EXCEPT !.step = "lookup", !.next = cursor[s] + 1, !.upto = upto]
<1>2. cursor[s] \in Nat /\ upto \in 1..Len(journal[s]) /\ Len(journal[s]) \in Nat
  BY AfterFacts DEF IndInv, TypeOK
<1>3. /\ call.step = "lookup" /\ call.stream = s /\ call.next = cursor[s] + 1
      /\ call.upto = upto /\ call.marked = {} /\ call.locked = {}
  BY DEF NoCall
<1>4. call \in Calls
  <2>1. NoCall(s) \in Calls /\ cursor[s] + 1 \in Nat /\ upto \in Nat
    BY <1>2, NoCallType
  <2>2. QED
    BY <2>1 DEF Calls, Steps
<1> HIDE DEF call
<1>5. tx' = [tx EXCEPT ![w] = call] /\ tx'[w] = call
  BY <1>1 DEF IndInv, TypeOK, call
<1>6. CallOK(w)'
  <2>1. 1..cursor[s] \subseteq AppliedSequences(s)'
    BY DEF IndInv, HistoryOK, AppliedSequences, Begin
  <2>2. journal' = journal /\ tx'[w].step = "lookup" /\ tx'[w].stream = s
    BY <1>3, <1>5 DEF Begin
  <2>3. /\ tx'[w].next = cursor[s] + 1 /\ tx'[w].upto = upto
        /\ tx'[w].marked = {} /\ tx'[w].locked = {}
    BY <1>3, <1>5
  <2>4. /\ upto <= Len(journal[s]) /\ cursor[s] + 1 \in 1..upto + 1
        /\ cursor[s] + 1 <= upto /\ cursor[s] + 1 - 1 = cursor[s]
    BY <1>1, <1>2
  <2>5. \A i \in 1..tx'[w].next - 1 : i \in AppliedSequences(s)'
    <3>1. tx'[w].next - 1 = cursor[s]
      BY <1>2, <2>3
    <3>2. QED
      BY <2>1, <3>1
  <2>6. QED
    BY <2>2, <2>3, <2>4, <2>5 DEF CallOK, InTransaction
<1>7. LocksOK(w)' /\ RowsOK(w)'
  BY <1>3, <1>5 DEF LocksOK, RowsOK, Marks
<1>8. \A v \in Workers \ {w} : Apart(w, v)'
  BY <1>3, <1>5 DEF Apart
<1>9. UNCHANGED <<journal, rows, applied, cursor>> /\ crashes' \in Nat
  BY DEF Begin, IndInv, TypeOK
<1>10. QED
  BY <1>4, <1>5, <1>6, <1>7, <1>8, <1>9, OneCallMoves

\* A call that goes on with the change it is at, before writing it.
LEMMA SameChange ==
    ASSUME IndInv, NEW w \in Workers, NEW step \in {"compare", "write"},
           tx[w].step \in {"lookup", "compare"},
           tx' = [tx EXCEPT ![w].step = step],
           UNCHANGED <<journal, rows, applied, cursor>>, crashes' \in Nat
    PROVE  IndInv'
<1> DEFINE call == [tx[w] EXCEPT !.step = step]
<1>1. /\ TypeOK /\ CallOK(w) /\ LocksOK(w) /\ RowsOK(w) /\ InTransaction(w)
      /\ tx[w] \in Calls /\ tx[w].stream \in Streams
  BY CallFields DEF IndInv, TypeOK, InTransaction
<1>2. call \in Calls /\ tx' = [tx EXCEPT ![w] = call]
  BY <1>1 DEF Calls, Steps
<1>3. /\ call.step = step /\ call.next = tx[w].next /\ call.stream = tx[w].stream
      /\ call.upto = tx[w].upto /\ call.marked = tx[w].marked
      /\ call.locked = tx[w].locked /\ call.rows = tx[w].rows
  BY <1>1 DEF Calls
<1> HIDE DEF call
<1>4. tx'[w] = call /\ \A v \in Workers \ {w} : tx'[v] = tx[v]
  BY <1>1, <1>2 DEF TypeOK
<1>5. AppliedSequences(tx[w].stream)' = AppliedSequences(tx[w].stream)
  BY DEF AppliedSequences
<1>6. CallOK(w)'
  BY <1>1, <1>3, <1>4, <1>5 DEF CallOK, InTransaction, Marks
<1>7. LocksOK(w)'
  BY <1>1, <1>3, <1>4 DEF LocksOK, Marks
<1>8. RowsOK(w)'
  BY <1>1, <1>3, <1>4 DEF RowsOK, View, After
<1>9. \A v \in Workers \ {w} : Apart(w, v)'
  BY <1>3, <1>4 DEF Apart, IndInv
<1>10. QED
  BY <1>2, <1>6, <1>7, <1>8, <1>9, OneCallMoves

\* What a call has marked is not applied, and is behind the change at hand.
LEMMA NoMarkApplied ==
    ASSUME IndInv, NEW w \in Workers, tx[w].step = "lookup", WasApplied(w)
    PROVE  tx[w].marked = {} /\ tx[w].next \in AppliedSequences(tx[w].stream)
<1> DEFINE s == tx[w].stream
           n == tx[w].next
<1>1. /\ TypeOK /\ CallOK(w) /\ InTransaction(w) /\ s \in Streams
      /\ HistoryOK(s)
  BY CallFields DEF IndInv, InTransaction
<1>2. n \in 1..Len(journal[s]) /\ n \in Nat /\ Len(journal[s]) \in Nat
  BY <1>1, ChangeFacts, AfterFacts
<1>3. CurrentMark(w) \notin tx[w].marked
  BY <1>1, <1>2, MarkNames DEF CallOK, CurrentMark
<1>4. n \in AppliedSequences(s)
  BY <1>2, <1>3 DEF WasApplied, CurrentMark, AppliedSequences
<1>5. PICK m \in 0..Len(journal[s]) : AppliedSequences(s) = 1..m
  BY <1>1 DEF HistoryOK
<1>6. ASSUME tx[w].marked # {} PROVE FALSE
  <2>1. PICK i \in 1..n - 1 : Marks(w, i)
    BY <1>1, <1>6 DEF CallOK, Marks
  <2>2. i \in AppliedSequences(s)
    BY <1>2, <1>4, <1>5, <2>1
  <2>3. QED
    BY <1>1, <2>1, <2>2 DEF CallOK, Marks, AppliedSequences
<1>7. QED
  BY <1>4, <1>6

\* The lookup passes over a change that is applied, or stays at it.
LEMMA LookupIndInv ==
    ASSUME IndInv, NEW w \in Workers, Lookup(w)
    PROVE  IndInv'
<1>0. PICK s \in Streams, n \in Nat : s = tx[w].stream /\ n = tx[w].next
  BY CallFields DEF IndInv
<1>1. /\ TypeOK /\ CallOK(w) /\ LocksOK(w) /\ RowsOK(w) /\ InTransaction(w)
      /\ tx[w] \in Calls /\ tx[w].step = "lookup"
  BY DEF IndInv, TypeOK, InTransaction, Lookup, Runs
<1>2. UNCHANGED <<journal, rows, applied, cursor>> /\ crashes' \in Nat
  BY DEF Lookup, IndInv, TypeOK
<1>3. /\ n \in 1..tx[w].upto /\ n + 1 \in 1..tx[w].upto + 1 /\ n \in Nat
      /\ tx[w].upto \in Nat /\ n + 1 - 1 = n
  BY <1>0, <1>1, BatchInJournal DEF CallOK
<1>4. CASE WasApplied(w)
  <2> DEFINE call == [tx[w] EXCEPT !.next = n + 1, !.step = StepAt(n + 1, tx[w].upto)]
  <2>1. call \in Calls
    <3>1. n + 1 \in Nat /\ StepAt(n + 1, tx[w].upto) \in Steps
      BY <1>3 DEF StepAt, Steps
    <3>2. QED
      BY <1>1, <3>1 DEF Calls
  <2>2. /\ call.step = StepAt(n + 1, tx[w].upto) /\ call.next = n + 1
        /\ call.stream = s /\ call.upto = tx[w].upto /\ call.marked = tx[w].marked
        /\ call.locked = tx[w].locked
    BY <1>0, <1>1 DEF Calls
  <2>3. tx' = [tx EXCEPT ![w] = call]
    BY <1>0, <1>4 DEF Lookup
  <2> HIDE DEF call
  <2>4. tx'[w] = call
    BY <1>1, <2>3 DEF TypeOK
  <2>5. tx[w].marked = {} /\ tx[w].locked = {} /\ n \in AppliedSequences(s)
    BY <1>0, <1>1, <1>4, NoMarkApplied DEF LocksOK
  <2>6. CallOK(w)'
    <3>1. \A i \in 1..n : i \in AppliedSequences(s)'
      <4>1. \A i \in 1..n - 1 : i \in AppliedSequences(s)
        BY <1>0, <1>1, <2>5 DEF CallOK, Marks
      <4>2. AppliedSequences(s)' = AppliedSequences(s)
        BY <1>2 DEF AppliedSequences
      <4>3. \A i \in 1..n : i \in 1..n - 1 \/ i = n
        BY <1>3
      <4>4. QED
        BY <2>5, <4>1, <4>2, <4>3
    <3>2. tx'[w].step \in {"lookup", "commit"}
      BY <2>2, <2>4 DEF StepAt
    <3>3. tx'[w].step = "commit" <=> n + 1 = tx[w].upto + 1
      BY <1>3, <2>2, <2>4 DEF StepAt
    <3>4. tx'[w].step # "commit" <=> n + 1 <= tx[w].upto
      BY <1>3, <3>3
    <3>5. tx[w].upto <= Len(journal[s])
      BY <1>0, <1>1 DEF CallOK
    <3>6. QED
      BY <1>2, <1>3, <2>2, <2>4, <2>5, <3>1, <3>2, <3>3, <3>4, <3>5 DEF CallOK, InTransaction
  <2>7. LocksOK(w)' /\ RowsOK(w)'
    BY <2>2, <2>4, <2>5 DEF LocksOK, RowsOK, Marks, StepAt
  <2>8. \A v \in Workers \ {w} : Apart(w, v)'
    BY <2>2, <2>4, <2>5 DEF Apart
  <2>9. QED
    BY <1>2, <2>1, <2>3, <2>6, <2>7, <2>8, OneCallMoves
<1>5. CASE ~WasApplied(w)
  BY <1>1, <1>2, <1>5, SameChange DEF Lookup
<1>6. QED
  BY <1>4, <1>5

\* The statement leaves in the call's view what the change makes of it.
LEMMA WrittenView ==
    ASSUME TypeOK, NEW w \in Workers, NEW c \in Changes, rows' = rows,
           tx'[w].rows = Written(View(w), c),
           tx'[w].locked = tx[w].locked \cup TouchedKeys(c)
    PROVE  View(w)' = Written(View(w), c)
<1>1. /\ View(w) \in [Keys -> Images]
      /\ Written(View(w), c) \in [Keys -> Images]
  BY ViewType, WrittenType
<1>2. ASSUME NEW k \in Keys
      PROVE  (IF k \in tx'[w].locked THEN tx'[w].rows[k] ELSE rows'[k])
                 = Written(View(w), c)[k]
  <2>1. CASE k \in tx'[w].locked
    BY <2>1
  <2>2. CASE k \notin tx'[w].locked
    <3>1. k \notin tx[w].locked /\ k \notin TouchedKeys(c)
      BY <2>2
    <3>2. View(w)[k] = rows[k] /\ Written(View(w), c)[k] = View(w)[k]
      BY <3>1, WrittenUntouched DEF View
    <3>3. QED
      BY <2>2, <3>2
  <2>3. QED
    BY <2>1, <2>2
<1>3. QED
  BY <1>1, <1>2 DEF View

\* Before it writes a change that is not applied, a call sees the rows of its
\* source as they were before that change.
LEMMA SeesBefore ==
    ASSUME IndInv, NEW w \in Workers, tx[w].step \in {"compare", "write"},
           CurrentMark(w) \notin applied
    PROVE  \A k \in KeysOf[tx[w].stream] :
               View(w)[k] = After(tx[w].stream, tx[w].next - 1)[k]
<1>0. PICK s \in Streams, n \in Nat : s = tx[w].stream /\ n = tx[w].next
  BY CallFields DEF IndInv
<1>1. /\ TypeOK /\ CallOK(w) /\ LocksOK(w) /\ RowsOK(w) /\ InTransaction(w)
      /\ HistoryOK(s)
  BY DEF IndInv, InTransaction
<1>2. CASE tx[w].marked # {}
  BY <1>0, <1>1, <1>2 DEF RowsOK
<1>3. CASE tx[w].marked = {}
  <2>1. /\ n \in 1..Len(journal[s]) /\ Len(journal[s]) \in Nat
        /\ \A i \in 1..n - 1 : i \in AppliedSequences(s)
    BY <1>0, <1>1, <1>3, ChangeFacts, AfterFacts DEF CallOK, Marks
  <2>2. n \notin AppliedSequences(s)
    BY <1>0 DEF AppliedSequences, CurrentMark
  <2>3. PICK m \in 0..Len(journal[s]) :
            AppliedSequences(s) = 1..m /\ \A k \in KeysOf[s] : rows[k] = After(s, m)[k]
    BY <1>1 DEF HistoryOK
  <2>4. m = n - 1
    <3>1. ~(m >= n) /\ ~(m + 1 <= n - 1)
      BY <2>1, <2>2, <2>3
    <3>2. QED
      BY <2>1, <3>1
  <2>5. \A k \in KeysOf[s] : k \in Keys /\ View(w)[k] = rows[k]
    BY <1>1, <1>3, StreamsAssumption DEF LocksOK, View
  <2>6. QED
    BY <1>0, <2>3, <2>4, <2>5
<1>4. QED
  BY <1>2, <1>3

\* A statement that succeeds takes its row locks.
LEMMA WriteIndInv ==
    ASSUME IndInv, NEW w \in Workers, Runs(w, "write"),
           tx' = [tx EXCEPT ![w].rows = Written(View(w), Change(w)),
                            ![w].locked = @ \cup TouchedKeys(Change(w)),
                            ![w].step = "mark"],
           UNCHANGED <<journal, rows, applied, cursor>>, crashes' \in Nat
    PROVE  IndInv'
<1>0. PICK s \in Streams, n \in Nat : s = tx[w].stream /\ n = tx[w].next
  BY CallFields DEF IndInv
<1>1. /\ TypeOK /\ CallOK(w) /\ LocksOK(w) /\ RowsOK(w) /\ InTransaction(w)
      /\ HistoryOK(s) /\ tx[w] \in Calls /\ tx[w].step = "write"
  BY DEF IndInv, TypeOK, InTransaction, Runs
<1>2. PICK c \in Changes : c = Change(w)
  BY <1>0, <1>1, ChangeFacts
<1>3. /\ c = journal[s][n] /\ n \in 1..Len(journal[s]) /\ Len(journal[s]) \in Nat
      /\ TouchedKeys(c) \subseteq KeysOf[s] /\ KeysOf[s] \subseteq Keys
  BY <1>0, <1>1, <1>2, ChangeFacts, AfterFacts, StreamsAssumption DEF Change
<1> DEFINE call == [tx[w] EXCEPT !.rows = Written(View(w), c),
                                 !.locked = tx[w].locked \cup TouchedKeys(c),
                                 !.step = "mark"]
<1>4. tx' = [tx EXCEPT ![w] = call]
  BY <1>2
<1>5. call \in Calls
  <2>1. Written(View(w), c) \in [Keys -> Images] /\ TouchedKeys(c) \subseteq Keys
    BY <1>1, ViewType, WrittenType, TouchedKeysType
  <2>2. QED
    BY <1>1, <2>1 DEF Calls, Steps
<1>6. /\ call.step = "mark" /\ call.next = n /\ call.stream = s
      /\ call.upto = tx[w].upto /\ call.marked = tx[w].marked
      /\ call.locked = tx[w].locked \cup TouchedKeys(c)
      /\ call.rows = Written(View(w), c)
  BY <1>0, <1>1 DEF Calls
<1> HIDE DEF call
<1>7. tx'[w] = call /\ \A v \in Workers \ {w} : tx'[v] = tx[v]
  BY <1>1, <1>4 DEF TypeOK
<1>8. AppliedSequences(tx[w].stream)' = AppliedSequences(tx[w].stream)
  BY <1>0, <1>6, <1>7 DEF AppliedSequences
<1>9. CallOK(w)'
  <2>1. /\ tx'[w].next = tx[w].next /\ tx'[w].stream = tx[w].stream
        /\ tx'[w].upto = tx[w].upto /\ tx'[w].marked = tx[w].marked
        /\ tx'[w].step = "mark"
    BY <1>0, <1>6, <1>7
  <2>2. QED
    BY <1>1, <1>8, <2>1 DEF CallOK, InTransaction, Marks
<1>10. LocksOK(w)'
  <2>1. ASSUME NEW i \in 1..Len(journal[s]), Marks(w, i)' \/ i = n
        PROVE  TouchedKeys(journal[s][i]) \subseteq call.locked
    <3>1. CASE i = n
      BY <1>3, <1>6, <3>1
    <3>2. CASE i # n
      <4>1. Marks(w, i)
        BY <1>0, <1>6, <1>7, <2>1, <3>2 DEF Marks
      <4>2. QED
        BY <1>0, <1>1, <1>6, <4>1 DEF LocksOK
    <3>3. QED
      BY <3>1, <3>2
  <2>2. call.locked \subseteq KeysOf[s]
    BY <1>0, <1>1, <1>3, <1>6 DEF LocksOK
  <2>3. QED
    BY <1>6, <1>7, <2>1, <2>2 DEF LocksOK
<1>11. RowsOK(w)'
  <2>1. View(w)' = Written(View(w), c)
    BY <1>1, <1>6, <1>7, WrittenView
  <2>2. After(s, n) = Written(After(s, n - 1), c)
    BY <1>1, <1>3, AfterFacts
  <2>3. ASSUME Mark(s, n) \notin applied, NEW k \in KeysOf[s]
        PROVE  View(w)'[k] = After(s, n)[k]
    <3>1. View(w)[k] = After(s, n - 1)[k] /\ k \in Keys
      BY <1>0, <1>1, <1>3, <2>3, SeesBefore DEF CurrentMark
    <3>2. QED
      BY <2>1, <2>2, <3>1, WrittenAgrees
  <2>4. tx'[w].step = "mark" /\ tx'[w].stream = s /\ tx'[w].next = n
    BY <1>6, <1>7
  <2>5. Mark(s, n) \notin applied
            => \A k \in KeysOf[s] : View(w)'[k] = Replay(Base, journal'[s])[n][k]
    BY <2>3 DEF After
  <2>6. applied' = applied
    OBVIOUS
  <2>7. QED
    BY <2>4, <2>5, <2>6 DEF RowsOK, After
<1>12. ASSUME NEW v \in Workers \ {w} PROVE Apart(w, v)'
  <2>1. TouchedKeys(c) \cap tx[v].locked = {}
    BY <1>1, <1>2 DEF Runs, WaitsFor
  <2>2. QED
    BY <1>6, <1>7, <2>1 DEF Apart, IndInv
<1>13. QED
  BY <1>4, <1>5, <1>9, <1>10, <1>11, <1>12, OneCallMoves

\* A mark that is free is put behind the change, and the call moves on.
LEMMA MarkIndInv ==
    ASSUME IndInv, NEW w \in Workers, Runs(w, "mark"), MarkIsFree(w),
           tx' = [tx EXCEPT ![w].marked = @ \cup {CurrentMark(w)},
                            ![w].next = tx[w].next + 1,
                            ![w].step = StepAt(tx[w].next + 1, tx[w].upto)],
           UNCHANGED <<journal, rows, applied, cursor>>, crashes' \in Nat
    PROVE  IndInv'
<1>0. PICK s \in Streams, n \in Nat : s = tx[w].stream /\ n = tx[w].next
  BY CallFields DEF IndInv
<1>1. /\ TypeOK /\ CallOK(w) /\ LocksOK(w) /\ RowsOK(w) /\ InTransaction(w)
      /\ HistoryOK(s) /\ tx[w] \in Calls /\ tx[w].step = "mark"
  BY DEF IndInv, TypeOK, InTransaction, Runs
<1>2. /\ n \in 1..Len(journal[s]) /\ Len(journal[s]) \in Nat
      /\ tx[w].upto \in Nat /\ n \in 1..tx[w].upto /\ n + 1 \in 1..tx[w].upto + 1
      /\ n + 1 - 1 = n /\ tx[w].upto <= Len(journal[s])
  BY <1>0, <1>1, ChangeFacts, AfterFacts, BatchInJournal DEF CallOK
<1> DEFINE call == [tx[w] EXCEPT !.marked = tx[w].marked \cup {Mark(s, n)},
                                 !.next = n + 1,
                                 !.step = StepAt(n + 1, tx[w].upto)]
<1>3. tx' = [tx EXCEPT ![w] = call]
  BY <1>0 DEF CurrentMark
<1>4. call \in Calls
  <2>1. StepAt(n + 1, tx[w].upto) \in Steps /\ n + 1 \in Nat
    BY DEF StepAt, Steps
  <2>2. Mark(s, n) \in AllMarks
    BY <1>1, <1>2, AfterFacts DEF AllMarks
  <2>3. QED
    BY <1>1, <2>1, <2>2 DEF Calls
<1>5. /\ call.step = StepAt(n + 1, tx[w].upto) /\ call.next = n + 1
      /\ call.stream = s /\ call.upto = tx[w].upto
      /\ call.marked = tx[w].marked \cup {Mark(s, n)}
      /\ call.locked = tx[w].locked /\ call.rows = tx[w].rows
  BY <1>0, <1>1 DEF Calls
<1> HIDE DEF call
<1>6. tx'[w] = call /\ \A v \in Workers \ {w} : tx'[v] = tx[v]
  BY <1>1, <1>3 DEF TypeOK
<1>7. AppliedSequences(s)' = AppliedSequences(s)
  BY DEF AppliedSequences
<1>8. Mark(s, n) \notin applied
  BY <1>0 DEF MarkIsFree, CurrentMark
<1>9. CallOK(w)'
  <2>1. \A i \in 1..n : i \in AppliedSequences(s) \/ Mark(s, i) \in call.marked
    <3>1. \A i \in 1..n - 1 : i \in AppliedSequences(s) \/ Mark(s, i) \in tx[w].marked
      BY <1>0, <1>1 DEF CallOK, Marks
    <3>2. \A i \in 1..n : i \in 1..n - 1 \/ i = n
      BY <1>2
    <3>3. QED
      BY <1>5, <3>1, <3>2
  <2>2. call.marked \subseteq {Mark(s, i) : i \in 1..n}
    <3>1. tx[w].marked \subseteq {Mark(s, i) : i \in 1..n - 1}
      BY <1>0, <1>1 DEF CallOK
    <3>2. n \in 1..n /\ \A i \in 1..n - 1 : i \in 1..n
      BY <1>2
    <3>3. QED
      BY <1>5, <3>1, <3>2
  <2>3. call.marked \cap applied = {}
    BY <1>1, <1>5, <1>8 DEF CallOK
  <2>4. call.step \in {"lookup", "commit"} /\ (call.step = "commit" <=> n + 1 = tx[w].upto + 1)
    BY <1>2, <1>5 DEF StepAt
  <2>5. call.step # "commit" => n + 1 <= tx[w].upto
    BY <1>2, <2>4
  <2>6. /\ tx'[w].step = call.step /\ tx'[w].stream = s /\ tx'[w].next = n + 1
        /\ tx'[w].upto = tx[w].upto /\ tx'[w].marked = call.marked
    BY <1>5, <1>6
  <2>7. tx'[w].next - 1 = n
    BY <2>6
  <2>8. InTransaction(w)' /\ tx'[w].step # "save"
    BY <2>4, <2>6 DEF InTransaction
  <2>9. QED
    BY <1>2, <1>7, <2>1, <2>2, <2>3, <2>4, <2>5, <2>6, <2>7, <2>8 DEF CallOK, Marks, Mark
<1>10. LocksOK(w)'
  <2>1. ASSUME NEW i \in 1..Len(journal[s]), Mark(s, i) \in call.marked
        PROVE  TouchedKeys(journal[s][i]) \subseteq call.locked
    <3>1. CASE i = n
      BY <1>0, <1>1, <1>5, <3>1 DEF LocksOK
    <3>2. CASE i # n
      <4>1. Mark(s, i) \in tx[w].marked
        BY <1>5, <2>1, <3>2, MarkNames
      <4>2. QED
        BY <1>0, <1>1, <1>5, <4>1 DEF LocksOK, Marks
    <3>3. QED
      BY <3>1, <3>2
  <2>2. call.locked \subseteq KeysOf[s]
    BY <1>0, <1>1, <1>5 DEF LocksOK
  <2>3. call.step # "mark" /\ call.marked # {}
    BY <1>5 DEF StepAt
  <2>4. QED
    BY <1>5, <1>6, <2>1, <2>2, <2>3 DEF LocksOK, Marks
<1>11. RowsOK(w)'
  <2>1. \A k \in KeysOf[s] : View(w)[k] = After(s, n)[k]
    BY <1>0, <1>1, <1>8 DEF RowsOK
  <2>2. View(w)' = View(w)
    BY <1>5, <1>6 DEF View
  <2>3. tx'[w].step # "mark" /\ tx'[w].stream = s
    <3>1. StepAt(n + 1, tx[w].upto) # "mark"
      BY DEF StepAt
    <3>2. QED
      BY <1>5, <1>6, <3>1
  <2>4. tx'[w].next - 1 = n
    <3>1. tx'[w].next = n + 1
      BY <1>5, <1>6
    <3>2. QED
      BY <3>1
  <2>5. QED
    BY <2>1, <2>2, <2>3, <2>4 DEF RowsOK, After
<1>12. ASSUME NEW v \in Workers \ {w} PROVE Apart(w, v)'
  <2>1. Mark(s, n) \notin tx[v].marked
    BY <1>0, <1>1 DEF Runs, WaitsFor, CurrentMark
  <2>2. QED
    BY <1>5, <1>6, <2>1 DEF Apart, IndInv
<1>13. QED
  BY <1>3, <1>4, <1>9, <1>10, <1>11, <1>12, OneCallMoves

\* What a commit leaves of the call.
LEMMA CommittedCall ==
    ASSUME IndInv, NEW w \in Workers, Commit(w)
    PROVE  /\ [NoCall(tx[w].stream) EXCEPT !.step = "save", !.upto = tx[w].upto] \in Calls
           /\ tx' = [tx EXCEPT ![w] =
                       [NoCall(tx[w].stream) EXCEPT !.step = "save", !.upto = tx[w].upto]]
           /\ tx'[w].step = "save" /\ tx'[w].stream = tx[w].stream
           /\ tx'[w].upto = tx[w].upto /\ tx'[w].marked = {} /\ tx'[w].locked = {}
           /\ \A v \in Workers \ {w} : tx'[v] = tx[v]
<1> DEFINE call == [NoCall(tx[w].stream) EXCEPT !.step = "save", !.upto = tx[w].upto]
<1>1. NoCall(tx[w].stream) \in Calls /\ tx[w].upto \in Nat
  BY CallFields, NoCallType DEF IndInv
<1>2. call \in Calls
  BY <1>1 DEF Calls, Steps
<1>3. /\ call.step = "save" /\ call.stream = tx[w].stream /\ call.upto = tx[w].upto
      /\ call.marked = {} /\ call.locked = {}
  BY DEF NoCall
<1>4. tx' = [tx EXCEPT ![w] = call]
  BY DEF Commit
<1> HIDE DEF call
<1>5. tx'[w] = call /\ \A v \in Workers \ {w} : tx'[v] = tx[v]
  BY <1>4 DEF IndInv, TypeOK
<1>6. QED
  BY <1>2, <1>3, <1>4, <1>5 DEF call

\* At the end of a batch everything in it is applied or marked.
LEMMA BatchComplete ==
    ASSUME IndInv, NEW w \in Workers, tx[w].step = "commit"
    PROVE  /\ tx[w].upto \in 0..Len(journal[tx[w].stream])
           /\ tx[w].next - 1 = tx[w].upto
           /\ \A i \in 1..tx[w].upto : i \in AppliedSequences(tx[w].stream) \/ Marks(w, i)
<1>1. TypeOK /\ CallOK(w) /\ InTransaction(w)
  BY DEF IndInv, InTransaction
<1>2. /\ tx[w].upto \in Nat /\ tx[w].next = tx[w].upto + 1
      /\ Len(journal[tx[w].stream]) \in Nat /\ tx[w].upto <= Len(journal[tx[w].stream])
  BY <1>1, BatchInJournal DEF CallOK
<1>3. tx[w].next - 1 = tx[w].upto
  BY <1>2
<1>4. \A i \in 1..tx[w].next - 1 : i \in AppliedSequences(tx[w].stream) \/ Marks(w, i)
  BY <1>1 DEF CallOK
<1>5. QED
  BY <1>2, <1>3, <1>4

\* A commit that marks nothing commits nothing.
LEMMA EmptyCommitIndInv ==
    ASSUME IndInv, NEW w \in Workers, Commit(w), tx[w].marked = {}
    PROVE  IndInv'
<1>1. tx[w].step = "commit" /\ tx[w].locked = {}
  BY DEF IndInv, LocksOK, Commit
<1>2. rows' = rows
  BY <1>1 DEF Commit, View, IndInv, TypeOK
<1>3. applied' = applied
  BY DEF Commit
<1>4. AppliedSequences(tx[w].stream)' = AppliedSequences(tx[w].stream)
  BY <1>3, CommittedCall DEF AppliedSequences, Commit
<1>5. CallOK(w)'
  <2>1. \A i \in 1..tx[w].upto : i \in AppliedSequences(tx[w].stream)
    BY <1>1, BatchComplete DEF Marks
  <2>2. QED
    BY <1>4, <2>1, CommittedCall DEF CallOK, InTransaction
<1>6. LocksOK(w)' /\ RowsOK(w)'
  BY CommittedCall DEF LocksOK, RowsOK, Marks
<1>7. \A v \in Workers \ {w} : Apart(w, v)'
  BY CommittedCall DEF Apart
<1>8. UNCHANGED <<journal, rows, applied, cursor>> /\ crashes' \in Nat
  BY <1>2, <1>3 DEF Commit, IndInv, TypeOK
<1>9. QED
  BY <1>5, <1>6, <1>7, <1>8, CommittedCall, OneCallMoves

\* A commit that marks something extends the history of its source.
LEMMA CommitHistory ==
    ASSUME IndInv, NEW w \in Workers, Commit(w), tx[w].marked # {}, NEW t \in Streams
    PROVE  HistoryOK(t)'
<1>0. PICK s \in Streams, u \in Nat : s = tx[w].stream /\ u = tx[w].upto
  BY CallFields DEF IndInv
<1>1. /\ TypeOK /\ CallOK(w) /\ LocksOK(w) /\ RowsOK(w) /\ InTransaction(w)
      /\ HistoryOK(t) /\ tx[w].step = "commit"
  BY DEF IndInv, InTransaction, Commit
<1>2. /\ journal' = journal /\ cursor' = cursor /\ rows' = View(w)
      /\ applied' = applied \cup tx[w].marked
  BY DEF Commit
<1>3. tx[w].marked \subseteq {Mark(s, i) : i \in 1..u} /\ u \in 0..Len(journal[s])
  BY <1>0, <1>1, BatchComplete DEF CallOK
<1>4. AppliedSequences(t) \subseteq AppliedSequences(t)'
  BY <1>2 DEF AppliedSequences
<1>5. CASE t # s
  <2>1. \A i \in 1..Len(journal[t]) : Mark(t, i) \notin tx[w].marked
    BY <1>3, <1>5, MarkNames
  <2>2. AppliedSequences(t)' = AppliedSequences(t)
    BY <1>2, <2>1 DEF AppliedSequences
  <2>3. \A k \in KeysOf[t] : rows'[k] = rows[k]
    BY <1>0, <1>1, <1>2, <1>5, SeparateKeys, StreamsAssumption DEF LocksOK, View
  <2>4. QED
    BY <1>1, <1>2, <2>2, <2>3 DEF HistoryOK, After
<1>6. CASE t = s
  <2>1. PICK m \in 0..Len(journal[s]) : AppliedSequences(s) = 1..m
    BY <1>1, <1>6 DEF HistoryOK
  <2>2. \A i \in 1..u : i \in AppliedSequences(s) \/ Mark(s, i) \in tx[w].marked
    BY <1>0, <1>1, BatchComplete DEF Marks
  <2>3. m <= u
    <3>1. PICK i \in 1..u : Mark(s, i) \in tx[w].marked
      BY <1>3
    <3>2. i \notin AppliedSequences(s)
      BY <1>1, <3>1 DEF CallOK, AppliedSequences
    <3>3. QED
      BY <2>1, <3>1, <3>2
  <2>4. Len(journal[s]) \in Nat /\ 1..u \subseteq 1..Len(journal[s])
    BY <1>1, <1>3, AfterFacts
  <2>5. AppliedSequences(s)' = 1..u
    <3>1. ASSUME NEW i \in 1..u PROVE i \in AppliedSequences(s)'
      BY <1>2, <2>2, <2>4 DEF AppliedSequences
    <3>2. ASSUME NEW i \in AppliedSequences(s)' PROVE i \in 1..u
      <4>1. CASE i \in AppliedSequences(s)
        BY <2>1, <2>3, <4>1
      <4>2. CASE i \notin AppliedSequences(s)
        <5>1. Mark(s, i) \in tx[w].marked
          BY <1>2, <3>2, <4>2 DEF AppliedSequences
        <5>2. QED
          BY <1>3, <5>1, MarkNames
      <4>3. QED
        BY <4>1, <4>2
    <3>3. QED
      BY <3>1, <3>2
  <2>6. \A k \in KeysOf[s] : rows'[k] = After(s, u)[k]
    BY <1>0, <1>1, <1>2, BatchComplete DEF RowsOK
  <2>7. QED
    BY <1>1, <1>2, <1>3, <1>4, <1>6, <2>5, <2>6 DEF HistoryOK, After
<1>7. QED
  BY <1>5, <1>6

\* A commit that marks something takes nothing from the calls of the others:
\* one for the same stream has marked nothing, and the change it may be about
\* to mark is among those committed.
LEMMA CommitOthers ==
    ASSUME IndInv, NEW w \in Workers, Commit(w), tx[w].marked # {},
           NEW v \in Workers \ {w}
    PROVE  CallOK(v)' /\ LocksOK(v)' /\ RowsOK(v)'
<1>0. PICK s \in Streams, t \in Streams, n \in Nat :
          s = tx[w].stream /\ t = tx[v].stream /\ n = tx[v].next
  BY CallFields DEF IndInv
<1>1. /\ TypeOK /\ CallOK(v) /\ LocksOK(v) /\ RowsOK(v) /\ Apart(v, w)
      /\ CallOK(w) /\ LocksOK(w) /\ InTransaction(w) /\ tx[w].step = "commit"
  BY DEF IndInv, InTransaction, Commit
<1>2. /\ journal' = journal /\ rows' = View(w)
      /\ applied' = applied \cup tx[w].marked
  BY DEF Commit
<1>3. tx'[v] = tx[v]
  BY CommittedCall
<1>4. CallOK(v)'
  <2>1. AppliedSequences(t) \subseteq AppliedSequences(t)'
    BY <1>2 DEF AppliedSequences
  <2>2. tx[v].marked \cap applied = {} => tx[v].marked \cap applied' = {}
    BY <1>1, <1>2 DEF Apart
  <2>3. tx'[v].stream = t
    BY <1>0, <1>3
  <2>4. QED
    BY <1>0, <1>1, <1>2, <1>3, <2>1, <2>2, <2>3 DEF CallOK, InTransaction, Marks
<1>5. LocksOK(v)'
  BY <1>1, <1>2, <1>3 DEF LocksOK, Marks
<1>6. CASE t # s
  <2>1. \A k \in KeysOf[t] : k \in Keys /\ rows'[k] = rows[k]
    BY <1>0, <1>1, <1>2, <1>6, SeparateKeys, StreamsAssumption DEF LocksOK, View
  <2>2. \A k \in KeysOf[t] : View(v)'[k] = View(v)[k]
    BY <1>3, <2>1 DEF View
  <2>3. Mark(t, n) \notin applied' => Mark(t, n) \notin applied
    BY <1>2
  <2>4. RowsOK(v)'
    BY <1>0, <1>1, <1>2, <1>3, <2>2, <2>3 DEF RowsOK, After
  <2>5. QED
    BY <1>4, <1>5, <2>4
<1>7. CASE t = s
  <2>1. tx[v].marked = {}
    BY <1>0, <1>7, OneMarks
  <2>2. tx[v].step = "mark" => Mark(s, n) \in applied'
    <3>1. SUFFICES ASSUME tx[v].step = "mark", Mark(s, n) \notin applied'
                   PROVE  FALSE
      OBVIOUS
    <3>2. InTransaction(v) /\ n \in 1..Len(journal[s]) /\ Len(journal[s]) \in Nat
      BY <1>0, <1>1, <1>7, <3>1, ChangeFacts, AfterFacts DEF InTransaction, IndInv
    <3>3. \A i \in 1..n - 1 : i \in AppliedSequences(s)
      BY <1>0, <1>1, <1>7, <2>1, <3>2 DEF CallOK, Marks
    <3>4. PICK u \in 0..Len(journal[s]) :
            /\ tx[w].marked \subseteq {Mark(s, i) : i \in 1..u}
            /\ \A i \in 1..u : i \in AppliedSequences(s) \/ Mark(s, i) \in tx[w].marked
      BY <1>0, <1>1, BatchComplete DEF CallOK, Marks
    <3>5. PICK i \in 1..u : Mark(s, i) \in tx[w].marked
      BY <3>4
    <3>6. i \notin AppliedSequences(s)
      BY <1>1, <3>5 DEF CallOK, AppliedSequences
    <3>7. n \in 1..u
      BY <3>2, <3>3, <3>4, <3>5, <3>6
    <3>8. QED
      BY <1>2, <3>1, <3>4, <3>7 DEF AppliedSequences
  <2>3. RowsOK(v)'
    BY <1>0, <1>3, <1>7, <2>1, <2>2 DEF RowsOK
  <2>4. QED
    BY <1>4, <1>5, <2>3
<1>8. QED
  BY <1>6, <1>7

LEMMA CommitIndInv ==
    ASSUME IndInv, NEW w \in Workers, Commit(w)
    PROVE  IndInv'
<1>1. CASE tx[w].marked = {}
  BY <1>1, EmptyCommitIndInv
<1>2. CASE tx[w].marked # {}
  <2>1. TypeOK'
    <3>1. AllMarks' = AllMarks /\ Calls' = Calls
      BY DEF AllMarks, Calls, Commit
    <3>2. rows' \in [Keys -> Images]
      BY ViewType DEF IndInv, Commit
    <3>3. applied' \subseteq AllMarks
      BY CallFields DEF IndInv, TypeOK, Commit
    <3>4. tx' \in [Workers -> Calls]
      BY CommittedCall DEF IndInv, TypeOK
    <3>5. QED
      BY <3>1, <3>2, <3>3, <3>4 DEF IndInv, TypeOK, Commit
  <2>2. \A s \in Streams : HistoryOK(s)'
    BY <1>2, CommitHistory
  <2>3. CallOK(w)'
    <3>1. \A i \in 1..tx[w].upto : i \in AppliedSequences(tx[w].stream) \/ Marks(w, i)
      BY BatchComplete DEF Commit
    <3>2. PICK s \in Streams : s = tx[w].stream
      BY CallFields DEF IndInv
    <3>3. 1..tx[w].upto \subseteq 1..Len(journal[s])
      <4>1. tx[w].upto \in 0..Len(journal[s]) /\ Len(journal[s]) \in Nat
        BY <3>2, BatchComplete, AfterFacts DEF Commit, IndInv
      <4>2. QED
        BY <4>1
    <3>4. 1..tx[w].upto \subseteq AppliedSequences(s)'
      BY <3>1, <3>2, <3>3 DEF AppliedSequences, Commit, Marks
    <3>5. tx'[w].stream = s /\ tx'[w].upto = tx[w].upto /\ tx'[w].step = "save"
      BY <3>2, CommittedCall
    <3>6. QED
      BY <3>4, <3>5, CommittedCall DEF CallOK, InTransaction
  <2>4. LocksOK(w)' /\ RowsOK(w)'
    BY CommittedCall DEF LocksOK, RowsOK, Marks
  <2>5. \A v \in Workers \ {w} : CallOK(v)' /\ LocksOK(v)' /\ RowsOK(v)'
    BY <1>2, CommitOthers
  <2>6. \A u, v \in Workers : u # v => Apart(u, v)'
    BY CommittedCall DEF Apart, IndInv
  <2>7. QED
    BY <2>1, <2>2, <2>3, <2>4, <2>5, <2>6 DEF IndInv
<1>3. QED
  BY <1>1, <1>2

\* The cursor moves to the end of a batch that is applied.
LEMMA SaveCursorIndInv ==
    ASSUME IndInv, NEW w \in Workers, SaveCursor(w)
    PROVE  IndInv'
<1>0. PICK s \in Streams, u \in Nat : s = tx[w].stream /\ u = tx[w].upto
  BY CallFields DEF IndInv
<1>1. /\ TypeOK /\ CallOK(w) /\ ~InTransaction(w) /\ tx[w].step = "save"
      /\ NoCall(s) \in Calls
  BY NoCallType DEF IndInv, InTransaction, SaveCursor
<1>2. /\ UNCHANGED <<journal, rows, applied, crashes>>
      /\ cursor' = [cursor EXCEPT ![s] = u] /\ tx' = [tx EXCEPT ![w] = NoCall(s)]
  BY <1>0 DEF SaveCursor
<1>3. AllMarks' = AllMarks /\ Calls' = Calls
  BY <1>2 DEF AllMarks, Calls
<1>4. TypeOK'
  BY <1>1, <1>2, <1>3 DEF TypeOK
<1>5. ASSUME NEW t \in Streams PROVE HistoryOK(t)'
  <2>1. AppliedSequences(t)' = AppliedSequences(t)
    BY <1>2 DEF AppliedSequences
  <2>2. 1..cursor'[t] \subseteq AppliedSequences(t)
    BY <1>0, <1>1, <1>2 DEF CallOK, IndInv, HistoryOK, TypeOK
  <2>3. HistoryOK(t)
    BY DEF IndInv
  <2>4. QED
    BY <1>2, <2>1, <2>2, <2>3 DEF HistoryOK, After
<1>6. tx'[w] = NoCall(s) /\ \A v \in Workers \ {w} : tx'[v] = tx[v]
  BY <1>1, <1>2 DEF TypeOK
<1>7. tx'[w].step = "idle" /\ tx'[w].marked = {} /\ tx'[w].locked = {}
  BY <1>6 DEF NoCall
<1>8. CallOK(w)' /\ LocksOK(w)' /\ RowsOK(w)'
  BY <1>7 DEF CallOK, LocksOK, RowsOK, InTransaction, Marks
<1>9. \A v \in Workers \ {w} : CallOK(v)' /\ LocksOK(v)' /\ RowsOK(v)'
  BY <1>2, <1>6, CallSteady
<1>10. \A x, v \in Workers : x # v => Apart(x, v)'
  BY <1>6, <1>7 DEF Apart, IndInv
<1>11. QED
  BY <1>4, <1>5, <1>8, <1>9, <1>10 DEF IndInv

LEMMA NextIndInv == IndInv /\ [Next]_vars => IndInv'
<1> SUFFICES ASSUME IndInv, [Next]_vars PROVE IndInv'
  OBVIOUS
<1>1. ASSUME NEW w \in Workers, Step(w) PROVE IndInv'
  <2>1. crashes \in Nat
    BY DEF IndInv, TypeOK
  <2>2. CASE Begin(w) \/ Lookup(w) \/ Commit(w) \/ SaveCursor(w)
    BY <2>2, BeginIndInv, LookupIndInv, CommitIndInv, SaveCursorIndInv
  <2>3. CASE Compare(w)
    BY <2>1, <2>3, SameChange, RollbackIndInv DEF Compare, Runs
  <2>4. CASE Write(w)
    BY <2>1, <2>4, WriteIndInv, RollbackIndInv DEF Write
  <2>5. CASE MarkApplied(w)
    BY <2>1, <2>5, MarkIndInv, RollbackIndInv DEF MarkApplied
  <2>6. QED
    BY <1>1, <2>2, <2>3, <2>4, <2>5 DEF Step
<1>2. ASSUME NEW w \in Workers, Crash(w) PROVE IndInv'
  <2>1. crashes' \in Nat
    BY <1>2 DEF IndInv, TypeOK, Crash
  <2>2. QED
    BY <1>2, <2>1, RollbackIndInv DEF Crash
<1>3. CASE UNCHANGED vars
  <2>1. AllMarks' = AllMarks /\ Calls' = Calls
    BY <1>3 DEF AllMarks, Calls, vars
  <2>2. TypeOK'
    BY <1>3, <2>1 DEF IndInv, TypeOK, vars
  <2>3. \A s \in Streams : HistoryOK(s)'
    BY <1>3 DEF IndInv, HistoryOK, AppliedSequences, After, vars
  <2>4. \A w \in Workers : CallOK(w)' /\ LocksOK(w)' /\ RowsOK(w)'
    BY <1>3, CallSteady DEF vars
  <2>5. \A w, v \in Workers : w # v => Apart(w, v)'
    BY <1>3 DEF IndInv, Apart, vars
  <2>6. QED
    BY <2>2, <2>3, <2>4, <2>5 DEF IndInv
<1>4. QED
  BY <1>1, <1>2, <1>3 DEF Next

-----------------------------------------------------------------------------
(* The theorems.                                                           *)

\* The invariant the others follow from: journals are marked in prefixes that
\* the rows reflect, and calls hold apart marks and locks.
THEOREM Inductive == Spec => []IndInv
BY InitIndInv, NextIndInv, PTL DEF Spec

\* Every variable keeps its type, and no mark is of a change nobody captured.
THEOREM TypeCorrect == Spec => []TypeOK
<1>1. IndInv => TypeOK
  BY DEF IndInv
<1>2. QED
  BY <1>1, Inductive, PTL

\* Whichever workers race for a batch, the changes marked for a source are a
\* prefix of its journal and its rows are what exactly that prefix built.
THEOREM AppliedInOrder == Spec => []AppliedIsHistory
<1>1. ASSUME IndInv PROVE AppliedIsHistory
  <2>1. ASSUME NEW s \in Streams
        PROVE  LET n == Cardinality(AppliedSequences(s))
               IN  /\ AppliedSequences(s) = 1..n
                   /\ \A k \in KeysOf[s] : rows[k] = After(s, n)[k]
    <3>1. PICK m \in 0..Len(journal[s]) :
            AppliedSequences(s) = 1..m /\ \A k \in KeysOf[s] : rows[k] = After(s, m)[k]
      BY <1>1 DEF IndInv, HistoryOK
    <3>2. m \in Nat
      BY <1>1, AfterFacts DEF IndInv
    <3>3. Cardinality(1..m) = m
      BY <3>2, FS_Interval
    <3>4. QED
      BY <3>1, <3>3
  <2>2. QED
    BY <2>1 DEF AppliedIsHistory
<1>2. QED
  BY <1>1, Inductive, PTL

\* A persisted cursor never passes a change that is not applied, although any
\* worker of a stream may overwrite it.
THEOREM CursorFollows == Spec => []CursorIsCovered
<1>1. IndInv => CursorIsCovered
  BY DEF IndInv, HistoryOK, CursorIsCovered
<1>2. QED
  BY <1>1, Inductive, PTL

\* A statement that waits, waits for a call of its own stream, and never for a
\* mark: two calls at one mark would both hold the locks of its change.
LEMMA WaitsForLock ==
    ASSUME IndInv, NEW w \in Workers, NEW v \in Workers, WaitsFor(w, v)
    PROVE  /\ tx[w].step = "write" /\ tx[v].stream = tx[w].stream
           /\ tx[v].marked # {} \/ tx[v].step = "mark"
<1>1. /\ TypeOK /\ CallOK(w) /\ LocksOK(w) /\ CallOK(v) /\ LocksOK(v) /\ w # v
      /\ Apart(w, v) /\ tx[w].stream \in Streams /\ tx[v].stream \in Streams
      /\ HistoryOK(tx[w].stream)
  BY CallFields DEF IndInv, WaitsFor
<1>2. CASE tx[w].step = "write" /\ TouchedKeys(Change(w)) \cap tx[v].locked # {}
  <2>1. TouchedKeys(Change(w)) \subseteq KeysOf[tx[w].stream]
    BY <1>1, <1>2, ChangeFacts
  <2>2. tx[v].locked \subseteq KeysOf[tx[v].stream] /\ tx[v].locked # {}
    BY <1>1, <1>2 DEF LocksOK
  <2>3. tx[v].stream = tx[w].stream
    BY <1>1, <1>2, <2>1, <2>2, SeparateKeys
  <2>4. QED
    BY <1>1, <1>2, <2>2, <2>3 DEF LocksOK
<1>3. CASE tx[w].step = "mark" /\ CurrentMark(w) \in tx[v].marked
  <2>0. PICK s \in Streams, t \in Streams : s = tx[w].stream /\ t = tx[v].stream
    BY <1>1
  <2>1. PICK n \in 1..Len(journal[s]) : n = tx[w].next
    BY <1>1, <1>3, <2>0, ChangeFacts
  <2>2. PICK i \in 1..Len(journal[t]) : Mark(s, n) = Mark(t, i)
    <3>1. InTransaction(v)
      BY <1>1, <1>3 DEF CallOK
    <3>2. PICK i \in 1..tx[v].next - 1 : Mark(s, n) = Mark(t, i)
      BY <1>1, <1>3, <2>0, <2>1, <3>1 DEF CallOK, CurrentMark
    <3>3. i \in 1..Len(journal[t])
      BY <1>1, <2>0, <3>1, <3>2, BatchInJournal
    <3>4. QED
      BY <3>2, <3>3
  <2>3. t = s /\ i = n
    BY <2>2, MarkNames
  <2>4. /\ TouchedKeys(journal[s][n]) \subseteq tx[w].locked
        /\ TouchedKeys(journal[s][n]) \subseteq tx[v].locked
    BY <1>1, <1>3, <2>0, <2>1, <2>2, <2>3 DEF LocksOK, Marks, CurrentMark
  <2>5. TouchedKeys(journal[s][n]) # {}
    BY DEF TouchedKeys
  <2>6. QED
    BY <1>1, <2>4, <2>5 DEF Apart
<1>4. QED
  BY <1>2, <1>3 DEF WaitsFor

\* In any set of workers, however large, one waits for none of the others: the
\* engine never has a deadlock to break.
THEOREM DeadlockFree == Spec => []NoDeadlock
<1>1. ASSUME IndInv PROVE NoDeadlock
  <2>1. SUFFICES ASSUME NEW waiting \in SUBSET Workers, waiting # {},
                        \A w \in waiting : \E v \in waiting : WaitsFor(w, v)
                 PROVE  FALSE
    BY DEF NoDeadlock
  <2>2. ASSUME NEW w \in waiting
        PROVE  \E v \in waiting : /\ v # w /\ tx[v].stream = tx[w].stream
                                  /\ tx[v].marked # {}
    <3>1. PICK v \in waiting : WaitsFor(w, v)
      BY <2>1
    <3>2. PICK u \in waiting : WaitsFor(v, u)
      BY <2>1
    <3>3. tx[v].step = "write"
      BY <1>1, <3>2, WaitsForLock
    <3>4. QED
      BY <1>1, <3>1, <3>3, WaitsForLock DEF WaitsFor
  <2>3. PICK w \in waiting : tx[w].marked # {}
    BY <2>1, <2>2
  <2>4. PICK v \in waiting : /\ v # w /\ tx[v].stream = tx[w].stream
                             /\ tx[v].marked # {}
    BY <2>2
  <2>5. QED
    BY <1>1, <2>3, <2>4, OneMarks
<1>2. QED
  BY <1>1, Inductive, PTL

=============================================================================
