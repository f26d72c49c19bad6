---------------------------- MODULE CaptureProofs ----------------------------
(***************************************************************************)
(* The journal retells the table on either engine, whatever its sessions   *)
(* interleave, and a reader of a SQLite journal skips nothing: for every   *)
(* set of keys, values and sessions, read limit and number of entries.     *)
(***************************************************************************)
EXTENDS Capture, ChangeStreamProofs, FiniteSetTheorems

-----------------------------------------------------------------------------
(* What entries leave at a key.                                            *)

\* Only the entries that touch the key count.
LEMMA EndsSame ==
    ASSUME NEW base, NEW x, NEW k, NEW E, NEW F,
           \A e \in E \cup F : k \in TouchedKeys(e.change) => (e \in E <=> e \in F)
    PROVE  Ends(base, x, k, E) <=> Ends(base, x, k, F)
BY DEF Ends

\* They leave one image, if sequences tell them apart.
LEMMA EndsUnique ==
    ASSUME NEW base, NEW x, NEW y, NEW k, NEW E,
           Ends(base, x, k, E), Ends(base, y, k, E),
           \A e \in E : e.seq \in Nat,
           \A e, f \in E : e.seq = f.seq => e = f
    PROVE  x = y
<1>1. CASE \A e \in E : k \notin TouchedKeys(e.change)
  BY <1>1 DEF Ends
<1>2. CASE \E e \in E : k \in TouchedKeys(e.change)
  <2>1. PICK e \in E : /\ k \in TouchedKeys(e.change) /\ x = Leaves(e.change, k)
                       /\ \A f \in E : k \in TouchedKeys(f.change) => f.seq <= e.seq
    BY <1>2 DEF Ends
  <2>2. PICK f \in E : /\ k \in TouchedKeys(f.change) /\ y = Leaves(f.change, k)
                       /\ \A g \in E : k \in TouchedKeys(g.change) => g.seq <= f.seq
    BY <1>2 DEF Ends
  <2>3. e.seq <= f.seq /\ f.seq <= e.seq /\ e.seq \in Nat /\ f.seq \in Nat
    BY <2>1, <2>2
  <2>4. e.seq = f.seq
    BY <2>3
  <2>5. QED
    BY <2>1, <2>2, <2>4
<1>3. QED
  BY <1>1, <1>2

\* An entry after all the others has the last word at the keys it touches.
LEMMA EndsLast ==
    ASSUME NEW base, NEW k, NEW E, NEW last, last.seq \in Nat,
           \A e \in E : e.seq \in Nat /\ e.seq < last.seq, k \in TouchedKeys(last.change)
    PROVE  Ends(base, Leaves(last.change, k), k, E \cup {last})
<1>1. \A f \in E \cup {last} : f.seq <= last.seq
  OBVIOUS
<1>2. QED
  BY <1>1 DEF Ends

\* The statement of a transaction at the end of its entries.
LEMMA OrderedWrite ==
    ASSUME NEW base, NEW t \in Tables, NEW E, NEW c \in Changes, NEW n \in Nat,
           Ordered(base, t, E), Fits(t, c), Shaped(c),
           \A e \in E : e.seq \in Nat /\ e.seq < n
    PROVE  Ordered(base, Written(t, c), E \cup {[seq |-> n, change |-> c]})
<1> DEFINE new == [seq |-> n, change |-> c]
<1>1. new.seq = n /\ new.change = c
  OBVIOUS
<1> HIDE DEF new
<1>2. ASSUME NEW k \in Keys
      PROVE  Ends(base[k], Written(t, c)[k], k, E \cup {new})
  <2>1. CASE k \in TouchedKeys(c)
    <3>1. Written(t, c)[k] = Leaves(new.change, k)
      BY <1>1, <2>1, WrittenTouched
    <3>2. new.seq \in Nat /\ \A e \in E : e.seq \in Nat /\ e.seq < new.seq
      BY <1>1
    <3>3. k \in TouchedKeys(new.change)
      BY <1>1, <2>1
    <3>4. Ends(base[k], Leaves(new.change, k), k, E \cup {new})
      BY <3>2, <3>3, EndsLast
    <3>5. QED
      BY <3>1, <3>4
  <2>2. CASE k \notin TouchedKeys(c)
    <3>1. Written(t, c)[k] = t[k]
      BY <2>2 DEF Written, TouchedKeys
    <3>2. Ends(base[k], t[k], k, E)
      BY DEF Ordered
    <3>3. Ends(base[k], t[k], k, E \cup {new})
      BY <1>1, <2>2, <3>2, EndsSame
    <3>4. QED
      BY <3>1, <3>3
  <2>3. QED
    BY <2>1, <2>2
<1>3. ASSUME NEW k \in Keys, NEW e \in E \cup {new}, k \in TouchedKeys(e.change)
      PROVE  Ends(base[k], Takes(e.change, k), k, {f \in E \cup {new} : f.seq < e.seq})
  <2>1. CASE e = new
    <3>1. {f \in E \cup {new} : f.seq < e.seq} = E
      BY <1>1, <2>1
    <3>2. t[k] = Takes(e.change, k)
      BY <1>1, <1>3, <2>1, WrittenTouched
    <3>3. Ends(base[k], t[k], k, E)
      BY DEF Ordered
    <3>4. QED
      BY <3>1, <3>2, <3>3
  <2>2. CASE e # new
    <3>1. e \in E
      BY <2>2
    <3>2. {f \in E \cup {new} : f.seq < e.seq} = {f \in E : f.seq < e.seq}
      BY <1>1, <3>1
    <3>3. QED
      BY <1>3, <3>1, <3>2 DEF Ordered
  <2>3. QED
    BY <2>1, <2>2
<1>4. QED
  BY <1>2, <1>3 DEF Ordered, new

\* Another transaction commits the entries N, which touch none of the keys of
\* the entries M of this one.
LEMMA OrderedMerge ==
    ASSUME NEW base, NEW t, NEW u, NEW v, NEW C, NEW M, NEW N,
           Ordered(base, t, C \cup M), Ordered(base, u, C \cup N),
           \A k \in Keys, e \in M, f \in N :
              ~(k \in TouchedKeys(e.change) /\ k \in TouchedKeys(f.change)),
           \A k \in Keys :
              \/ v[k] = t[k] /\ \A f \in N : k \notin TouchedKeys(f.change)
              \/ v[k] = u[k] /\ \A e \in M : k \notin TouchedKeys(e.change)
    PROVE  Ordered(base, v, (C \cup N) \cup M)
<1> DEFINE A == (C \cup N) \cup M
<1>1. ASSUME NEW k \in Keys PROVE Ends(base[k], v[k], k, A)
  <2>1. CASE v[k] = t[k] /\ \A f \in N : k \notin TouchedKeys(f.change)
    <3>1. Ends(base[k], t[k], k, C \cup M)
      BY DEF Ordered
    <3>2. Ends(base[k], t[k], k, A)
      BY <2>1, <3>1, EndsSame
    <3>3. QED
      BY <2>1, <3>2
  <2>2. CASE v[k] = u[k] /\ \A e \in M : k \notin TouchedKeys(e.change)
    <3>1. Ends(base[k], u[k], k, C \cup N)
      BY DEF Ordered
    <3>2. Ends(base[k], u[k], k, A)
      BY <2>2, <3>1, EndsSame
    <3>3. QED
      BY <2>2, <3>2
  <2>3. QED
    BY <2>1, <2>2
<1>2. ASSUME NEW k \in Keys, NEW e \in A, k \in TouchedKeys(e.change)
      PROVE  Ends(base[k], Takes(e.change, k), k, {f \in A : f.seq < e.seq})
  <2>1. \/ e \in C \cup M /\ \A f \in N : k \notin TouchedKeys(f.change)
        \/ e \in C \cup N /\ \A f \in M : k \notin TouchedKeys(f.change)
    BY <1>2
  <2>2. CASE e \in C \cup M /\ \A f \in N : k \notin TouchedKeys(f.change)
    <3>1. Ends(base[k], Takes(e.change, k), k, {f \in C \cup M : f.seq < e.seq})
      BY <1>2, <2>2 DEF Ordered
    <3>2. QED
      BY <2>2, <3>1, EndsSame
  <2>3. CASE e \in C \cup N /\ \A f \in M : k \notin TouchedKeys(f.change)
    <3>1. Ends(base[k], Takes(e.change, k), k, {f \in C \cup N : f.seq < e.seq})
      BY <1>2, <2>3 DEF Ordered
    <3>2. QED
      BY <2>3, <3>1, EndsSame
  <2>4. QED
    BY <2>1, <2>2, <2>3
<1>3. QED
  BY <1>1, <1>2 DEF Ordered

-----------------------------------------------------------------------------
(* The invariant.                                                          *)

LEMMA InitCapture ==
    ASSUME Init
    PROVE  IndInv
<1>1. TypeOK
  <2>1. rows \in Tables /\ atInstall \in Tables /\ journal = {} /\ IsFiniteSet({})
    BY FS_EmptySet DEF Init
  <2>2. lastSeq \in 0..MaxEntries /\ cursor \in 0..lastSeq
    BY CaptureAssumption DEF Init
  <2>3. QED
    BY <2>1, <2>2, EmptyTableType DEF Init, TypeOK
<1>2. QuietOK /\ OrderOK /\ NumbersOK
  BY DEF Init, QuietOK, OrderOK, NumbersOK, Everything
<1>3. LocksOK
  BY EmptyTableType, FS_EmptySet DEF Init, LocksOK, Writing
<1>4. SingleWriterOK
  BY FS_EmptySet DEF Init, SingleWriterOK
<1>5. QED
  BY <1>1, <1>2, <1>3, <1>4 DEF IndInv

LEMMA ViewTable ==
    ASSUME TypeOK, LocksOK, NEW t \in Sessions
    PROVE  View(t) \in Tables
<1>1. own[t] \in Tables /\ rows \in Tables
  BY DEF TypeOK, LocksOK
<1>2. View(t) \in [Keys -> Images] /\ \A k \in Keys : View(t)[k] # NoRow => View(t)[k].id = k
  BY <1>1 DEF View, Tables
<1>3. QED
  BY <1>2 DEF Tables

\* A transaction that has written nothing sees the committed table.
LEMMA IdleView ==
    ASSUME TypeOK, NEW t \in Sessions, ~Writing(t)
    PROVE  View(t) = rows
<1>1. rows \in [Keys -> Images] /\ locked[t] = {}
  BY DEF TypeOK, Tables, Writing
<1>2. QED
  BY <1>1 DEF View

\* ... and has no entry.
LEMMA IdleQuiet ==
    ASSUME LocksOK, NEW t \in Sessions, ~Writing(t)
    PROVE  pending[t] = {}
<1>1. \A e \in pending[t] : e.change.key \in TouchedKeys(e.change)
  BY DEF TouchedKeys
<1>2. QED
  BY <1>1 DEF LocksOK, Writing

LEMMA InstallCapture ==
    ASSUME IndInv, Install
    PROVE  IndInv'
<1> USE DEF IndInv
<1>1. UNCHANGED <<rows, journal, lastSeq, own, locked, pending, cursor, delivered>>
  BY DEF Install
<1>2. TypeOK'
  BY <1>1 DEF TypeOK, Install
<1>3. QuietOK' /\ LocksOK' /\ NumbersOK' /\ SingleWriterOK'
  BY <1>1 DEF QuietOK, LocksOK, NumbersOK, SingleWriterOK, Install, Writing, Everything
<1>4. \A t \in Sessions : View(t)' = View(t) /\ Journal(t)' = Journal(t)
  BY <1>1 DEF View, Journal
<1>5. CASE installed
  <2>1. atInstall' = atInstall
    BY <1>5 DEF Install
  <2>2. OrderOK'
    BY <1>1, <1>4, <1>5, <2>1 DEF OrderOK
  <2>3. QED
    BY <1>2, <1>3, <2>2
<1>6. CASE ~installed
  <2>1. atInstall' = rows /\ journal = {}
    BY <1>6 DEF Install, QuietOK
  <2>2. \A t \in Sessions : View(t) = rows /\ Journal(t) = {}
    BY <1>6, <2>1, IdleView DEF Install, QuietOK, Journal
  <2>3. Ordered(rows, rows, {})
    BY DEF Ordered, Ends
  <2>4. OrderOK'
    BY <1>1, <1>4, <2>1, <2>2, <2>3 DEF OrderOK
  <2>5. QED
    BY <1>2, <1>3, <2>4
<1>7. QED
  BY <1>5, <1>6

\* A row statement and the entry its trigger writes.
LEMMA WriteCapture ==
    ASSUME IndInv, NEW t \in Sessions, Write(t)
    PROVE  IndInv'
<1> USE DEF IndInv
<1>0. /\ View(t) \in Tables /\ lastSeq \in Nat /\ lastSeq <= MaxEntries /\ MaxEntries \in Nat
      /\ cursor \in Nat /\ cursor <= lastSeq
      /\ own \in [Sessions -> [Keys -> Images]] /\ locked \in [Sessions -> SUBSET Keys]
  BY ViewTable, CaptureAssumption DEF TypeOK
<1>1. PICK c \in LocalChanges(View(t)) : KeyIsFree(View(t), c) /\ Statement(t, c)
  BY DEF Write
<1>2. /\ c \in Changes /\ WellFormed(c) /\ Shaped(c) /\ Fits(View(t), c)
      /\ TouchedKeys(c) \subseteq Keys /\ c.key \in TouchedKeys(c)
      /\ Written(View(t), c) \in Tables
  <2>1. View(t) \in [Keys -> Images]
    BY <1>0 DEF Tables
  <2>2. c \in Changes
    BY <2>1, LocalChangesType
  <2>3. QED
    BY <1>0, <1>1, <2>2, LocalChangeFits, LocalChangeShaped, TouchedKeysType, WrittenTable
       DEF TouchedKeys
<1>3. /\ UNCHANGED <<installed, atInstall, rows, journal, cursor, delivered>>
      /\ own' = [own EXCEPT ![t] = Written(View(t), c)]
      /\ locked' = [locked EXCEPT ![t] = @ \cup TouchedKeys(c)]
  BY <1>1 DEF Statement
<1>4. \A u \in Sessions \ {t} :
         /\ TouchedKeys(c) \cap locked[u] = {}
         /\ ~OnPostgres => locked[u] = {}
  BY <1>1 DEF Statement, MustWait, Writing
<1>5. /\ own'[t] = Written(View(t), c) /\ locked'[t] = locked[t] \cup TouchedKeys(c)
      /\ \A u \in Sessions \ {t} : own'[u] = own[u] /\ locked'[u] = locked[u]
  BY <1>0, <1>3
<1>6. View(t)' = Written(View(t), c) /\ \A u \in Sessions \ {t} : View(u)' = View(u)
  <2>1. ASSUME NEW k \in Keys
        PROVE  (IF k \in locked'[t] THEN own'[t][k] ELSE rows'[k]) = Written(View(t), c)[k]
    <3>1. CASE k \in locked'[t]
      BY <1>5, <3>1
    <3>2. CASE k \notin locked'[t]
      <4>1. k \notin locked[t] /\ k \notin TouchedKeys(c)
        BY <1>5, <3>2
      <4>2. Written(View(t), c)[k] = View(t)[k]
        BY <4>1 DEF Written, TouchedKeys
      <4>3. View(t)[k] = rows[k]
        BY <4>1 DEF View
      <4>4. QED
        BY <1>3, <3>2, <4>2, <4>3
    <3>3. QED
      BY <3>1, <3>2
  <2>2. View(t)' = [k \in Keys |-> Written(View(t), c)[k]]
    BY <2>1 DEF View
  <2>3. View(t)' = Written(View(t), c)
    BY <2>2 DEF Written
  <2>4. \A u \in Sessions \ {t} : View(u)' = View(u)
    BY <1>3, <1>5 DEF View
  <2>5. QED
    BY <2>3, <2>4
<1>7. CASE ~installed
  <2>1. UNCHANGED <<lastSeq, pending>>
    BY <1>1, <1>7 DEF Statement
  <2>2. TypeOK'
    <3>1. own' \in [Sessions -> [Keys -> Images]]
      BY <1>0, <1>2, <1>3 DEF Tables
    <3>2. locked' \in [Sessions -> SUBSET Keys]
      BY <1>0, <1>2, <1>3
    <3>3. QED
      BY <1>3, <2>1, <3>1, <3>2 DEF TypeOK
  <2>3. LocksOK'
    <3>1. \A u \in Sessions : own'[u] \in Tables /\ IsFiniteSet(pending'[u]) /\ pending'[u] = {}
      BY <1>2, <1>5, <1>7, <2>1 DEF LocksOK, QuietOK
    <3>2. ASSUME NEW u \in Sessions, NEW v \in Sessions, u # v
          PROVE  /\ locked'[u] \cap locked'[v] = {}
                 /\ ~OnPostgres => ~(Writing(u)' /\ Writing(v)')
      BY <1>4, <1>5, <3>2 DEF LocksOK, Writing
    <3>3. QED
      BY <3>1, <3>2 DEF LocksOK
  <2>4. QuietOK' /\ NumbersOK' /\ SingleWriterOK' /\ OrderOK'
    BY <1>3, <1>7, <2>1 DEF QuietOK, NumbersOK, SingleWriterOK, OrderOK, Everything
  <2>5. QED
    BY <2>2, <2>3, <2>4
<1>8. CASE installed
  <2> DEFINE new == [seq |-> lastSeq + 1, change |-> c]
  <2>1. /\ new.seq = lastSeq + 1 /\ new.change = c
    OBVIOUS
  <2>2. new \in Entries
    BY <1>0, <1>2 DEF Entries
  <2>3. /\ lastSeq < MaxEntries /\ lastSeq' = lastSeq + 1
        /\ pending' = [pending EXCEPT ![t] = @ \cup {new}]
    BY <1>1, <1>8 DEF Statement
  <2> HIDE DEF new
  <2>4. /\ pending'[t] = pending[t] \cup {new}
        /\ \A u \in Sessions \ {t} : pending'[u] = pending[u]
    BY <2>3 DEF TypeOK
  <2>5. TypeOK'
    <3>1. own' \in [Sessions -> [Keys -> Images]]
      BY <1>0, <1>2, <1>3 DEF Tables
    <3>2. locked' \in [Sessions -> SUBSET Keys]
      BY <1>0, <1>2, <1>3
    <3>3. lastSeq' \in 0..MaxEntries /\ cursor' \in 0..lastSeq'
      BY <1>0, <1>3, <2>3
    <3>4. pending' \in [Sessions -> SUBSET Entries]
      BY <2>2, <2>3 DEF TypeOK
    <3>5. QED
      BY <1>3, <3>1, <3>2, <3>3, <3>4 DEF TypeOK
  <2>6. LocksOK'
    <3>1. ASSUME NEW u \in Sessions
          PROVE  /\ own'[u] \in Tables /\ IsFiniteSet(pending'[u])
                 /\ \A e \in pending'[u] : TouchedKeys(e.change) \subseteq locked'[u]
      <4>1. CASE u = t
        BY <1>2, <1>5, <2>1, <2>4, <4>1, FS_AddElement DEF LocksOK
      <4>2. CASE u # t
        BY <1>5, <2>4, <4>2 DEF LocksOK
      <4>3. QED
        BY <4>1, <4>2
    <3>2. ASSUME NEW u \in Sessions, NEW v \in Sessions, u # v
          PROVE  /\ locked'[u] \cap locked'[v] = {}
                 /\ ~OnPostgres => ~(Writing(u)' /\ Writing(v)')
      BY <1>4, <1>5, <3>2 DEF LocksOK, Writing
    <3>3. QED
      BY <3>1, <3>2 DEF LocksOK
  <2>7. Everything' = Everything \cup {new}
    BY <1>3, <2>4 DEF Everything
  <2>8. \A e \in Everything : e.seq \in Nat /\ e.seq <= lastSeq
    BY DEF NumbersOK, TypeOK, Everything, Entries
  <2>9. NumbersOK'
    <3>1. ASSUME NEW e \in Everything'
          PROVE  e.seq <= lastSeq' /\ WellFormed(e.change) /\ Shaped(e.change)
      BY <1>0, <1>2, <2>1, <2>3, <2>7, <2>8 DEF NumbersOK
    <3>2. ASSUME NEW e \in Everything', NEW f \in Everything', e.seq = f.seq PROVE e = f
      BY <1>0, <2>1, <2>7, <2>8, <3>2 DEF NumbersOK
    <3>3. QED
      BY <3>1, <3>2 DEF NumbersOK
  <2>10. SingleWriterOK'
    <3>1. SUFFICES ASSUME ~OnPostgres, NEW u \in Sessions
                   PROVE  /\ Cardinality(pending'[u]) <= lastSeq'
                          /\ cursor' <= lastSeq' - Cardinality(pending'[u])
                          /\ \A e \in journal' : e.seq <= lastSeq' - Cardinality(pending'[u])
                          /\ \A e \in pending'[u] : lastSeq' - Cardinality(pending'[u]) < e.seq
      BY DEF SingleWriterOK
    <3>2. CASE u = t
      <4>1. IsFiniteSet(pending[t]) /\ new \notin pending[t]
        BY <1>0, <2>1, <2>8 DEF LocksOK, Everything
      <4>2. Cardinality(pending'[t]) = Cardinality(pending[t]) + 1 /\ Cardinality(pending[t]) \in Nat
        BY <2>4, <4>1, FS_AddElement, FS_CardinalityType
      <4>3. lastSeq' - Cardinality(pending'[t]) = lastSeq - Cardinality(pending[t])
        BY <1>0, <2>3, <4>2
      <4>4. /\ Cardinality(pending[t]) <= lastSeq
            /\ cursor <= lastSeq - Cardinality(pending[t])
            /\ \A e \in journal : e.seq <= lastSeq - Cardinality(pending[t])
            /\ \A e \in pending[t] : lastSeq - Cardinality(pending[t]) < e.seq
        BY <3>1 DEF SingleWriterOK
      <4>5. lastSeq - Cardinality(pending[t]) < new.seq
        BY <1>0, <2>1, <4>2
      <4>6. Cardinality(pending'[t]) <= lastSeq'
        BY <1>0, <2>3, <4>2, <4>4
      <4>7. \A e \in pending'[t] : lastSeq - Cardinality(pending[t]) < e.seq
        BY <2>4, <4>4, <4>5
      <4>8. QED
        BY <1>3, <3>2, <4>3, <4>4, <4>6, <4>7
    <3>3. CASE u # t
      <4>1. pending'[u] = {}
        BY <1>4, <2>4, <3>1, <3>3, IdleQuiet DEF Writing
      <4>2. Cardinality(pending'[u]) = 0
        BY <4>1, FS_EmptySet
      <4>3. \A e \in journal : e.seq \in Nat /\ e.seq <= lastSeq
        BY <2>8 DEF Everything
      <4>4. QED
        BY <1>0, <1>3, <2>3, <4>1, <4>2, <4>3
    <3>4. QED
      BY <3>2, <3>3
  <2>11. OrderOK'
    <3>1. ASSUME NEW u \in Sessions PROVE Ordered(atInstall, View(u)', Journal(u)')
      <4>1. CASE u = t
        <5>1. Journal(t)' = Journal(t) \cup {new}
          BY <1>3, <2>4 DEF Journal
        <5>2. \A e \in Journal(t) : e.seq \in Nat /\ e.seq < lastSeq + 1
          BY <1>0, <2>8 DEF Journal, Everything
        <5>3. Ordered(atInstall, View(t), Journal(t))
          BY <1>8 DEF OrderOK
        <5>4. Ordered(atInstall, Written(View(t), c), Journal(t) \cup {new})
          BY <1>0, <1>2, <5>2, <5>3, OrderedWrite DEF new
        <5>5. QED
          BY <1>6, <4>1, <5>1, <5>4
      <4>2. CASE u # t
        <5>1. Journal(u)' = Journal(u)
          BY <1>3, <2>4, <4>2 DEF Journal
        <5>2. QED
          BY <1>6, <1>8, <4>2, <5>1 DEF OrderOK
      <4>3. QED
        BY <4>1, <4>2
    <3>2. QED
      BY <1>3, <1>8, <3>1 DEF OrderOK
  <2>12. QuietOK'
    BY <1>3, <1>8 DEF QuietOK
  <2>13. QED
    BY <2>5, <2>6, <2>9, <2>10, <2>11, <2>12
<1>9. QED
  BY <1>7, <1>8

\* The end of a transaction gives its keys back and leaves the others' alone.
LEMMA EndFacts ==
    ASSUME IndInv, NEW t \in Sessions, EndTransaction(t)
    PROVE  /\ UNCHANGED <<installed, atInstall, cursor, delivered>>
           /\ own' \in [Sessions -> [Keys -> Images]]
           /\ locked' \in [Sessions -> SUBSET Keys]
           /\ pending' \in [Sessions -> SUBSET Entries]
           /\ locked'[t] = {} /\ pending'[t] = {}
           /\ \A u \in Sessions \ {t} :
                 own'[u] = own[u] /\ locked'[u] = locked[u] /\ pending'[u] = pending[u]
           /\ LocksOK'
<1> USE DEF IndInv
<1>1. /\ UNCHANGED <<installed, atInstall, cursor, delivered>>
      /\ own' \in [Sessions -> [Keys -> Images]]
      /\ locked' \in [Sessions -> SUBSET Keys]
      /\ pending' \in [Sessions -> SUBSET Entries]
      /\ own'[t] = EmptyTable /\ locked'[t] = {} /\ pending'[t] = {}
      /\ \A u \in Sessions \ {t} :
            own'[u] = own[u] /\ locked'[u] = locked[u] /\ pending'[u] = pending[u]
  BY EmptyTableType DEF EndTransaction, TypeOK
<1>2. ASSUME NEW u \in Sessions
      PROVE  /\ own'[u] \in Tables /\ IsFiniteSet(pending'[u])
             /\ \A e \in pending'[u] : TouchedKeys(e.change) \subseteq locked'[u]
  BY <1>1, EmptyTableType, FS_EmptySet DEF LocksOK
<1>3. ASSUME NEW u \in Sessions, NEW v \in Sessions, u # v
      PROVE  /\ locked'[u] \cap locked'[v] = {}
             /\ ~OnPostgres => ~(Writing(u)' /\ Writing(v)')
  BY <1>1, <1>3 DEF LocksOK, Writing
<1>4. QED
  BY <1>1, <1>2, <1>3 DEF LocksOK

\* The entries of a transaction that commits join the journal.
LEMMA CommitCapture ==
    ASSUME IndInv, NEW t \in Sessions, Commit(t)
    PROVE  IndInv'
<1> USE DEF IndInv
<1>1. /\ UNCHANGED <<installed, atInstall, cursor, delivered, lastSeq>>
      /\ rows' = View(t) /\ journal' = journal \cup pending[t]
      /\ own' \in [Sessions -> [Keys -> Images]]
      /\ locked' \in [Sessions -> SUBSET Keys]
      /\ pending' \in [Sessions -> SUBSET Entries]
      /\ locked'[t] = {} /\ pending'[t] = {}
      /\ \A u \in Sessions \ {t} :
            own'[u] = own[u] /\ locked'[u] = locked[u] /\ pending'[u] = pending[u]
      /\ LocksOK' /\ Writing(t)
  BY EndFacts DEF Commit
<1>2. \A u \in Sessions \ {t} :
         /\ locked[u] \cap locked[t] = {}
         /\ ~OnPostgres => locked[u] = {} /\ pending[u] = {}
  BY <1>1, IdleQuiet DEF LocksOK, Writing
<1>3. TypeOK'
  <2>1. View(t) \in Tables
    BY ViewTable
  <2>2. IsFiniteSet(journal')
    BY <1>1, FS_Union DEF TypeOK, LocksOK
  <2>3. \A e \in journal' : e \in Entries /\ WellFormed(e.change)
    BY <1>1 DEF TypeOK, NumbersOK, Everything
  <2>4. QED
    BY <1>1, <2>1, <2>2, <2>3 DEF TypeOK
<1>4. QuietOK'
  BY <1>1 DEF QuietOK
<1>5. NumbersOK'
  <2>1. Everything' \subseteq Everything
    BY <1>1 DEF Everything
  <2>2. QED
    BY <1>1, <2>1 DEF NumbersOK
<1>6. SingleWriterOK'
  <2>1. SUFFICES ASSUME ~OnPostgres, NEW u \in Sessions
                 PROVE  /\ Cardinality(pending'[u]) <= lastSeq
                        /\ cursor <= lastSeq - Cardinality(pending'[u])
                        /\ \A e \in journal' : e.seq <= lastSeq - Cardinality(pending'[u])
                        /\ \A e \in pending'[u] : lastSeq - Cardinality(pending'[u]) < e.seq
    BY <1>1 DEF SingleWriterOK
  <2>2. pending'[u] = {}
    BY <1>1, <1>2, <2>1
  <2>3. Cardinality(pending'[u]) = 0
    BY <2>2, FS_EmptySet
  <2>4. lastSeq \in Nat /\ cursor \in Nat /\ cursor <= lastSeq
    BY CaptureAssumption DEF TypeOK
  <2>5. \A e \in journal' : e.seq \in Nat /\ e.seq <= lastSeq
    BY <1>1 DEF NumbersOK, Everything, TypeOK, Entries
  <2>6. QED
    BY <2>2, <2>3, <2>4, <2>5
<1>7. OrderOK'
  <2>1. SUFFICES ASSUME installed
                 PROVE  /\ Ordered(atInstall, rows', journal')
                        /\ \A u \in Sessions : Ordered(atInstall, View(u)', Journal(u)')
    BY <1>1 DEF OrderOK
  <2>2. Ordered(atInstall, View(t), journal \cup pending[t])
    BY <2>1 DEF OrderOK, Journal
  <2>3. Ordered(atInstall, rows', journal')
    BY <1>1, <2>2
  <2>4. ASSUME NEW u \in Sessions PROVE Ordered(atInstall, View(u)', Journal(u)')
    <3>1. CASE u = t
      <4>1. rows' \in [Keys -> Images]
        BY <1>3 DEF TypeOK, Tables
      <4>2. View(u)' = rows'
        BY <1>1, <3>1, <4>1 DEF View
      <4>3. Journal(u)' = journal'
        BY <1>1, <3>1 DEF Journal
      <4>4. QED
        BY <2>3, <4>2, <4>3
    <3>2. CASE u # t
      <4>1. Ordered(atInstall, View(u), journal \cup pending[u])
        BY <2>1 DEF OrderOK, Journal
      <4>2. \A k \in Keys, e \in pending[u], f \in pending[t] :
               ~(k \in TouchedKeys(e.change) /\ k \in TouchedKeys(f.change))
        BY <1>2, <3>2 DEF LocksOK
      <4>3. Journal(u)' = (journal \cup pending[t]) \cup pending[u]
        BY <1>1, <3>2 DEF Journal
      <4>4. ASSUME NEW k \in Keys
            PROVE  \/ View(u)'[k] = View(u)[k]
                      /\ \A f \in pending[t] : k \notin TouchedKeys(f.change)
                   \/ View(u)'[k] = View(t)[k]
                      /\ \A e \in pending[u] : k \notin TouchedKeys(e.change)
        <5>1. View(u)'[k] = IF k \in locked[u] THEN own[u][k] ELSE View(t)[k]
          BY <1>1, <3>2 DEF View
        <5>2. CASE k \in locked[u]
          <6>1. View(u)'[k] = View(u)[k]
            BY <5>1, <5>2 DEF View
          <6>2. \A f \in pending[t] : k \notin TouchedKeys(f.change)
            BY <1>2, <3>2, <5>2 DEF LocksOK
          <6>3. QED
            BY <6>1, <6>2
        <5>3. CASE k \notin locked[u]
          BY <5>1, <5>3 DEF LocksOK
        <5>4. QED
          BY <5>2, <5>3
      <4>5. PICK v : v = View(u)'
        OBVIOUS
      <4>6. Ordered(atInstall, v, (journal \cup pending[t]) \cup pending[u])
        BY <2>2, <4>1, <4>2, <4>4, <4>5, OrderedMerge
      <4>7. QED
        BY <4>3, <4>5, <4>6
    <3>3. QED
      BY <3>1, <3>2
  <2>5. QED
    BY <2>3, <2>4
<1>8. QED
  BY <1>1, <1>3, <1>4, <1>5, <1>6, <1>7

\* A rollback forgets its entries; on SQLite their numbers come back.
LEMMA RollbackCapture ==
    ASSUME IndInv, NEW t \in Sessions, Rollback(t)
    PROVE  IndInv'
<1> USE DEF IndInv
<1>1. /\ UNCHANGED <<installed, atInstall, cursor, delivered, rows, journal>>
      /\ own' \in [Sessions -> [Keys -> Images]]
      /\ locked' \in [Sessions -> SUBSET Keys]
      /\ pending' \in [Sessions -> SUBSET Entries]
      /\ locked'[t] = {} /\ pending'[t] = {}
      /\ \A u \in Sessions \ {t} :
            own'[u] = own[u] /\ locked'[u] = locked[u] /\ pending'[u] = pending[u]
      /\ LocksOK' /\ Writing(t)
      /\ lastSeq' = IF OnPostgres THEN lastSeq ELSE lastSeq - Cardinality(pending[t])
  BY EndFacts DEF Rollback
<1>2. \A u \in Sessions \ {t} : ~OnPostgres => pending[u] = {}
  BY <1>1, IdleQuiet DEF LocksOK
<1>3. /\ lastSeq \in Nat /\ lastSeq <= MaxEntries /\ MaxEntries \in Nat
      /\ cursor \in Nat /\ cursor <= lastSeq /\ Cardinality(pending[t]) \in Nat
  BY CaptureAssumption, FS_CardinalityType DEF TypeOK, LocksOK
<1>4. /\ lastSeq' \in 0..MaxEntries /\ cursor' \in 0..lastSeq'
      /\ \A e \in journal : e.seq <= lastSeq'
  <2>1. CASE OnPostgres
    BY <1>1, <1>3, <2>1 DEF NumbersOK, Everything
  <2>2. CASE ~OnPostgres
    <3>1. /\ Cardinality(pending[t]) <= lastSeq
          /\ cursor <= lastSeq - Cardinality(pending[t])
          /\ \A e \in journal : e.seq <= lastSeq - Cardinality(pending[t])
      BY <2>2 DEF SingleWriterOK
    <3>2. QED
      BY <1>1, <1>3, <2>2, <3>1
  <2>3. QED
    BY <2>1, <2>2
<1>5. TypeOK'
  BY <1>1, <1>4 DEF TypeOK
<1>6. QuietOK'
  <2>1. SUFFICES ASSUME ~installed'
                 PROVE  journal' = {} /\ lastSeq' = 0 /\ \A u \in Sessions : pending'[u] = {}
    BY DEF QuietOK
  <2>2. journal = {} /\ lastSeq = 0 /\ \A u \in Sessions : pending[u] = {}
    BY <1>1, <2>1 DEF QuietOK
  <2>3. Cardinality(pending[t]) = 0
    BY <2>2, FS_EmptySet
  <2>4. lastSeq' = 0
    BY <1>1, <2>2, <2>3
  <2>5. QED
    BY <1>1, <2>2, <2>4
<1>7. NumbersOK'
  <2>1. Everything' \subseteq Everything
    BY <1>1 DEF Everything
  <2>2. ASSUME NEW e \in Everything' PROVE e.seq <= lastSeq'
    <3>1. CASE OnPostgres
      BY <1>1, <2>1, <3>1 DEF NumbersOK
    <3>2. CASE ~OnPostgres
      <4>1. e \in journal
        BY <1>1, <1>2, <3>2 DEF Everything
      <4>2. QED
        BY <1>4, <4>1
    <3>3. QED
      BY <3>1, <3>2
  <2>3. QED
    BY <2>1, <2>2 DEF NumbersOK
<1>8. SingleWriterOK'
  <2>1. SUFFICES ASSUME ~OnPostgres, NEW u \in Sessions
                 PROVE  /\ Cardinality(pending'[u]) <= lastSeq'
                        /\ cursor' <= lastSeq' - Cardinality(pending'[u])
                        /\ \A e \in journal' : e.seq <= lastSeq' - Cardinality(pending'[u])
                        /\ \A e \in pending'[u] : lastSeq' - Cardinality(pending'[u]) < e.seq
    BY DEF SingleWriterOK
  <2>2. pending'[u] = {}
    BY <1>1, <1>2, <2>1
  <2>3. Cardinality(pending'[u]) = 0
    BY <2>2, FS_EmptySet
  <2>4. lastSeq' \in Nat /\ cursor' <= lastSeq' /\ 0 <= lastSeq' /\ lastSeq' - 0 = lastSeq'
    <3>1. PICK s : s = lastSeq'
      OBVIOUS
    <3>2. s \in 0..MaxEntries /\ cursor' \in 0..s
      BY <1>4, <3>1
    <3>3. s \in Nat /\ cursor' <= s /\ 0 <= s /\ s - 0 = s
      BY <1>3, <3>2
    <3>4. QED
      BY <3>1, <3>3
  <2>5. QED
    BY <1>1, <1>4, <2>2, <2>3, <2>4
<1>9. OrderOK'
  <2>1. ASSUME NEW u \in Sessions, installed PROVE Ordered(atInstall, View(u)', Journal(u)')
    <3>1. CASE u = t
      <4>1. rows' \in [Keys -> Images]
        BY <1>5 DEF TypeOK, Tables
      <4>2. View(u)' = rows /\ Journal(u)' = journal
        BY <1>1, <3>1, <4>1 DEF View, Journal
      <4>3. QED
        BY <2>1, <4>2 DEF OrderOK
    <3>2. CASE u # t
      <4>1. View(u)' = View(u) /\ Journal(u)' = Journal(u)
        BY <1>1, <3>2 DEF View, Journal
      <4>2. QED
        BY <2>1, <4>1 DEF OrderOK
    <3>3. QED
      BY <3>1, <3>2
  <2>2. QED
    BY <1>1, <2>1 DEF OrderOK
<1>10. QED
  BY <1>1, <1>5, <1>6, <1>7, <1>8, <1>9

\* The reader moves to the last entry of its batch.
LEMMA ReadCapture ==
    ASSUME IndInv, Read
    PROVE  IndInv'
<1> USE DEF IndInv
<1>1. /\ UNCHANGED <<installed, atInstall, rows, journal, lastSeq, own, locked, pending>>
      /\ delivered' = delivered \cup Batch /\ Batch \subseteq journal
  BY DEF Read, Batch
<1>2. PICK e \in journal : cursor' = e.seq
  BY <1>1 DEF Read
<1>3. cursor' \in 0..lastSeq
  BY <1>2, CaptureAssumption DEF TypeOK, Entries, NumbersOK, Everything
<1>4. TypeOK'
  BY <1>1, <1>3 DEF TypeOK
<1>5. SingleWriterOK'
  <2>1. \A t \in Sessions : ~OnPostgres => cursor' <= lastSeq - Cardinality(pending[t])
    BY <1>2 DEF SingleWriterOK
  <2>2. QED
    BY <1>1, <2>1 DEF SingleWriterOK
<1>6. QuietOK' /\ LocksOK' /\ NumbersOK' /\ OrderOK'
  BY <1>1 DEF QuietOK, LocksOK, NumbersOK, OrderOK, Writing, Everything, View, Journal
<1>7. QED
  BY <1>4, <1>5, <1>6

LEMMA NextCapture == IndInv /\ [Next]_vars => IndInv'
<1> SUFFICES ASSUME IndInv, [Next]_vars PROVE IndInv'
  OBVIOUS
<1>1. CASE UNCHANGED vars
  BY <1>1 DEF vars, IndInv, TypeOK, QuietOK, LocksOK, NumbersOK, SingleWriterOK, OrderOK,
              Writing, Everything, View, Journal
<1>2. CASE Next
  BY <1>2, InstallCapture, WriteCapture, CommitCapture, RollbackCapture, ReadCapture DEF Next
<1>3. QED
  BY <1>1, <1>2

-----------------------------------------------------------------------------
(* Retelling the journal.                                                  *)

\* An entry leads from a table to a table.
LEMMA RetellType ==
    ASSUME IndInv, NEW t \in [Keys -> Images], NEW n
    PROVE  Retell(t, n) \in [Keys -> Images]
<1>1. CASE \E e \in journal : e.seq = n
  <2>1. EntryAt(n) \in journal
    BY <1>1 DEF EntryAt
  <2>2. EntryAt(n).change \in Changes
    BY <2>1 DEF IndInv, TypeOK, Entries
  <2>3. QED
    BY <1>1, <2>2, WrittenType DEF Retell
<1>2. CASE ~\E e \in journal : e.seq = n
  BY <1>2 DEF Retell
<1>3. QED
  BY <1>1, <1>2

\* The equation that defines Retold has a solution.
LEMMA RetoldExists ==
    ASSUME IndInv
    PROVE  \E f \in [0..lastSeq -> [Keys -> Images]] :
              f[0] = atInstall /\ \A n \in 1..lastSeq : f[n] = Retell(f[n - 1], n)
<1> DEFINE T == [Keys -> Images]
           N == lastSeq
           base == atInstall
           step == [n \in 1..N |-> [t \in T |-> Retell(t, n)]]
<1>1. base \in T /\ N \in Nat
  BY CaptureAssumption DEF IndInv, TypeOK, Tables
<1>2. step \in [1..N -> [T -> T]]
  <2>1. ASSUME NEW n \in 1..N, NEW t \in T PROVE Retell(t, n) \in T
    BY RetellType
  <2>2. QED
    BY <2>1
<1>3. PICK f \in [0..N -> T] : f[0] = base /\ \A n \in 1..N : f[n] = step[n][f[n - 1]]
  <2> HIDE DEF T, N, base, step
  <2>1. QED
    BY <1>1, <1>2, RecursionExists
<1>4. ASSUME NEW n \in 1..N PROVE f[n] = Retell(f[n - 1], n)
  <2>1. n - 1 \in 0..N
    BY <1>1
  <2>2. f[n - 1] \in T
    BY <1>3, <2>1
  <2>3. f[n] = step[n][f[n - 1]]
    BY <1>3
  <2>4. QED
    BY <2>2, <2>3
<1>5. QED
  BY <1>3, <1>4

\* The equation of Retold.
LEMMA RetoldFacts ==
    ASSUME IndInv
    PROVE  /\ Retold[0] = atInstall
           /\ \A n \in 1..lastSeq : Retold[n] = Retell(Retold[n - 1], n)
<1> DEFINE N == lastSeq
           After(f) == [n \in 0..N |-> IF n = 0 THEN atInstall ELSE Retell(f[n - 1], n)]
           r == Retold
<1>1. N \in Nat
  BY CaptureAssumption DEF IndInv, TypeOK
<1>2. PICK f \in [0..N -> [Keys -> Images]] :
          f[0] = atInstall /\ \A n \in 1..N : f[n] = Retell(f[n - 1], n)
  BY RetoldExists
<1>3. f = After(f)
  <2>1. ASSUME NEW n \in 0..N
        PROVE  f[n] = IF n = 0 THEN atInstall ELSE Retell(f[n - 1], n)
    <3>1. CASE n = 0
      BY <1>2, <3>1
    <3>2. CASE n # 0
      <4>1. n \in 1..N
        BY <1>1, <3>2
      <4>2. QED
        BY <1>2, <3>2, <4>1
    <3>3. QED
      BY <3>1, <3>2
  <2>2. QED
    BY <2>1
<1>4. r = CHOOSE g : g = After(g)
  BY DEF Retold
<1>5. r = After(r)
  <2> HIDE DEF After
  <2>1. QED
    BY <1>3, <1>4
<1>6. QED
  <2> HIDE DEF r
  <2>1. \A n \in 0..N : r[n] = IF n = 0 THEN atInstall ELSE Retell(r[n - 1], n)
    BY <1>5
  <2>2. r[0] = atInstall /\ \A n \in 1..N : r[n] = Retell(r[n - 1], n)
    BY <1>1, <2>1
  <2>3. QED
    BY <2>2 DEF r

\* Every table retold is one.
LEMMA RetoldTables ==
    ASSUME IndInv
    PROVE  \A n \in 0..lastSeq : Retold[n] \in [Keys -> Images]
<1> DEFINE S == {n \in Nat : n <= lastSeq => Retold[n] \in [Keys -> Images]}
<1>0. lastSeq \in Nat /\ atInstall \in [Keys -> Images]
  BY CaptureAssumption DEF IndInv, TypeOK, Tables
<1>1. 0 \in S
  BY <1>0, RetoldFacts
<1>2. ASSUME NEW n \in Nat, n \in S PROVE n + 1 \in S
  <2>1. SUFFICES ASSUME n + 1 <= lastSeq PROVE Retold[n + 1] \in [Keys -> Images]
    OBVIOUS
  <2>2. n + 1 \in 1..lastSeq /\ (n + 1) - 1 = n /\ Retold[n] \in [Keys -> Images]
    BY <1>0, <1>2, <2>1
  <2>3. Retold[n + 1] = Retell(Retold[n], n + 1)
    BY <2>2, RetoldFacts
  <2>4. QED
    BY <2>2, <2>3, RetellType
<1>3. Nat \subseteq S
  <2> HIDE DEF S
  <2>1. QED
    BY <1>1, <1>2, SetInduction
<1>4. QED
  BY <1>0, <1>3

\* The n-th table retold is what the entries up to n leave.
LEMMA RetoldEnds ==
    ASSUME IndInv
    PROVE  \A n \in 0..lastSeq : \A k \in Keys :
              Ends(atInstall[k], Retold[n][k], k, {e \in journal : e.seq <= n})
<1> DEFINE Leads(n) == \A k \in Keys :
              Ends(atInstall[k], Retold[n][k], k, {e \in journal : e.seq <= n})
           S == {n \in Nat : n <= lastSeq => Leads(n)}
<1>0. /\ lastSeq \in Nat
      /\ \A e \in journal : e.seq \in Nat /\ e.seq # 0 /\ e.change \in Changes
      /\ \A e, f \in journal : e.seq = f.seq => e = f
  BY CaptureAssumption DEF IndInv, TypeOK, Entries, NumbersOK, Everything
<1>1. 0 \in S
  <2>1. {e \in journal : e.seq <= 0} = {}
    BY <1>0
  <2>2. QED
    BY <1>0, <2>1, RetoldFacts DEF Ends
<1>2. ASSUME NEW n \in Nat, n \in S PROVE n + 1 \in S
  <2>1. SUFFICES ASSUME n + 1 <= lastSeq, NEW k \in Keys
                 PROVE  Ends(atInstall[k], Retold[n + 1][k], k, {e \in journal : e.seq <= n + 1})
    OBVIOUS
  <2>2. n + 1 \in 1..lastSeq /\ (n + 1) - 1 = n
    BY <1>0, <2>1
  <2>3. Ends(atInstall[k], Retold[n][k], k, {e \in journal : e.seq <= n})
    BY <1>0, <1>2, <2>1
  <2>4. Retold[n + 1] = Retell(Retold[n], n + 1)
    BY <2>2, RetoldFacts
  <2>5. CASE \E e \in journal : e.seq = n + 1
    <3>1. PICK e : e = EntryAt(n + 1)
      OBVIOUS
    <3>2. e \in journal /\ e.seq = n + 1
      BY <2>5, <3>1 DEF EntryAt
    <3>3. Retold[n + 1] = Written(Retold[n], e.change)
      BY <2>4, <2>5, <3>1 DEF Retell
    <3>4. {f \in journal : f.seq <= n + 1} = {f \in journal : f.seq <= n} \cup {e}
      BY <1>0, <3>2
    <3>5. CASE k \in TouchedKeys(e.change)
      <4>1. Retold[n + 1][k] = Leaves(e.change, k)
        BY <1>0, <3>2, <3>3, <3>5, WrittenTouched
      <4>2. \A f \in {g \in journal : g.seq <= n} : f.seq \in Nat /\ f.seq < e.seq
        BY <1>0, <3>2
      <4>3. e.seq \in Nat
        BY <3>2
      <4>4. Ends(atInstall[k], Leaves(e.change, k), k, {f \in journal : f.seq <= n} \cup {e})
        BY <3>5, <4>2, <4>3, EndsLast
      <4>5. QED
        BY <3>4, <4>1, <4>4
    <3>6. CASE k \notin TouchedKeys(e.change)
      <4>1. Retold[n + 1][k] = Retold[n][k]
        BY <3>3, <3>6 DEF Written, TouchedKeys
      <4>2. Ends(atInstall[k], Retold[n][k], k, {f \in journal : f.seq <= n} \cup {e})
        BY <2>3, <3>6, EndsSame
      <4>3. QED
        BY <3>4, <4>1, <4>2
    <3>7. QED
      BY <3>5, <3>6
  <2>6. CASE ~\E e \in journal : e.seq = n + 1
    <3>1. Retold[n + 1] = Retold[n]
      BY <2>4, <2>6 DEF Retell
    <3>2. {f \in journal : f.seq <= n + 1} = {f \in journal : f.seq <= n}
      BY <1>0, <2>6
    <3>3. QED
      BY <2>3, <3>1, <3>2
  <2>7. QED
    BY <2>5, <2>6
<1>3. Nat \subseteq S
  <2> HIDE DEF S
  <2>1. QED
    BY <1>1, <1>2, SetInduction
<1>4. QED
  BY <1>0, <1>3

\* A change that takes from each of its keys what the table holds there fits.
LEMMA TakesFits ==
    ASSUME NEW t, NEW c \in Changes, WellFormed(c), Shaped(c),
           \A k \in Keys : k \in TouchedKeys(c) => t[k] = Takes(c, k)
    PROVE  Fits(t, c)
<1>1. TouchedKeys(c) \subseteq Keys /\ c.key \in TouchedKeys(c)
      /\ (c.after # NoRow => c.after.id \in TouchedKeys(c))
  BY TouchedKeysType DEF TouchedKeys
<1>2. t[c.key] = c.before /\ (c.after # NoRow /\ c.after.id # c.key => t[c.after.id] = NoRow)
  BY <1>1 DEF Takes
<1>3. KeyIsFree(t, c)
  BY <1>2 DEF KeyIsFree, Load, WellFormed, Shaped
<1>4. c.kind \in {"update", "delete"} => BeforeMatches(t, c)
  BY <1>2 DEF BeforeMatches, Load, WellFormed
<1>5. QED
  BY <1>3, <1>4 DEF Fits

-----------------------------------------------------------------------------
(* The reader of a SQLite journal.                                         *)

\* A batch ends at its entry with the highest sequence, and holds every entry
\* between the cursor and that one.
LEMMA BatchIsPrefix ==
    ASSUME IndInv, NEW last \in Batch, NEW e \in journal,
           cursor < e.seq, e.seq <= last.seq
    PROVE  e \in Batch
<1> DEFINE later == {f \in journal : f.seq > cursor}
           UpTo(n) == {f \in later : f.seq <= n}
<1>1. /\ IsFiniteSet(journal) /\ cursor \in Nat /\ ReadLimit \in Nat
      /\ \A f \in journal : f.seq \in Nat
  BY CaptureAssumption DEF IndInv, TypeOK, Entries
<1>2. last \in journal /\ Cardinality(UpTo(last.seq)) <= ReadLimit
  BY DEF Batch
<1>3. IsFiniteSet(UpTo(last.seq))
  <2>1. UpTo(last.seq) \subseteq journal
    OBVIOUS
  <2>2. QED
    BY <1>1, <2>1, FS_Subset
<1>4. UpTo(e.seq) \subseteq UpTo(last.seq)
  BY <1>1, <1>2
<1>5. /\ IsFiniteSet(UpTo(e.seq))
      /\ Cardinality(UpTo(e.seq)) <= Cardinality(UpTo(last.seq))
  BY <1>3, <1>4, FS_Subset
<1>6. Cardinality(UpTo(e.seq)) <= ReadLimit
  <2> DEFINE x == Cardinality(UpTo(e.seq))
             y == Cardinality(UpTo(last.seq))
  <2>1. x \in Nat /\ y \in Nat /\ x <= y /\ y <= ReadLimit
    BY <1>2, <1>3, <1>5, FS_CardinalityType
  <2> HIDE DEF x, y
  <2>2. x <= ReadLimit
    BY <1>1, <2>1
  <2>3. QED
    BY <2>2 DEF x
<1>7. e \in later
  BY <1>1
<1>8. QED
  BY <1>6, <1>7 DEF Batch

\* What a step does to the entries the cursor has passed.
LEMMA NextSkipsNothing ==
    ASSUME ~OnPostgres, IndInv, NothingSkipped, [Next]_vars
    PROVE  NothingSkipped'
<1>1. CASE UNCHANGED <<journal, cursor, delivered>>
  BY <1>1 DEF NothingSkipped
<1>2. CASE \E t \in Sessions : Commit(t)
  <2>1. PICK t \in Sessions : Commit(t)
    BY <1>2
  <2>2. journal' = journal \cup pending[t] /\ UNCHANGED <<cursor, delivered>>
    BY <2>1 DEF Commit, EndTransaction
  <2>3. ASSUME NEW e \in pending[t] PROVE ~(e.seq <= cursor)
    <3>1. PICK n : n = Cardinality(pending[t])
      OBVIOUS
    <3>2. n \in Nat
      BY <3>1, FS_CardinalityType DEF IndInv, LocksOK
    <3>3. cursor <= lastSeq - n /\ lastSeq - n < e.seq
      BY <3>1 DEF IndInv, SingleWriterOK
    <3>4. cursor \in Nat /\ lastSeq \in Nat /\ e.seq \in Nat
      BY CaptureAssumption DEF IndInv, TypeOK, Entries
    <3>5. QED
      BY <3>2, <3>3, <3>4
  <2>4. QED
    BY <2>2, <2>3 DEF NothingSkipped
<1>3. CASE Read
  <2>1. /\ journal' = journal /\ delivered' = delivered \cup Batch
        /\ \E e \in Batch : cursor' = e.seq
    BY <1>3 DEF Read
  <2>2. PICK last \in Batch : cursor' = last.seq
    BY <2>1
  <2>3. ASSUME NEW e \in journal, e.seq <= last.seq PROVE e \in delivered \cup Batch
    <3>1. CASE e.seq <= cursor
      BY <3>1 DEF NothingSkipped
    <3>2. CASE cursor < e.seq
      BY <2>3, <3>2, BatchIsPrefix
    <3>3. cursor \in Nat /\ e.seq \in Nat
      BY CaptureAssumption DEF IndInv, TypeOK, Entries
    <3>4. QED
      BY <3>1, <3>2, <3>3
  <2>4. QED
    BY <2>1, <2>2, <2>3 DEF NothingSkipped
<1>4. QED
  BY <1>1, <1>2, <1>3 DEF Next, vars, Install, Write, Statement, Rollback, EndTransaction

-----------------------------------------------------------------------------
(* The theorems.                                                           *)

\* Sequences are handed out once, a transaction holds the keys of its entries,
\* and entries and tables agree key by key.
THEOREM Inductive == Spec => []IndInv
BY InitCapture, NextCapture, PTL DEF Spec

\* A rollback never takes the counter below the cursor, and the reader only
\* ever delivers committed entries.
THEOREM TypeCorrect == Spec => []TypeOK
<1>1. IndInv => TypeOK
  BY DEF IndInv
<1>2. QED
  BY <1>1, Inductive, PTL

\* On either engine the order of the sequences agrees with the commits row by
\* row: replayed in that order, every entry of the journal meets the row its
\* images speak of, and the last table is the committed one.
THEOREM RetellsTable == Spec => []JournalRetellsTable
<1>1. IndInv => JournalRetellsTable
  <2> SUFFICES ASSUME IndInv, installed
               PROVE  /\ \A e, f \in journal : e.seq = f.seq => e = f
                      /\ \A e \in journal : Fits(Retold[e.seq - 1], e.change)
                      /\ Retold[lastSeq] = rows
    BY DEF JournalRetellsTable
  <2>1. /\ \A e, f \in journal : e.seq = f.seq => e = f
        /\ \A e \in journal : /\ e.seq \in Nat /\ e.seq # 0 /\ e.seq <= lastSeq
                              /\ e.change \in Changes
                              /\ WellFormed(e.change) /\ Shaped(e.change)
        /\ lastSeq \in Nat /\ rows \in [Keys -> Images]
        /\ Ordered(atInstall, rows, journal)
    BY CaptureAssumption DEF IndInv, TypeOK, Entries, NumbersOK, Everything, OrderOK, Tables
  <2>2. ASSUME NEW e \in journal PROVE Fits(Retold[e.seq - 1], e.change)
    <3>1. e.seq - 1 \in 0..lastSeq
      BY <2>1
    <3>2. {f \in journal : f.seq <= e.seq - 1} = {f \in journal : f.seq < e.seq}
      BY <2>1
    <3>3. ASSUME NEW k \in Keys, k \in TouchedKeys(e.change)
          PROVE  Retold[e.seq - 1][k] = Takes(e.change, k)
      <4>1. Ends(atInstall[k], Retold[e.seq - 1][k], k, {f \in journal : f.seq < e.seq})
        BY <3>1, <3>2, RetoldEnds
      <4>2. Ends(atInstall[k], Takes(e.change, k), k, {f \in journal : f.seq < e.seq})
        BY <2>1, <3>3 DEF Ordered
      <4>3. /\ \A f \in {g \in journal : g.seq < e.seq} : f.seq \in Nat
            /\ \A f, g \in {h \in journal : h.seq < e.seq} : f.seq = g.seq => f = g
        BY <2>1
      <4>4. QED
        BY <4>1, <4>2, <4>3, EndsUnique
    <3>4. QED
      BY <2>1, <3>3, TakesFits
  <2>3. Retold[lastSeq] = rows
    <3>1. {f \in journal : f.seq <= lastSeq} = journal /\ lastSeq \in 0..lastSeq
      BY <2>1
    <3>2. ASSUME NEW k \in Keys PROVE Retold[lastSeq][k] = rows[k]
      <4>1. Ends(atInstall[k], Retold[lastSeq][k], k, journal)
        BY <3>1, RetoldEnds
      <4>2. Ends(atInstall[k], rows[k], k, journal)
        BY <2>1 DEF Ordered
      <4>3. QED
        BY <2>1, <4>1, <4>2, EndsUnique
    <3>3. Retold[lastSeq] \in [Keys -> Images]
      BY <3>1, RetoldTables
    <3>4. QED
      BY <2>1, <3>2, <3>3
  <2>4. QED
    BY <2>1, <2>2, <2>3
<1>2. QED
  BY <1>1, Inductive, PTL

\* On SQLite the reader's cursor passes no entry it has not delivered: the one
\* transaction that writes holds the highest numbers, so what is committed
\* later is numbered later.  (On PostgreSQL the property fails.)
THEOREM SkipsNothing == ~OnPostgres => (Spec => []NothingSkipped)
<1> SUFFICES ASSUME ~OnPostgres PROVE Spec => []NothingSkipped
  OBVIOUS
<1>1. Init => NothingSkipped
  BY DEF Init, NothingSkipped
<1>2. IndInv /\ NothingSkipped /\ [Next]_vars => NothingSkipped'
  BY NextSkipsNothing
<1>3. QED
  BY <1>1, <1>2, Inductive, PTL DEF Spec

=============================================================================
