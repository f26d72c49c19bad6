-------------------------- MODULE ChangeStreamProofs --------------------------
(***************************************************************************)
(* What the proofs of several components need: the operators of            *)
(* ChangeStream keep their types, and a replay is determined change by     *)
(* change.                                                                 *)
(***************************************************************************)
EXTENDS ChangeStream, Induction, SequenceTheorems

-----------------------------------------------------------------------------
(* The operators of ChangeStream keep their types.                         *)

\* A row that is there has a key.
LEMMA RowKey ==
    ASSUME NEW r \in Images, r # NoRow
    PROVE  r \in Rows /\ r.id \in Keys
BY DEF Images, Rows

\* An entry a trigger writes for a statement on a table is a change.
LEMMA LocalChangesType ==
    ASSUME NEW t \in [Keys -> Images], NEW c \in LocalChanges(t)
    PROVE  c \in Changes
<1>1. CASE \E r \in Rows : c = InsertChange(r)
  BY <1>1 DEF InsertChange, Changes, ChangeKinds, Images, Rows
<1>2. CASE \E k \in Keys : t[k] # NoRow /\ c = DeleteChange(t[k])
  <2>1. PICK k \in Keys : t[k] # NoRow /\ c = DeleteChange(t[k])
    BY <1>2
  <2>2. t[k] \in Images /\ t[k].id \in Keys
    BY <2>1, RowKey
  <2>3. QED
    BY <2>1, <2>2 DEF DeleteChange, Changes, ChangeKinds, Images
<1>3. CASE \E k \in Keys, r \in Rows : t[k] # NoRow /\ c = UpdateChange(t[k], r)
  <2>1. PICK k \in Keys, r \in Rows : t[k] # NoRow /\ c = UpdateChange(t[k], r)
    BY <1>3
  <2>2. t[k] \in Images /\ t[k].id \in Keys
    BY <2>1, RowKey
  <2>3. QED
    BY <2>1, <2>2 DEF UpdateChange, Changes, ChangeKinds, Images
<1>4. QED
  BY <1>1, <1>2, <1>3 DEF LocalChanges

\* Writing a change into a table leaves a table.
LEMMA WrittenType ==
    ASSUME NEW t \in [Keys -> Images], NEW c \in Changes
    PROVE  Written(t, c) \in [Keys -> Images]
<1>1. \A k \in Keys :
        (IF c.after # NoRow /\ k = c.after.id THEN c.after
         ELSE IF k = c.key THEN NoRow ELSE t[k]) \in Images
  BY DEF Changes, Images
<1>2. QED
  BY <1>1 DEF Written

\* A change touches keys.
LEMMA TouchedKeysType ==
    ASSUME NEW c \in Changes
    PROVE  TouchedKeys(c) \subseteq Keys
<1>1. c.key \in Keys /\ c.after \in Images
  BY DEF Changes
<1>2. QED
  BY <1>1, RowKey DEF TouchedKeys

\* A change leaves the rows of other keys alone.
LEMMA WrittenUntouched ==
    ASSUME NEW t, NEW c, NEW k \in Keys, k \notin TouchedKeys(c)
    PROVE  Written(t, c)[k] = t[k]
BY DEF Written, TouchedKeys

\* What a change leaves at a key depends on no other row.
LEMMA WrittenAgrees ==
    ASSUME NEW t, NEW u, NEW c, NEW k \in Keys, t[k] = u[k]
    PROVE  Written(t, c)[k] = Written(u, c)[k]
BY DEF Written

-----------------------------------------------------------------------------
(* Replaying a journal.                                                    *)

\* A replay exists: one table for each prefix of the changes.
LEMMA ReplayExists ==
    \A base, changes :
        base \in [Keys -> Images] /\ changes \in Seq(Changes) =>
            \E f \in [0..Len(changes) -> [Keys -> Images]] :
                /\ f[0] = base
                /\ \A n \in 1..Len(changes) : f[n] = Written(f[n - 1], changes[n])
<1>1. ASSUME NEW base, NEW changes,
             base \in [Keys -> Images] /\ changes \in Seq(Changes)
      PROVE  \E f \in [0..Len(changes) -> [Keys -> Images]] :
                /\ f[0] = base
                /\ \A n \in 1..Len(changes) : f[n] = Written(f[n - 1], changes[n])
  <2> DEFINE T == [Keys -> Images]
             N == Len(changes)
             step == [n \in 1..N |-> [t \in T |-> Written(t, changes[n])]]
  <2>1. base \in T /\ N \in Nat
    BY <1>1
  <2>2. \A n \in 1..N : changes[n] \in Changes
    BY <1>1
  <2>3. step \in [1..N -> [T -> T]]
    <3>1. ASSUME NEW n \in 1..N, NEW t \in T PROVE Written(t, changes[n]) \in T
      BY <2>2, WrittenType
    <3>2. QED
      BY <3>1
  <2>4. PICK f \in [0..N -> T] : f[0] = base /\ \A n \in 1..N : f[n] = step[n][f[n - 1]]
    <3> HIDE DEF T, N, step
    <3>1. QED
      BY <2>1, <2>3, RecursionExists
  <2>5. ASSUME NEW n \in 1..N PROVE f[n] = Written(f[n - 1], changes[n])
    <3>1. f[n - 1] \in T
      BY <2>1
    <3>2. f[n] = step[n][f[n - 1]]
      BY <2>4
    <3>3. QED
      BY <3>1, <3>2
  <2>6. QED
    BY <2>4, <2>5
<1>2. QED
  BY <1>1

\* The equation of a replay, and the type of its tables.
LEMMA ReplayFacts ==
    ASSUME NEW base \in [Keys -> Images], NEW changes \in Seq(Changes)
    PROVE  /\ Replay(base, changes) \in [0..Len(changes) -> [Keys -> Images]]
           /\ Replay(base, changes)[0] = base
           /\ \A n \in 1..Len(changes) :
                 Replay(base, changes)[n]
                     = Written(Replay(base, changes)[n - 1], changes[n])
<1> DEFINE T == [Keys -> Images]
           N == Len(changes)
           After(f) == [n \in 0..N |-> IF n = 0 THEN base
                                       ELSE Written(f[n - 1], changes[n])]
           r == Replay(base, changes)
<1>1. N \in Nat /\ \A n \in 1..N : changes[n] \in Changes
  OBVIOUS
<1>2. PICK f \in [0..N -> T] :
          f[0] = base /\ \A n \in 1..N : f[n] = Written(f[n - 1], changes[n])
  BY ReplayExists
<1>3. f = After(f)
  <2>1. ASSUME NEW n \in 0..N
        PROVE  f[n] = IF n = 0 THEN base ELSE Written(f[n - 1], changes[n])
    <3>1. CASE n = 0
      BY <1>2, <3>1
    <3>2. CASE n # 0
      <4>1. n \in 1..N
        BY <1>1, <3>2
      <4>2. QED
        BY <1>2, <3>2, <4>1
    <3>3. QED
      BY <3>1, <3>2
  <2>2. QED
    BY <2>1
<1>4. r = CHOOSE g : g = After(g)
  BY DEF Replay
<1>5. r = After(r)
  <2> HIDE DEF After
  <2>1. QED
    BY <1>3, <1>4
<1>6. r[0] = base /\ \A n \in 1..N : r[n] = Written(r[n - 1], changes[n])
  <2> HIDE DEF r
  <2>1. \A n \in 0..N : r[n] = IF n = 0 THEN base ELSE Written(r[n - 1], changes[n])
    BY <1>5
  <2>2. QED
    BY <1>1, <2>1
<1>7. r \in [0..N -> T]
  <2> DEFINE S == {n \in Nat : n <= N => r[n] \in T}
  <2>1. 0 \in S
    BY <1>6
  <2>2. ASSUME NEW n \in Nat, n \in S PROVE n + 1 \in S
    <3>1. SUFFICES ASSUME n + 1 <= N PROVE r[n + 1] \in T
      OBVIOUS
    <3>2. r[n] \in T /\ n + 1 \in 1..N /\ (n + 1) - 1 = n
      BY <1>1, <2>2, <3>1
    <3>3. r[n + 1] = Written(r[n], changes[n + 1])
      BY <1>6, <3>2
    <3>4. changes[n + 1] \in Changes
      BY <1>1, <3>2
    <3>5. Written(r[n], changes[n + 1]) \in T
      BY <3>2, <3>4, WrittenType
    <3>6. QED
      BY <3>3, <3>5
  <2>3. Nat \subseteq S
    <3> HIDE DEF S
    <3>1. QED
      BY <2>1, <2>2, SetInduction
  <2>4. \A n \in 0..N : r[n] \in T
    BY <1>1, <2>3
  <2> HIDE DEF r
  <2>5. QED
    BY <1>5, <2>4
<1>8. QED
  BY <1>6, <1>7

\* Two journals that begin alike lead through the same tables.
LEMMA ReplayAgrees ==
    ASSUME NEW base \in [Keys -> Images], NEW g \in Seq(Changes), NEW h \in Seq(Changes),
           NEW m \in Nat, m <= Len(g), m <= Len(h), \A i \in 1..m : g[i] = h[i]
    PROVE  \A n \in 0..m : Replay(base, g)[n] = Replay(base, h)[n]
<1> DEFINE S == {n \in Nat : n <= m => Replay(base, g)[n] = Replay(base, h)[n]}
<1>1. 0 \in S
  BY ReplayFacts
<1>2. ASSUME NEW n \in Nat, n \in S PROVE n + 1 \in S
  <2>1. SUFFICES ASSUME n + 1 <= m
                 PROVE  Replay(base, g)[n + 1] = Replay(base, h)[n + 1]
    OBVIOUS
  <2>2. /\ n + 1 \in 1..m /\ (n + 1) - 1 = n
        /\ n + 1 \in 1..Len(g) /\ n + 1 \in 1..Len(h)
    BY <2>1
  <2>3. /\ Replay(base, g)[n + 1] = Written(Replay(base, g)[n], g[n + 1])
        /\ Replay(base, h)[n + 1] = Written(Replay(base, h)[n], h[n + 1])
    BY <2>2, ReplayFacts
  <2>4. QED
    BY <1>2, <2>1, <2>2, <2>3
<1>3. Nat \subseteq S
  <2> HIDE DEF S
  <2>1. QED
    BY <1>1, <1>2, SetInduction
<1>4. QED
  BY <1>3

\* An entry appended to a journal changes none of the tables before it.
LEMMA ReplayAppend ==
    ASSUME NEW base \in [Keys -> Images], NEW g \in Seq(Changes), NEW c \in Changes
    PROVE  /\ \A n \in 0..Len(g) : Replay(base, Append(g, c))[n] = Replay(base, g)[n]
           /\ Replay(base, Append(g, c))[Len(g) + 1]
                  = Written(Replay(base, g)[Len(g)], c)
<1>1. /\ Append(g, c) \in Seq(Changes) /\ Len(g) \in Nat
      /\ Len(Append(g, c)) = Len(g) + 1 /\ Append(g, c)[Len(g) + 1] = c
      /\ \A i \in 1..Len(g) : Append(g, c)[i] = g[i]
  OBVIOUS
<1>2. \A n \in 0..Len(g) : Replay(base, g)[n] = Replay(base, Append(g, c))[n]
  <2>1. Len(g) <= Len(g) /\ Len(g) <= Len(Append(g, c)) /\ \A i \in 1..Len(g) : g[i] = Append(g, c)[i]
    BY <1>1
  <2>2. QED
    BY <1>1, <2>1, ReplayAgrees
<1>3. Replay(base, Append(g, c))[Len(g) + 1]
          = Written(Replay(base, Append(g, c))[Len(g)], c)
  <2>1. Len(g) + 1 \in 1..Len(Append(g, c)) /\ (Len(g) + 1) - 1 = Len(g)
    BY <1>1
  <2>2. QED
    BY <1>1, <2>1, ReplayFacts
<1>4. QED
  BY <1>1, <1>2, <1>3

\* Rows stay under their own keys through a change ...
LEMMA WrittenTable ==
    ASSUME NEW t \in Tables, NEW c \in Changes
    PROVE  Written(t, c) \in Tables
<1>1. t \in [Keys -> Images] /\ \A k \in Keys : t[k] # NoRow => t[k].id = k
  BY DEF Tables
<1>2. Written(t, c) \in [Keys -> Images]
  BY <1>1, WrittenType
<1>3. \A k \in Keys : Written(t, c)[k] # NoRow => Written(t, c)[k].id = k
  BY <1>1 DEF Written
<1>4. QED
  BY <1>2, <1>3 DEF Tables

\* ... and so through a journal.
LEMMA ReplayTables ==
    ASSUME NEW base \in Tables, NEW changes \in Seq(Changes)
    PROVE  \A n \in 0..Len(changes) : Replay(base, changes)[n] \in Tables
<1> DEFINE S == {n \in Nat : n <= Len(changes) => Replay(base, changes)[n] \in Tables}
<1>0. base \in [Keys -> Images] /\ Len(changes) \in Nat
  BY DEF Tables
<1>1. 0 \in S
  BY <1>0, ReplayFacts
<1>2. ASSUME NEW n \in Nat, n \in S PROVE n + 1 \in S
  <2>1. SUFFICES ASSUME n + 1 <= Len(changes)
                 PROVE  Replay(base, changes)[n + 1] \in Tables
    OBVIOUS
  <2>2. /\ Replay(base, changes)[n] \in Tables
        /\ n + 1 \in 1..Len(changes) /\ (n + 1) - 1 = n /\ changes[n + 1] \in Changes
    BY <1>0, <1>2, <2>1
  <2>3. Replay(base, changes)[n + 1] = Written(Replay(base, changes)[n], changes[n + 1])
    BY <1>0, <2>2, ReplayFacts
  <2>4. QED
    BY <2>2, <2>3, WrittenTable
<1>3. Nat \subseteq S
  <2> HIDE DEF S
  <2>1. QED
    BY <1>1, <1>2, SetInduction
<1>4. QED
  BY <1>0, <1>3

\* A statement on a table leaves an entry that speaks of its rows.
LEMMA LocalChangeFits ==
    ASSUME NEW t \in Tables, NEW c \in LocalChanges(t), KeyIsFree(t, c)
    PROVE  Fits(t, c)
<1>1. CASE c.kind = "insert"
  BY <1>1 DEF Fits
<1>2. CASE c.kind # "insert"
  <2>1. \E k \in Keys : t[k] # NoRow /\ c.key = t[k].id /\ c.before = t[k]
    BY <1>2 DEF LocalChanges, InsertChange, UpdateChange, DeleteChange
  <2>2. BeforeMatches(t, c)
    BY <2>1 DEF BeforeMatches, Load, Tables
  <2>3. QED
    BY <2>2 DEF Fits
<1>3. QED
  BY <1>1, <1>2

\* What a trigger records has the images of its kind.
LEMMA LocalChangeShaped ==
    ASSUME NEW t \in Tables, NEW c \in LocalChanges(t)
    PROVE  Shaped(c) /\ WellFormed(c)
BY NoRowAssumption DEF Shaped, WellFormed, ChangeKinds, LocalChanges, InsertChange, UpdateChange, DeleteChange

\* A change that fits a table finds at each key it touches the image it takes,
\* and puts the one it leaves.
LEMMA WrittenTouched ==
    ASSUME NEW t, NEW c \in Changes, NEW k \in Keys, k \in TouchedKeys(c)
    PROVE  /\ Written(t, c)[k] = Leaves(c, k)
           /\ Fits(t, c) /\ Shaped(c) => t[k] = Takes(c, k)
<1>1. Written(t, c)[k] = Leaves(c, k)
  BY DEF Written, TouchedKeys, Leaves
<1>2. c.kind \in {"insert", "update", "delete"}
  BY DEF Changes, ChangeKinds
<1>3. ASSUME Fits(t, c), Shaped(c) PROVE t[k] = Takes(c, k)
  <2>1. CASE c.kind = "insert"
    BY <1>3, <2>1 DEF Fits, Shaped, KeyIsFree, Load, Takes, TouchedKeys
  <2>2. CASE c.kind = "update"
    BY <1>3, <2>2 DEF Fits, KeyIsFree, BeforeMatches, Load, Takes, TouchedKeys
  <2>3. CASE c.kind = "delete"
    BY <1>3, <2>3 DEF Fits, Shaped, BeforeMatches, Load, Takes, TouchedKeys
  <2>4. QED
    BY <1>2, <2>1, <2>2, <2>3
<1>4. QED
  BY <1>1, <1>3

LEMMA EmptyTableType == EmptyTable \in Tables /\ EmptyTable \in [Keys -> Images]
BY DEF EmptyTable, Images, Tables

=============================================================================
