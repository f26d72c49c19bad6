---------------------------- MODULE CutoverProofs ----------------------------
(***************************************************************************)
(* A cutover ends with a version of its source, however torn the snapshot  *)
(* it started from, and fails only on changes older than the snapshot: for *)
(* every set of rows, batch limit, number of polls, writes and runs.       *)
(***************************************************************************)
EXTENDS Cutover, ChangeStreamProofs

-----------------------------------------------------------------------------
(* The versions of the source.                                             *)

LEMMA SchemaFacts ==
    /\ Len(SchemaTables) = 2
    /\ SchemaTables[1] = Parents /\ SchemaTables[2] = Children
    /\ Keys = Parents \cup Children
BY CutoverAssumption DEF SchemaTables

LEMMA ContentsType == \A t \in Contents : t \in Tables /\ t \in [Keys -> Images]
BY DEF Contents, Tables

LEMMA VersionsFacts ==
    ASSUME TypeOK
    PROVE  /\ Len(journal) \in Nat /\ journal \in Seq(Changes)
           /\ \A n \in 1..Len(journal) : journal[n] \in Changes
           /\ Versions \in [0..Len(journal) -> [Keys -> Images]]
           /\ Versions[0] = atInstall
           /\ \A n \in 1..Len(journal) : Versions[n] = Written(Versions[n - 1], journal[n])
<1>1. journal \in Seq(Changes) /\ atInstall \in [Keys -> Images]
  BY ContentsType DEF TypeOK
<1>2. Len(journal) \in Nat /\ \A n \in 1..Len(journal) : journal[n] \in Changes
  BY <1>1
<1>3. QED
  BY <1>1, <1>2, ReplayFacts DEF Versions

\* Every version is one the columns and the references allow.
LEMMA VersionsContents ==
    ASSUME TypeOK, SourceOK
    PROVE  \A n \in 0..Len(journal) : Versions[n] \in Contents
<1>1. Len(journal) \in Nat /\ DOMAIN journal = 1..Len(journal) /\ Versions[0] = atInstall
  BY VersionsFacts
<1>2. ASSUME NEW n \in 0..Len(journal) PROVE Versions[n] \in Contents
  <2>1. CASE n = 0
    BY <1>1, <2>1 DEF TypeOK
  <2>2. CASE n # 0
    <3>1. n \in DOMAIN journal
      BY <1>1, <2>2
    <3>2. QED
      BY <3>1 DEF SourceOK, SourceAt
  <2>3. QED
    BY <2>1, <2>2
<1>3. QED
  BY <1>2

\* A key that no change from m to n touches holds the same row at both.
LEMMA VersionsUntouched ==
    ASSUME TypeOK, NEW k \in Keys, NEW m \in Nat, NEW n \in Nat, m <= n, n <= Len(journal),
           \A i \in m + 1 .. n : k \notin TouchedKeys(journal[i])
    PROVE  Versions[n][k] = Versions[m][k]
<1> DEFINE S == {d \in Nat : m + d <= n => Versions[m + d][k] = Versions[m][k]}
<1>0. Len(journal) \in Nat
  BY VersionsFacts
<1>1. 0 \in S
  OBVIOUS
<1>2. ASSUME NEW d \in Nat, d \in S PROVE d + 1 \in S
  <2>1. SUFFICES ASSUME m + (d + 1) <= n
                 PROVE  Versions[m + (d + 1)][k] = Versions[m][k]
    OBVIOUS
  <2>2. PICK q : q = m + (d + 1)
    OBVIOUS
  <2>3. q \in 1..Len(journal) /\ q \in m + 1 .. n /\ q - 1 = m + d
    BY <1>0, <2>1, <2>2
  <2>4. Versions[q] = Written(Versions[q - 1], journal[q])
    BY <2>3, VersionsFacts
  <2>5. k \notin TouchedKeys(journal[q])
    BY <2>3
  <2>6. Versions[q][k] = Versions[q - 1][k]
    BY <2>4, <2>5, WrittenUntouched
  <2>7. Versions[m + d][k] = Versions[m][k]
    BY <1>2, <2>1
  <2>8. QED
    BY <2>2, <2>3, <2>6, <2>7
<1>3. Nat \subseteq S
  <2> HIDE DEF S
  <2>1. QED
    BY <1>1, <1>2, SetInduction
<1>4. n - m \in Nat /\ m + (n - m) = n
  OBVIOUS
<1>5. n - m \in S
  BY <1>3, <1>4
<1>6. QED
  BY <1>4, <1>5

-----------------------------------------------------------------------------
(* Replaying over a torn snapshot.                                         *)

\* A row the next change does not touch is as settled after it.
LEMMA SettledUntouched ==
    ASSUME TypeOK, NEW x, NEW k \in Keys, NEW a \in Nat, a + 1 <= Len(journal), NEW p \in Nat,
           k \notin TouchedKeys(journal[a + 1]),
           Settled(Versions, journal, x, k, a, p)
    PROVE  Settled(Versions, journal, x, k, a + 1, p)
<1>1. Len(journal) \in Nat
  BY VersionsFacts
<1>2. Versions[a + 1][k] = Versions[a][k]
  <2>1. \A i \in a + 1 .. a + 1 : i = a + 1
    OBVIOUS
  <2>2. QED
    BY <1>1, <2>1, VersionsUntouched
<1>3. CASE p <= a
  BY <1>2, <1>3 DEF Settled
<1>4. CASE p = a + 1
  <2>1. \A i \in a + 1 .. p : i = a + 1
    BY <1>4
  <2>2. x = Versions[p][k]
    BY <1>4, <2>1 DEF Settled
  <2>3. QED
    BY <1>4, <2>2 DEF Settled
<1>5. CASE a + 1 < p
  <2>1. \A i \in a + 1 .. p : i = a + 1 \/ i \in (a + 1) + 1 .. p
    OBVIOUS
  <2>2. ~(p <= a) /\ ~(p <= a + 1)
    BY <1>5
  <2>3. QED
    BY <2>1, <2>2 DEF Settled
<1>6. QED
  BY <1>3, <1>4, <1>5

\* What the next change leaves at a key settles it.
LEMMA SettledTouched ==
    ASSUME TypeOK, NEW k \in Keys, NEW a \in Nat, a + 1 <= Len(journal),
           NEW p \in 0..Len(journal), k \in TouchedKeys(journal[a + 1])
    PROVE  Settled(Versions, journal, Leaves(journal[a + 1], k), k, a + 1, p)
<1>1. Len(journal) \in Nat /\ a + 1 \in 1..Len(journal) /\ (a + 1) - 1 = a
  BY VersionsFacts
<1>2. journal[a + 1] \in Changes /\ Versions[a + 1] = Written(Versions[(a + 1) - 1], journal[a + 1])
  BY <1>1, VersionsFacts
<1>3. Versions[a + 1][k] = Leaves(journal[a + 1], k)
  BY <1>2, WrittenTouched
<1>4. CASE p <= a + 1
  BY <1>3, <1>4 DEF Settled
<1>5. CASE ~(p <= a + 1)
  <2>1. CASE \E i \in (a + 1) + 1 .. p : k \in TouchedKeys(journal[i])
    BY <1>5, <2>1 DEF Settled
  <2>2. CASE \A i \in (a + 1) + 1 .. p : k \notin TouchedKeys(journal[i])
    <3>1. a + 1 \in Nat /\ p \in Nat /\ a + 1 <= p /\ p <= Len(journal)
      BY <1>1, <1>5
    <3>2. Versions[p][k] = Versions[a + 1][k]
      BY <2>2, <3>1, VersionsUntouched
    <3>3. QED
      BY <1>3, <1>5, <3>2 DEF Settled
  <2>3. QED
    BY <2>1, <2>2
<1>6. QED
  BY <1>4, <1>5

\* Rows that hold what the next change leaves where it touches them, and are
\* left alone elsewhere, converge on.
LEMMA ConvergingStep ==
    ASSUME TypeOK, NEW t, NEW u, NEW a \in Nat, a + 1 <= Len(journal),
           NEW e \in 0..Len(journal),
           Converging(Versions, journal, t, a, e),
           \A k \in Keys : IF k \in TouchedKeys(journal[a + 1])
                           THEN u[k] = Leaves(journal[a + 1], k) ELSE u[k] = t[k]
    PROVE  Converging(Versions, journal, u, a + 1, e)
<1>1. Len(journal) \in Nat
  BY VersionsFacts
<1>2. ASSUME NEW k \in Keys
      PROVE  \E p \in 0..e : Settled(Versions, journal, u[k], k, a + 1, p)
  <2>1. PICK p \in 0..e : Settled(Versions, journal, t[k], k, a, p)
    BY DEF Converging
  <2>2. p \in 0..Len(journal) /\ p \in Nat
    BY <1>1, <2>1
  <2>3. CASE k \in TouchedKeys(journal[a + 1])
    BY <2>2, <2>3, SettledTouched
  <2>4. CASE k \notin TouchedKeys(journal[a + 1])
    <3>1. u[k] = t[k]
      BY <2>4
    <3>2. QED
      BY <2>1, <2>2, <2>4, <3>1, SettledUntouched
  <2>5. QED
    BY <2>1, <2>3, <2>4
<1>3. QED
  BY <1>2 DEF Converging

\* Past the overlap, rows that converge are the version.
LEMMA ConvergedIsVersion ==
    ASSUME TypeOK, NEW t \in [Keys -> Images], NEW a \in 0..Len(journal), NEW e \in Nat, e <= a,
           Converging(Versions, journal, t, a, e)
    PROVE  t = Versions[a]
<1>1. Len(journal) \in Nat /\ Versions[a] \in [Keys -> Images]
  BY VersionsFacts
<1>2. ASSUME NEW k \in Keys PROVE t[k] = Versions[a][k]
  <2>1. PICK p \in 0..e : Settled(Versions, journal, t[k], k, a, p)
    BY DEF Converging
  <2>2. p <= a
    BY <1>1, <2>1
  <2>3. QED
    BY <2>1, <2>2 DEF Settled
<1>3. QED
  BY <1>1, <1>2

\* A change that is taken for reflected left what it touches as it is.
LEMMA ReflectedLeaves ==
    ASSUME NEW t \in Tables, NEW c \in Changes, Captured(c), AlreadyReflected(t, c),
           NEW k \in TouchedKeys(c)
    PROVE  t[k] = Leaves(c, k)
<1>1. c.kind \in {"insert", "update", "delete"} /\ c.key \in Keys /\ c.after \in Images
  BY DEF Changes, ChangeKinds
<1>2. CASE c.kind = "delete"
  BY <1>2 DEF Captured, Shaped, AlreadyReflected, Load, TouchedKeys, Leaves
<1>3. CASE c.kind \in {"insert", "update"}
  <2>1. t[c.key] = c.after /\ c.after # NoRow
    BY <1>3 DEF Captured, WellFormed, AlreadyReflected, Load
  <2>2. c.after.id = c.key
    BY <1>1, <2>1 DEF Tables
  <2>3. QED
    BY <2>1, <2>2 DEF TouchedKeys, Leaves
<1>4. QED
  BY <1>1, <1>2, <1>3

\* The statement of a captured change keeps to the columns of the tables.
LEMMA WrittenContents ==
    ASSUME NEW t \in Contents, NEW c \in Changes, Captured(c), ReferencesHold(Written(t, c))
    PROVE  Written(t, c) \in Contents
<1>1. Written(t, c) \in Tables
  BY WrittenTable DEF Contents
<1>2. \A k \in Keys : t[k] # NoRow => LegalRow(t[k])
  BY DEF Contents
<1>3. \A k \in Keys : Written(t, c)[k] # NoRow => LegalRow(Written(t, c)[k])
  <2>1. SUFFICES ASSUME NEW k \in Keys, Written(t, c)[k] # NoRow
                 PROVE  LegalRow(Written(t, c)[k])
    OBVIOUS
  <2>2. Written(t, c)[k] = c.after \/ Written(t, c)[k] = t[k]
    BY <2>1 DEF Written
  <2>3. QED
    BY <1>2, <2>1, <2>2 DEF Captured
<1>4. QED
  BY <1>1, <1>3 DEF Contents

\* One change of a batch: what the transaction sees converges on, and no
\* change after the overlap is refused.
LEMMA OutcomeStep ==
    ASSUME TypeOK, SourceOK, NEW t \in Contents, NEW a \in Nat, a + 1 <= Len(journal),
           NEW e \in 0..Len(journal), Converging(Versions, journal, t, a, e),
           NEW result, result = TolerantOutcome(t, journal[a + 1])
    PROVE  /\ result \in {"reflected", "conflict", "error", "written"}
           /\ result = "written" =>
                /\ Written(t, journal[a + 1]) \in Contents
                /\ Converging(Versions, journal, Written(t, journal[a + 1]), a + 1, e)
           /\ result = "reflected" => Converging(Versions, journal, t, a + 1, e)
           /\ result \in {"conflict", "error"} => a + 1 <= e
<1> DEFINE c == journal[a + 1]
<1>1. /\ Len(journal) \in Nat /\ DOMAIN journal = 1..Len(journal)
      /\ a + 1 \in 1..Len(journal) /\ (a + 1) - 1 = a
  BY VersionsFacts
<1>2. c \in Changes /\ Versions[a + 1] = Written(Versions[a], c)
  BY <1>1, VersionsFacts
<1>3. Captured(c) /\ Fits(Versions[a], c) /\ Versions[a + 1] \in Contents
  BY <1>1 DEF SourceOK, SourceAt
<1>4. t \in Tables /\ t \in [Keys -> Images]
  BY ContentsType
<1>5. result \in {"reflected", "conflict", "error", "written"}
  BY DEF TolerantOutcome
<1>6. ASSUME result = "written"
      PROVE  /\ Written(t, c) \in Contents
             /\ Converging(Versions, journal, Written(t, c), a + 1, e)
  <2>1. ReferencesHold(Written(t, c))
    BY <1>6 DEF TolerantOutcome
  <2>2. Written(t, c) \in Contents
    BY <1>2, <1>3, <2>1, WrittenContents
  <2>3. \A k \in Keys : IF k \in TouchedKeys(c) THEN Written(t, c)[k] = Leaves(c, k)
                        ELSE Written(t, c)[k] = t[k]
    BY <1>2, WrittenTouched, WrittenUntouched
  <2>4. QED
    BY <2>2, <2>3, ConvergingStep
<1>7. ASSUME result = "reflected" PROVE Converging(Versions, journal, t, a + 1, e)
  <2>1. AlreadyReflected(t, c)
    BY <1>7 DEF TolerantOutcome
  <2>2. \A k \in Keys : k \in TouchedKeys(c) => t[k] = Leaves(c, k)
    BY <1>2, <1>3, <1>4, <2>1, ReflectedLeaves
  <2>3. \A k \in Keys : IF k \in TouchedKeys(c) THEN t[k] = Leaves(c, k) ELSE t[k] = t[k]
    BY <2>2
  <2>4. QED
    BY <2>3, ConvergingStep
<1>8. ASSUME result \in {"conflict", "error"} PROVE a + 1 <= e
  <2>1. SUFFICES ASSUME e <= a PROVE FALSE
    BY <1>1
  <2>2. t = Versions[a]
    BY <1>1, <1>4, <2>1, ConvergedIsVersion
  <2>3. Fits(t, c) /\ ReferencesHold(Written(t, c))
    BY <1>2, <1>3, <2>2 DEF Contents
  <2>4. ~(c.kind = "insert" /\ Load(t, c.key) # NoRow)
    BY <1>3, <2>3 DEF Fits, KeyIsFree, Captured, Shaped
  <2>5. ~(c.kind # "insert" /\ ~BeforeMatches(t, c))
    BY <1>2, <2>3 DEF Fits, Changes, ChangeKinds
  <2>6. KeyIsFree(t, c)
    BY <2>3 DEF Fits
  <2>7. result \in {"reflected", "written"}
    BY <2>3, <2>4, <2>5, <2>6 DEF TolerantOutcome
  <2>8. QED
    BY <1>8, <2>7
<1>9. QED
  BY <1>5, <1>6, <1>7, <1>8

-----------------------------------------------------------------------------
(* The transaction of a batch.                                             *)

Results == [table : [Keys -> Images], code : {"none", "conflict", "error"}, at : Nat]

Unread == cursor < Len(journal)

LEMMA BatchFacts ==
    ASSUME TypeOK, Unread
    PROVE  /\ Len(journal) \in Nat /\ cursor \in Nat
           /\ LastRead \in Nat /\ cursor < LastRead /\ LastRead <= Len(journal)
           /\ LastRead - cursor \in Nat
           /\ \A n \in 1 .. LastRead - cursor :
                 cursor + n \in 1..Len(journal) /\ cursor + n \in cursor + 1 .. LastRead
<1>1. /\ Len(journal) \in Nat /\ cursor \in Nat /\ BatchLimit \in Nat /\ BatchLimit # 0
  BY VersionsFacts, CutoverAssumption DEF TypeOK
<1>2. LastRead \in Nat /\ cursor < LastRead /\ LastRead <= Len(journal)
  BY <1>1 DEF LastRead, Unread
<1>3. QED
  BY <1>1, <1>2

LEMMA ApplyNextType ==
    ASSUME TypeOK, NEW acc \in Results, NEW i \in 1..Len(journal)
    PROVE  ApplyNext(acc, i) \in Results
<1>1. journal[i] \in Changes /\ i \in Nat
  BY VersionsFacts
<1>2. Written(acc.table, journal[i]) \in [Keys -> Images]
  BY <1>1, WrittenType DEF Results
<1>3. [acc EXCEPT !.table = Written(acc.table, journal[i])] \in Results
  BY <1>2 DEF Results
<1>4. ASSUME NEW r \in {"conflict", "error"} PROVE [acc EXCEPT !.code = r, !.at = i] \in Results
  BY <1>1 DEF Results
<1>5. PICK r : r = TolerantOutcome(acc.table, journal[i])
  OBVIOUS
<1>6. QED
  BY <1>3, <1>4, <1>5 DEF ApplyNext

\* The equation that defines Transaction has a solution.
LEMMA TransactionExists ==
    ASSUME TypeOK, Unread
    PROVE  \E f \in [0 .. LastRead - cursor -> Results] :
              /\ f[0] = [table |-> dst, code |-> "none", at |-> 0]
              /\ \A n \in 1 .. LastRead - cursor : f[n] = ApplyNext(f[n - 1], cursor + n)
<1> DEFINE T == Results
           N == LastRead - cursor
           base == [table |-> dst, code |-> "none", at |-> 0]
           step == [n \in 1..N |-> [acc \in T |-> ApplyNext(acc, cursor + n)]]
<1>1. base \in T /\ N \in Nat
  BY ContentsType, BatchFacts DEF TypeOK, Results
<1>2. step \in [1..N -> [T -> T]]
  <2>1. ASSUME NEW n \in 1..N, NEW acc \in T PROVE ApplyNext(acc, cursor + n) \in T
    <3>1. cursor + n \in 1..Len(journal)
      BY BatchFacts
    <3>2. QED
      BY <3>1, ApplyNextType
  <2>2. QED
    BY <2>1
<1>3. PICK f \in [0..N -> T] : f[0] = base /\ \A n \in 1..N : f[n] = step[n][f[n - 1]]
  <2> HIDE DEF T, N, base, step
  <2>1. QED
    BY <1>1, <1>2, RecursionExists
<1>4. ASSUME NEW n \in 1..N PROVE f[n] = ApplyNext(f[n - 1], cursor + n)
  <2>1. n - 1 \in 0..N
    BY <1>1
  <2>2. f[n - 1] \in T
    BY <1>3, <2>1
  <2>3. f[n] = step[n][f[n - 1]]
    BY <1>3
  <2>4. QED
    BY <2>2, <2>3
<1>5. QED
  BY <1>3, <1>4

LEMMA TransactionFacts ==
    ASSUME TypeOK, Unread
    PROVE  /\ Transaction \in [0 .. LastRead - cursor -> Results]
           /\ Transaction[0] = [table |-> dst, code |-> "none", at |-> 0]
           /\ \A n \in 1 .. LastRead - cursor :
                 Transaction[n] = ApplyNext(Transaction[n - 1], cursor + n)
<1> DEFINE N == LastRead - cursor
           Start == [table |-> dst, code |-> "none", at |-> 0]
           After(f) == [n \in 0..N |-> IF n = 0 THEN Start ELSE ApplyNext(f[n - 1], cursor + n)]
           r == Transaction
<1>1. N \in Nat
  BY BatchFacts
<1>2. PICK f \in [0..N -> Results] :
          f[0] = Start /\ \A n \in 1..N : f[n] = ApplyNext(f[n - 1], cursor + n)
  BY TransactionExists
<1>3. f = After(f)
  <2>1. ASSUME NEW n \in 0..N
        PROVE  f[n] = IF n = 0 THEN Start ELSE ApplyNext(f[n - 1], cursor + n)
    <3>1. CASE n = 0
      BY <1>2, <3>1
    <3>2. CASE n # 0
      <4>1. n \in 1..N
        BY <1>1, <3>2
      <4>2. QED
        BY <1>2, <3>2, <4>1
    <3>3. QED
      BY <3>1, <3>2
  <2>2. QED
    BY <2>1
<1>4. r = CHOOSE g : g = After(g)
  BY DEF Transaction
<1>5. r = After(r)
  <2> HIDE DEF After
  <2>1. QED
    BY <1>3, <1>4
<1>6. /\ \A n \in 0..N : r[n] = IF n = 0 THEN Start ELSE ApplyNext(r[n - 1], cursor + n)
      /\ DOMAIN r = 0..N
  <2> HIDE DEF r
  <2>1. QED
    BY <1>5
<1>7. r[0] = Start /\ \A n \in 1..N : r[n] = ApplyNext(r[n - 1], cursor + n)
  <2> HIDE DEF r
  <2>1. QED
    BY <1>1, <1>6
<1>8. \A n \in 0..N : r[n] \in Results
  <2> DEFINE S == {n \in Nat : n <= N => r[n] \in Results}
  <2>1. 0 \in S
    <3>1. Start \in Results
      BY ContentsType DEF TypeOK, Results
    <3>2. QED
      BY <1>7, <3>1
  <2>2. ASSUME NEW n \in Nat, n \in S PROVE n + 1 \in S
    <3>1. SUFFICES ASSUME n + 1 <= N PROVE r[n + 1] \in Results
      OBVIOUS
    <3>2. n + 1 \in 1..N /\ (n + 1) - 1 = n /\ r[n] \in Results
      BY <1>1, <2>2, <3>1
    <3>3. cursor + (n + 1) \in 1..Len(journal)
      BY <3>2, BatchFacts
    <3>4. r[n + 1] = ApplyNext(r[n], cursor + (n + 1))
      BY <1>7, <3>2
    <3>5. QED
      BY <3>2, <3>3, <3>4, ApplyNextType
  <2>3. Nat \subseteq S
    <3> HIDE DEF S
    <3>1. QED
      BY <2>1, <2>2, SetInduction
  <2>4. QED
    BY <1>1, <2>3
<1>9. QED
  <2> HIDE DEF r
  <2>1. r \in [0..N -> Results]
    <3>1. r = [n \in 0..N |-> r[n]]
      BY <1>5
    <3>2. QED
      BY <1>8, <3>1
  <2>2. QED
    BY <1>7, <2>1 DEF r

-----------------------------------------------------------------------------
(* What a batch comes to.                                                  *)

\* The last change recorded or passed, with the changes up to i behind.
Reached(a, i) == IF i <= a THEN a ELSE i

\* A transaction that has done the changes up to i: it has failed at one that
\* is in the overlap, or the table it sees converges on.
Sound(acc, a, i, e) ==
    IF acc.code = "none"
    THEN /\ acc.table \in Contents
         /\ Converging(Versions, journal, acc.table, Reached(a, i), e)
    ELSE acc.at <= e

LEMMA ApplyNextSound ==
    ASSUME TypeOK, SourceOK, NEW a \in 0..Len(journal), applied = 1..a,
           NEW i \in 0..Len(journal), i + 1 <= Len(journal),
           NEW e \in 0..Len(journal), NEW acc \in Results, Sound(acc, a, i, e)
    PROVE  Sound(ApplyNext(acc, i + 1), a, i + 1, e)
<1>1. Len(journal) \in Nat /\ i \in Nat /\ a \in Nat
  BY VersionsFacts
<1>2. CASE acc.code # "none"
  BY <1>2 DEF ApplyNext, Sound
<1>3. CASE acc.code = "none" /\ i + 1 <= a
  <2>1. i + 1 \in applied /\ Reached(a, i) = a /\ Reached(a, i + 1) = a
    BY <1>1, <1>3 DEF Reached
  <2>2. ApplyNext(acc, i + 1) = acc
    BY <2>1 DEF ApplyNext
  <2>3. QED
    BY <1>3, <2>1, <2>2 DEF Sound
<1>4. CASE acc.code = "none" /\ ~(i + 1 <= a)
  <2>1. i + 1 \notin applied /\ Reached(a, i) = i /\ Reached(a, i + 1) = i + 1
    BY <1>1, <1>4 DEF Reached
  <2>2. acc.table \in Contents /\ Converging(Versions, journal, acc.table, i, e)
    BY <1>4, <2>1 DEF Sound
  <2>3. PICK result : result = TolerantOutcome(acc.table, journal[i + 1])
    OBVIOUS
  <2>4. /\ result \in {"reflected", "conflict", "error", "written"}
        /\ result = "written" =>
             /\ Written(acc.table, journal[i + 1]) \in Contents
             /\ Converging(Versions, journal, Written(acc.table, journal[i + 1]), i + 1, e)
        /\ result = "reflected" => Converging(Versions, journal, acc.table, i + 1, e)
        /\ result \in {"conflict", "error"} => i + 1 <= e
    BY <1>1, <2>2, <2>3, OutcomeStep
  <2>5. CASE result = "written"
    <3>1. ApplyNext(acc, i + 1) = [acc EXCEPT !.table = Written(acc.table, journal[i + 1])]
      BY <1>4, <2>1, <2>3, <2>5 DEF ApplyNext
    <3>2. /\ ApplyNext(acc, i + 1).table = Written(acc.table, journal[i + 1])
          /\ ApplyNext(acc, i + 1).code = "none"
      BY <1>4, <3>1 DEF Results
    <3>3. QED
      BY <2>1, <2>4, <2>5, <3>2 DEF Sound
  <2>6. CASE result = "reflected"
    <3>1. ApplyNext(acc, i + 1) = acc
      BY <1>4, <2>1, <2>3, <2>6 DEF ApplyNext
    <3>2. QED
      BY <1>4, <2>1, <2>2, <2>4, <2>6, <3>1 DEF Sound
  <2>7. CASE result \in {"conflict", "error"}
    <3>1. ApplyNext(acc, i + 1) = [acc EXCEPT !.code = result, !.at = i + 1]
      BY <1>4, <2>1, <2>3, <2>7 DEF ApplyNext
    <3>2. ApplyNext(acc, i + 1).at = i + 1 /\ ApplyNext(acc, i + 1).code = result
      BY <3>1 DEF Results
    <3>3. QED
      BY <2>4, <2>7, <3>2 DEF Sound
  <2>8. QED
    BY <2>4, <2>5, <2>6, <2>7
<1>5. QED
  BY <1>2, <1>3, <1>4

\* A batch over a destination that converges.
LEMMA BatchSound ==
    ASSUME TypeOK, SourceOK, Unread, NEW a \in 0..Len(journal), applied = 1..a, cursor <= a,
           NEW e \in 0..Len(journal), Converging(Versions, journal, dst, a, e)
    PROVE  ApplyBatch \in Results /\ Sound(ApplyBatch, a, LastRead, e)
<1> DEFINE N == LastRead - cursor
           S == {n \in Nat : n <= N => Sound(Transaction[n], a, cursor + n, e)}
<1>1. /\ Len(journal) \in Nat /\ cursor \in Nat /\ N \in Nat /\ LastRead \in Nat
      /\ \A n \in 1..N : cursor + n \in 1..Len(journal)
  BY BatchFacts
<1>2. 0 \in S
  <2>1. Transaction[0].table = dst /\ Transaction[0].code = "none"
    BY TransactionFacts
  <2>2. Reached(a, cursor + 0) = a
    BY <1>1 DEF Reached
  <2>3. dst \in Contents
    BY DEF TypeOK
  <2>4. QED
    BY <2>1, <2>2, <2>3 DEF Sound
<1>3. ASSUME NEW n \in Nat, n \in S PROVE n + 1 \in S
  <2>1. SUFFICES ASSUME n + 1 <= N PROVE Sound(Transaction[n + 1], a, cursor + (n + 1), e)
    OBVIOUS
  <2>2. n + 1 \in 1..N /\ (n + 1) - 1 = n /\ n \in 0..N
    BY <1>1, <2>1
  <2>3. PICK i : i = cursor + n
    OBVIOUS
  <2>4. i \in 0..Len(journal) /\ i + 1 <= Len(journal) /\ cursor + (n + 1) = i + 1
    BY <1>1, <2>2, <2>3
  <2>5. Sound(Transaction[n], a, i, e)
    BY <1>1, <1>3, <2>2, <2>3
  <2>6. Transaction[n] \in Results /\ Transaction[n + 1] = ApplyNext(Transaction[n], i + 1)
    BY <2>2, <2>4, TransactionFacts
  <2>7. QED
    BY <2>4, <2>5, <2>6, ApplyNextSound
<1>4. Nat \subseteq S
  <2> HIDE DEF S
  <2>1. QED
    BY <1>2, <1>3, SetInduction
<1>5. N \in S /\ N <= N /\ cursor + N = LastRead /\ N \in 0..N
  BY <1>1, <1>4
<1>6. QED
  BY <1>5, TransactionFacts DEF ApplyBatch

-----------------------------------------------------------------------------
(* The invariant, action by action.                                        *)

\* A longer journal has the same versions at its beginning.
LEMMA ConvergingExtends ==
    ASSUME NEW h, NEW g, NEW j, NEW l, NEW n \in Nat,
           \A i \in 0..n : g[i] = h[i], \A i \in 1..n : l[i] = j[i],
           NEW t, NEW a \in 0..n, NEW e \in 0..n, Converging(h, j, t, a, e)
    PROVE  Converging(g, l, t, a, e)
<1>1. ASSUME NEW k \in Keys PROVE \E p \in 0..e : Settled(g, l, t[k], k, a, p)
  <2>1. PICK p \in 0..e : Settled(h, j, t[k], k, a, p)
    BY DEF Converging
  <2>2. p \in 0..n /\ \A i \in a + 1 .. p : i \in 1..n
    BY <2>1
  <2>3. Settled(g, l, t[k], k, a, p)
    BY <2>1, <2>2 DEF Settled
  <2>4. QED
    BY <2>1, <2>3
<1>2. QED
  BY <1>1 DEF Converging

LEMMA ExportedExtends ==
    ASSUME NEW h, NEW g, NEW n \in Nat, \A i \in 0..n : g[i] = h[i],
           NEW s, NEW m, NEW a \in Nat, NEW e \in 0..n, NEW f \in Nat, e <= f,
           Exported(h, s, m, a, e)
    PROVE  Exported(g, s, m, a, f)
<1>1. ASSUME NEW i \in 1..m, NEW k \in SchemaTables[i] PROVE \E p \in a..f : s[k] = g[p][k]
  <2>1. PICK p \in a..e : s[k] = h[p][k]
    BY DEF Exported
  <2>2. p \in 0..n /\ p \in a..f
    BY <2>1
  <2>3. QED
    BY <2>1, <2>2
<1>2. QED
  BY <1>1 DEF Exported

LEMMA EmptyContents == EmptyTable \in Contents /\ EmptyTable \in Tables
<1>1. \A k \in Keys : EmptyTable[k] = NoRow
  BY DEF EmptyTable
<1>2. ReferencesHold(EmptyTable)
  BY <1>1, SchemaFacts DEF ReferencesHold
<1>3. QED
  BY <1>1, <1>2, EmptyTableType DEF Contents

LEMMA InitCutover == Init => IndInv
<1> SUFFICES ASSUME Init PROVE IndInv
  OBVIOUS
<1>1. /\ journal = <<>> /\ Len(journal) = 0 /\ DOMAIN journal = {} /\ journal \in Seq(Changes)
      /\ applied = {} /\ {} = 1..0
  BY DEF Init
<1>2. /\ EmptyTable \in Contents /\ EmptyTable \in Tables
      /\ src \in Contents /\ atInstall \in Contents
  BY EmptyContents DEF Init
<1>3. TypeOK
  <2>1. /\ 1 \in 1 .. Len(SchemaTables) + 1 /\ 0 \in 0..DrainPolls /\ 0 \in 0..Len(journal)
        /\ 0 \in 0..MaxWrites /\ 1 \in 0..MaxRuns
    BY <1>1, SchemaFacts, CutoverAssumption
  <2>2. QED
    BY <1>1, <1>2, <2>1 DEF Init, TypeOK, Phases
<1>4. SourceOK
  BY <1>1 DEF Init, SourceOK
<1>5. DestinationOK
  <2>1. 0 \in 0..Len(journal) /\ applied = 1..0
    BY <1>1
  <2>2. phase = "install"
    BY DEF Init
  <2>3. QED
    BY <2>1, <2>2 DEF DestinationOK
<1>6. RunOK /\ DrainedIsSourceVersion /\ FailsOnlyInOverlap
  BY DEF Init, RunOK, DrainedIsSourceVersion, FailsOnlyInOverlap, EmptyTable
<1>7. QED
  BY <1>3, <1>4, <1>5, <1>6 DEF IndInv

LEMMA InstallCutover ==
    ASSUME IndInv, InstallCapture
    PROVE  IndInv'
<1> USE DEF IndInv
<1>1. /\ phase = "install" /\ phase' = "export" /\ table' = 1 /\ installed' = TRUE
      /\ atInstall' = IF installed THEN atInstall ELSE src
      /\ UNCHANGED <<src, journal, writes, created, dst, applied, snap, cursor, empty,
                     status, code, stuckAt, overlapEnd, runs>>
  BY DEF InstallCapture, destination, outcome
<1>2. status \notin {"ready", "diverged"}
  BY <1>1 DEF RunOK
<1>3. TypeOK'
  BY <1>1, SchemaFacts DEF TypeOK, Phases
<1>4. SourceOK'
  <2>1. CASE installed
    <3>1. Versions' = Versions
      BY <1>1, <2>1 DEF Versions
    <3>2. QED
      BY <1>1, <2>1, <3>1 DEF SourceOK, SourceAt
  <2>2. CASE ~installed
    <3>1. journal = <<>> /\ journal' = <<>> /\ atInstall' = src /\ src' = src
      BY <1>1, <2>2 DEF SourceOK
    <3>2. Versions'[0] = src
      BY <1>1, <1>3, <3>1, ContentsType, ReplayFacts DEF TypeOK, Versions
    <3>3. Len(journal') = 0 /\ DOMAIN journal' = {}
      BY <3>1
    <3>4. QED
      BY <1>1, <3>1, <3>2, <3>3 DEF SourceOK, SourceAt
  <2>3. QED
    BY <2>1, <2>2
<1>5. DestinationOK'
  <2>1. PICK a \in 0..Len(journal) : applied = 1..a
    BY DEF DestinationOK
  <2>2. 1 .. table' - 1 = {}
    BY <1>1
  <2>3. Exported(Versions', snap', table' - 1, a, Len(journal'))
    BY <2>2 DEF Exported
  <2>4. QED
    BY <1>1, <2>1, <2>3 DEF DestinationOK
<1>6. RunOK' /\ DrainedIsSourceVersion' /\ FailsOnlyInOverlap'
  BY <1>1, <1>2 DEF RunOK, DrainedIsSourceVersion, FailsOnlyInOverlap
<1>7. QED
  BY <1>3, <1>4, <1>5, <1>6

LEMMA CrashCutover ==
    ASSUME IndInv, Crash
    PROVE  IndInv'
<1> USE DEF IndInv
<1>1. /\ phase' = "done" /\ status' = "failed" /\ code' = "crash" /\ stuckAt' = 0
      /\ UNCHANGED <<src, journal, installed, atInstall, writes, created, dst, applied,
                     table, snap, cursor, empty, overlapEnd, runs>>
  BY DEF Crash, Die, source, destination
<1>2. Versions' = Versions
  BY <1>1 DEF Versions
<1>3. TypeOK'
  BY <1>1, VersionsFacts DEF TypeOK, Phases
<1>4. SourceOK' /\ DestinationOK'
  BY <1>1, <1>2 DEF SourceOK, DestinationOK, SourceAt
<1>5. RunOK' /\ DrainedIsSourceVersion'
  BY <1>1 DEF RunOK, DrainedIsSourceVersion
<1>6. FailsOnlyInOverlap'
  BY <1>1 DEF FailsOnlyInOverlap, TypeOK
<1>7. QED
  BY <1>3, <1>4, <1>5, <1>6

LEMMA RerunCutover ==
    ASSUME IndInv, Rerun
    PROVE  IndInv'
<1> USE DEF IndInv
<1>1. /\ phase' = "install" /\ table' = 1 /\ snap' = EmptyTable /\ cursor' = 0 /\ empty' = 0
      /\ status' = "running" /\ code' = "none" /\ stuckAt' = 0 /\ runs < MaxRuns
      /\ runs' = runs + 1
      /\ UNCHANGED <<src, journal, installed, atInstall, writes, overlapEnd>>
      /\ applied' \in {applied, {}} /\ dst' \in {dst, EmptyTable} /\ created' \in {created, FALSE}
  BY DEF Rerun, source, destination
<1>2. Versions' = Versions /\ Len(journal) \in Nat
  BY <1>1, VersionsFacts DEF Versions
<1>3. EmptyTable \in Contents /\ EmptyTable \in Tables
  BY EmptyContents
<1>4. TypeOK'
  <2>1. /\ 1 \in 1 .. Len(SchemaTables) + 1 /\ 0 \in 0..DrainPolls /\ 0 \in 0..Len(journal)
        /\ runs + 1 \in 0..MaxRuns
    BY <1>1, <1>2, SchemaFacts, CutoverAssumption DEF TypeOK
  <2>2. applied' \subseteq DOMAIN journal
    BY <1>1 DEF TypeOK
  <2>3. QED
    BY <1>1, <1>3, <2>1, <2>2 DEF TypeOK, Phases
<1>5. SourceOK'
  BY <1>1, <1>2 DEF SourceOK, SourceAt
<1>6. DestinationOK'
  <2>1. PICK a \in 0..Len(journal) : applied = 1..a
    BY DEF DestinationOK
  <2>2. PICK b \in 0..Len(journal) : applied' = 1..b
    <3>1. 0 \in 0..Len(journal) /\ {} = 1..0
      BY <1>2
    <3>2. QED
      BY <1>1, <2>1, <3>1
  <2>3. QED
    BY <1>1, <2>2 DEF DestinationOK
<1>7. RunOK' /\ DrainedIsSourceVersion'
  BY <1>1 DEF RunOK, DrainedIsSourceVersion, EmptyTable
<1>8. FailsOnlyInOverlap'
  BY <1>1 DEF FailsOnlyInOverlap, TypeOK
<1>9. QED
  BY <1>4, <1>5, <1>6, <1>7, <1>8

LEMMA CompareCutover ==
    ASSUME IndInv, Compare
    PROVE  IndInv'
<1> USE DEF IndInv
<1>1. /\ phase = "compare" /\ phase' = "done" /\ status' \in {"ready", "diverged"}
      /\ UNCHANGED <<src, journal, installed, atInstall, writes, created, dst, applied, table,
                     snap, cursor, empty, code, stuckAt, overlapEnd, runs>>
  BY DEF Compare, source, destination
<1>2. Versions' = Versions
  BY <1>1 DEF Versions
<1>3. TypeOK'
  BY <1>1 DEF TypeOK, Phases
<1>4. SourceOK' /\ DestinationOK'
  BY <1>1, <1>2 DEF SourceOK, DestinationOK, SourceAt
<1>5. RunOK' /\ DrainedIsSourceVersion' /\ FailsOnlyInOverlap'
  BY <1>1, <1>2 DEF RunOK, DrainedIsSourceVersion, FailsOnlyInOverlap, SourceAt
<1>6. QED
  BY <1>3, <1>4, <1>5

LEMMA WriteCutover ==
    ASSUME IndInv, AppWrite
    PROVE  IndInv'
<1> USE DEF IndInv
<1>1. PICK c \in LocalChanges(src) :
        /\ c.after # NoRow => LegalRow(c.after) /\ SameTable(c.key, c.after.id)
        /\ KeyIsFree(src, c)
        /\ ReferencesHold(Written(src, c))
        /\ src' = Written(src, c)
        /\ journal' = IF installed THEN Append(journal, c) ELSE journal
  BY DEF AppWrite
<1>2. /\ writes < MaxWrites /\ writes' = writes + 1
      /\ UNCHANGED <<installed, atInstall, created, dst, applied, phase, table, snap, cursor,
                     empty, status, code, stuckAt, overlapEnd, runs>>
  BY DEF AppWrite, destination, outcome
<1>3. src \in Tables /\ src \in [Keys -> Images] /\ atInstall \in [Keys -> Images]
  BY ContentsType DEF TypeOK
<1>4. c \in Changes /\ Captured(c) /\ Fits(src, c)
  BY <1>1, <1>3, LocalChangesType, LocalChangeShaped, LocalChangeFits DEF Captured
<1>5. src' \in Contents
  BY <1>1, <1>4, WrittenContents DEF TypeOK
<1>6. /\ Len(journal) \in Nat /\ journal \in Seq(Changes) /\ DOMAIN journal = 1..Len(journal)
  BY VersionsFacts
<1>7. /\ journal' \in Seq(Changes) /\ Len(journal') \in Nat /\ Len(journal) <= Len(journal')
      /\ DOMAIN journal' = 1..Len(journal')
      /\ \A i \in 1..Len(journal) : journal'[i] = journal[i]
      /\ installed => Len(journal') = Len(journal) + 1 /\ journal'[Len(journal) + 1] = c
      /\ ~installed => journal' = journal
  <2>1. CASE installed
    <3>1. PICK j : j = Append(journal, c)
      OBVIOUS
    <3>2. /\ j \in Seq(Changes) /\ Len(j) = Len(journal) + 1 /\ j[Len(journal) + 1] = c
          /\ DOMAIN j = 1..Len(j) /\ \A i \in 1..Len(journal) : j[i] = journal[i]
      BY <1>4, <1>6, <3>1
    <3>3. Len(j) \in Nat /\ Len(journal) <= Len(j)
      BY <1>6, <3>2
    <3>4. journal' = j
      BY <1>1, <2>1, <3>1
    <3>5. QED
      BY <2>1, <3>2, <3>3, <3>4
  <2>2. CASE ~installed
    <3>1. journal' = journal /\ Len(journal) <= Len(journal)
      BY <1>1, <1>6, <2>2
    <3>2. QED
      BY <1>6, <2>2, <3>1
  <2>3. QED
    BY <2>1, <2>2
<1>8. /\ \A i \in 0..Len(journal) : Versions'[i] = Versions[i]
      /\ installed => Versions'[Len(journal) + 1] = Written(Versions[Len(journal)], c)
  <2>1. CASE installed
    BY <1>1, <1>2, <1>3, <1>4, <1>6, <2>1, ReplayAppend DEF Versions
  <2>2. CASE ~installed
    BY <1>2, <1>7, <2>2 DEF Versions
  <2>3. QED
    BY <2>1, <2>2
<1>9. TypeOK'
  <2>0. PICK m, n : m = Len(journal) /\ n = Len(journal')
    OBVIOUS
  <2>a. m \in Nat /\ n \in Nat /\ m <= n
    BY <1>6, <1>7, <2>0
  <2>1. applied \subseteq DOMAIN journal' /\ writes + 1 \in 0..MaxWrites
    <3>1. 1..m \subseteq 1..n
      BY <2>a
    <3>2. applied \subseteq 1..m
      BY <1>6, <2>0 DEF TypeOK
    <3>3. applied \subseteq DOMAIN journal'
      BY <1>7, <2>0, <3>1, <3>2
    <3>4. writes + 1 \in 0..MaxWrites
      BY <1>2, CutoverAssumption DEF TypeOK
    <3>5. QED
      BY <3>3, <3>4
  <2>2. 0..Len(journal) \subseteq 0..Len(journal')
    <3>1. 0..m \subseteq 0..n
      BY <2>a
    <3>2. QED
      BY <2>0, <3>1
  <2>3. cursor' \in 0..Len(journal') /\ stuckAt' \in 0..Len(journal') /\ overlapEnd' \in 0..Len(journal')
    BY <1>2, <2>2 DEF TypeOK
  <2>4. QED
    BY <1>2, <1>5, <1>7, <2>1, <2>3 DEF TypeOK
<1>10. SourceOK'
  <2>1. CASE ~installed
    <3>1. journal = <<>> /\ journal' = <<>> /\ DOMAIN journal' = {}
      BY <1>7, <2>1 DEF SourceOK
    <3>2. QED
      BY <1>2, <2>1, <3>1 DEF SourceOK
  <2>2. CASE installed
    <3>1. src = Versions[Len(journal)] /\ installed'
      BY <1>2, <2>2 DEF SourceOK, SourceAt
    <3>2. src' = Versions'[Len(journal')]
      BY <1>1, <1>7, <1>8, <2>2, <3>1
    <3>3. ASSUME NEW i \in DOMAIN journal'
          PROVE  /\ Captured(journal'[i]) /\ Fits(Versions'[i - 1], journal'[i])
                 /\ Versions'[i] \in Contents
      <4>1. CASE i = Len(journal) + 1
        <5>1. i - 1 = Len(journal) /\ Len(journal) \in 0..Len(journal)
          BY <1>6, <4>1
        <5>2. Versions'[i - 1] = src /\ Versions'[i] = src' /\ journal'[i] = c
          BY <1>7, <1>8, <2>2, <3>1, <3>2, <4>1, <5>1
        <5>3. QED
          BY <1>4, <1>5, <5>2
      <4>2. CASE i # Len(journal) + 1
        <5>1. i \in DOMAIN journal /\ i \in 0..Len(journal) /\ i - 1 \in 0..Len(journal)
          BY <1>6, <1>7, <2>2, <4>2
        <5>2. /\ Captured(journal[i]) /\ Fits(Versions[i - 1], journal[i])
              /\ Versions[i] \in Contents
          BY <5>1 DEF SourceOK, SourceAt
        <5>3. journal'[i] = journal[i] /\ Versions'[i] = Versions[i] /\ Versions'[i - 1] = Versions[i - 1]
          BY <1>6, <1>7, <1>8, <5>1
        <5>4. QED
          BY <5>2, <5>3
      <4>3. QED
        BY <4>1, <4>2
    <3>4. QED
      BY <3>1, <3>2, <3>3 DEF SourceOK, SourceAt
  <2>3. QED
    BY <2>1, <2>2
<1>11. DestinationOK'
  <2>1. PICK a \in 0..Len(journal) :
          /\ applied = 1..a
          /\ phase = "export" => Exported(Versions, snap, table - 1, a, Len(journal))
          /\ phase = "import" => Exported(Versions, snap, Len(SchemaTables), a, overlapEnd)
          /\ phase = "drain"  => /\ cursor <= a
                                 /\ Converging(Versions, journal, dst, a, overlapEnd)
    BY DEF DestinationOK
  <2>2. /\ a \in 0..Len(journal') /\ a \in Nat /\ overlapEnd \in 0..Len(journal)
        /\ Len(journal) \in 0..Len(journal) /\ overlapEnd \in Nat /\ overlapEnd <= overlapEnd
    <3>1. PICK m, n : m = Len(journal) /\ n = Len(journal')
      OBVIOUS
    <3>a. m \in Nat /\ n \in Nat /\ m <= n /\ a \in 0..m
      BY <1>6, <1>7, <2>1, <3>1
    <3>2. a \in 0..n /\ a \in Nat
      BY <3>a
    <3>3. overlapEnd \in 0..Len(journal) /\ Len(journal) \in 0..Len(journal)
      BY <1>6 DEF TypeOK
    <3>4. overlapEnd \in Nat /\ overlapEnd <= overlapEnd
      BY <3>3
    <3>5. QED
      BY <3>1, <3>2, <3>3, <3>4
  <2>3. ASSUME phase = "export" PROVE Exported(Versions', snap, table - 1, a, Len(journal'))
    <3>1. PICK n : n = Len(journal')
      OBVIOUS
    <3>2. n \in Nat /\ Len(journal) <= n /\ Exported(Versions, snap, table - 1, a, Len(journal))
      BY <1>7, <2>1, <2>3, <3>1
    <3>3. Exported(Versions', snap, table - 1, a, n)
      BY <1>6, <1>8, <2>2, <3>2, ExportedExtends
    <3>4. QED
      BY <3>1, <3>3
  <2>4. ASSUME phase = "import" PROVE Exported(Versions', snap, Len(SchemaTables), a, overlapEnd)
    BY <1>6, <1>8, <2>1, <2>2, <2>4, ExportedExtends
  <2>5. ASSUME phase = "drain" PROVE Converging(Versions', journal', dst, a, overlapEnd)
    BY <1>6, <1>7, <1>8, <2>1, <2>2, <2>5, ConvergingExtends
  <2>6. QED
    BY <1>2, <2>1, <2>2, <2>3, <2>4, <2>5 DEF DestinationOK
<1>12. RunOK' /\ FailsOnlyInOverlap'
  BY <1>2 DEF RunOK, FailsOnlyInOverlap
<1>13. DrainedIsSourceVersion'
  <2>1. Versions'[cursor] = Versions[cursor]
    BY <1>8 DEF TypeOK
  <2>2. QED
    BY <1>2, <2>1 DEF DrainedIsSourceVersion, SourceAt
<1>14. QED
  BY <1>9, <1>10, <1>11, <1>12, <1>13

LEMMA ExportTableCutover ==
    ASSUME IndInv, ExportTable
    PROVE  IndInv'
<1> USE DEF IndInv
<1>1. /\ phase \in {"export", "verify"} /\ table <= Len(SchemaTables) /\ table' = table + 1
      /\ snap' = [k \in Keys |-> IF k \in SchemaTables[table] THEN src[k] ELSE snap[k]]
      /\ UNCHANGED <<src, journal, installed, atInstall, writes, created, dst, applied, phase,
                     cursor, empty, status, code, stuckAt, overlapEnd, runs>>
  BY DEF ExportTable, source, destination, outcome
<1>2. Versions' = Versions /\ Len(journal) \in Nat
  BY <1>1, VersionsFacts DEF Versions
<1>3. table \in 1..2 /\ table' \in 1 .. Len(SchemaTables) + 1 /\ table' - 1 = table
  BY <1>1, SchemaFacts DEF TypeOK
<1>4. src \in Tables /\ snap \in Tables /\ \A k \in Keys : src[k] # NoRow => LegalRow(src[k])
  BY DEF TypeOK, Contents
<1>5. snap' \in Tables
  BY <1>1, <1>4 DEF Tables
<1>6. TypeOK'
  BY <1>1, <1>3, <1>5 DEF TypeOK
<1>7. SourceOK'
  BY <1>1, <1>2 DEF SourceOK, SourceAt
<1>8. DestinationOK'
  <2>1. PICK a \in 0..Len(journal) :
          /\ applied = 1..a
          /\ phase = "export" => Exported(Versions, snap, table - 1, a, Len(journal))
    BY DEF DestinationOK
  <2>2. ASSUME phase = "export" PROVE Exported(Versions, snap', table, a, Len(journal))
    <3>1. ASSUME NEW i \in 1..table, NEW k \in SchemaTables[i]
          PROVE  \E p \in a..Len(journal) : snap'[k] = Versions[p][k]
      <4>1. k \in Keys
        BY <1>3, SchemaFacts
      <4>2. CASE i = table
        <5>1. src = Versions[Len(journal)]
          BY <2>2 DEF SourceOK, SourceAt
        <5>2. snap'[k] = Versions[Len(journal)][k]
          BY <1>1, <4>1, <4>2, <5>1
        <5>3. Len(journal) \in a..Len(journal)
          BY <1>2
        <5>4. QED
          BY <5>2, <5>3
      <4>3. CASE i # table
        <5>1. i = 1 /\ table = 2
          BY <1>3, <4>3
        <5>2. k \notin SchemaTables[table] /\ i \in 1 .. table - 1
          BY <5>1, SchemaFacts, CutoverAssumption
        <5>3. snap'[k] = snap[k]
          BY <1>1, <4>1, <5>2
        <5>4. QED
          BY <2>1, <2>2, <5>2, <5>3 DEF Exported
      <4>4. QED
        BY <4>2, <4>3
    <3>2. QED
      BY <3>1 DEF Exported
  <2>3. QED
    BY <1>1, <1>2, <1>3, <2>1, <2>2 DEF DestinationOK
<1>9. RunOK'
  <2>1. \A k \in Keys : snap'[k] # NoRow => LegalRow(snap'[k])
    BY <1>1, <1>4 DEF RunOK
  <2>2. QED
    BY <1>1, <2>1 DEF RunOK
<1>10. DrainedIsSourceVersion' /\ FailsOnlyInOverlap'
  BY <1>1, <1>2 DEF DrainedIsSourceVersion, FailsOnlyInOverlap, SourceAt
<1>11. QED
  BY <1>6, <1>7, <1>8, <1>9, <1>10

LEMMA ExportCompleteCutover ==
    ASSUME IndInv, ExportComplete
    PROVE  IndInv'
<1> USE DEF IndInv
<1>1. /\ phase \in {"export", "verify"} /\ table > Len(SchemaTables)
      /\ phase = "export" => phase' = "import" /\ overlapEnd' = Len(journal)
      /\ phase = "verify" => phase' = "compare" /\ overlapEnd' = overlapEnd
      /\ UNCHANGED <<src, journal, installed, atInstall, writes, created, dst, applied, table,
                     snap, cursor, empty, status, code, stuckAt, runs>>
  BY DEF ExportComplete, source, destination, outcome
<1>2. Versions' = Versions /\ Len(journal) \in Nat
  BY <1>1, VersionsFacts DEF Versions
<1>3. table = Len(SchemaTables) + 1 /\ table - 1 = Len(SchemaTables)
  BY <1>1, SchemaFacts DEF TypeOK
<1>4. overlapEnd' \in 0..Len(journal) /\ stuckAt \in 0..overlapEnd'
  BY <1>1, <1>2 DEF TypeOK, FailsOnlyInOverlap
<1>5. TypeOK'
  BY <1>1, <1>4 DEF TypeOK, Phases
<1>6. SourceOK'
  BY <1>1, <1>2 DEF SourceOK, SourceAt
<1>7. DestinationOK'
  <2>1. PICK a \in 0..Len(journal) :
          /\ applied = 1..a
          /\ phase = "export" => Exported(Versions, snap, table - 1, a, Len(journal))
    BY DEF DestinationOK
  <2>2. CASE phase = "export"
    BY <1>1, <1>2, <1>3, <2>1, <2>2 DEF DestinationOK
  <2>3. CASE phase = "verify"
    BY <1>1, <1>2, <2>1, <2>3 DEF DestinationOK
  <2>4. QED
    BY <1>1, <2>2, <2>3
<1>8. RunOK' /\ DrainedIsSourceVersion'
  BY <1>1, <1>2, <1>3 DEF RunOK, DrainedIsSourceVersion, SourceAt
<1>9. FailsOnlyInOverlap'
  BY <1>1, <1>4 DEF FailsOnlyInOverlap
<1>10. QED
  BY <1>5, <1>6, <1>7, <1>8, <1>9

LEMMA ImportCutover ==
    ASSUME IndInv, Import
    PROVE  IndInv'
<1> USE DEF IndInv
<1>1. /\ phase = "import"
      /\ UNCHANGED <<src, journal, installed, atInstall, writes, table, snap, overlapEnd, runs>>
  BY DEF Import, source
<1>2. Versions' = Versions /\ Len(journal) \in Nat
  BY <1>1, VersionsFacts DEF Versions
<1>3. PICK a \in 0..Len(journal) :
        applied = 1..a /\ Exported(Versions, snap, Len(SchemaTables), a, overlapEnd)
  BY <1>1 DEF DestinationOK
<1>4. CASE Importable
  <2>1. /\ created' = TRUE /\ dst' = snap /\ phase' = "drain" /\ cursor' = 0 /\ empty' = 0
        /\ UNCHANGED <<applied, status, code, stuckAt>>
    BY <1>4 DEF Import, outcome
  <2>2. snap \in Contents
    BY <1>4 DEF Importable, RunOK, TypeOK, Contents
  <2>3. 0 \in 0..Len(journal) /\ 0 \in 0..DrainPolls /\ 0 < DrainPolls /\ 0 <= a
    BY <1>2, CutoverAssumption
  <2>4. TypeOK'
    BY <1>1, <2>1, <2>2, <2>3 DEF TypeOK, Phases
  <2>5. SourceOK'
    BY <1>1, <1>2, <2>1 DEF SourceOK, SourceAt
  <2>6. Converging(Versions, journal, snap, a, overlapEnd)
    <3>1. ASSUME NEW k \in Keys
          PROVE  \E p \in 0..overlapEnd : Settled(Versions, journal, snap[k], k, a, p)
      <4>1. PICK p \in a..overlapEnd : snap[k] = Versions[p][k]
        BY <1>3, SchemaFacts DEF Exported
      <4>2. p \in 0..overlapEnd /\ (p <= a => p = a)
        BY <1>2, <4>1 DEF TypeOK
      <4>3. Settled(Versions, journal, snap[k], k, a, p)
        BY <4>1, <4>2 DEF Settled
      <4>4. QED
        BY <4>2, <4>3
    <3>2. QED
      BY <3>1 DEF Converging
  <2>7. DestinationOK'
    BY <1>1, <1>2, <1>3, <2>1, <2>3, <2>6 DEF DestinationOK
  <2>8. RunOK'
    BY <1>1, <2>1, <2>3 DEF RunOK
  <2>9. status' \notin {"ready", "diverged"}
    BY <1>1, <2>1 DEF RunOK
  <2>10. DrainedIsSourceVersion' /\ FailsOnlyInOverlap'
    BY <1>1, <2>1, <2>9 DEF DrainedIsSourceVersion, FailsOnlyInOverlap
  <2>11. QED
    BY <2>4, <2>5, <2>7, <2>8, <2>10
<1>5. CASE ~Importable
  <2>1. /\ phase' = "done" /\ status' = "failed" /\ code' = "ERR_SNAPSHOT" /\ stuckAt' = 0
        /\ UNCHANGED <<created, dst, applied, cursor, empty>>
    BY <1>5 DEF Import, Die, destination
  <2>2. TypeOK'
    BY <1>1, <1>2, <2>1 DEF TypeOK, Phases
  <2>3. SourceOK'
    BY <1>1, <1>2, <2>1 DEF SourceOK, SourceAt
  <2>4. DestinationOK'
    BY <1>1, <1>3, <2>1 DEF DestinationOK
  <2>5. RunOK' /\ DrainedIsSourceVersion'
    BY <1>1, <2>1 DEF RunOK, DrainedIsSourceVersion
  <2>6. FailsOnlyInOverlap'
    BY <1>1, <2>1 DEF FailsOnlyInOverlap, TypeOK
  <2>7. QED
    BY <2>2, <2>3, <2>4, <2>5, <2>6
<1>6. QED
  BY <1>4, <1>5

LEMMA DrainBatchCutover ==
    ASSUME IndInv, DrainBatch
    PROVE  IndInv'
<1> USE DEF IndInv
<1>1. /\ phase = "drain" /\ Len(journal) > cursor
      /\ UNCHANGED <<src, journal, installed, atInstall, writes, created, table, snap,
                     overlapEnd, runs>>
  BY DEF DrainBatch, source
<1>2. Versions' = Versions /\ Len(journal) \in Nat
  BY <1>1, VersionsFacts DEF Versions
<1>3. Unread
  BY <1>1, <1>2 DEF Unread, TypeOK
<1>4. /\ LastRead \in Nat /\ cursor < LastRead /\ LastRead <= Len(journal) /\ cursor \in Nat
  BY <1>3, BatchFacts
<1>5. PICK a \in 0..Len(journal) :
        /\ applied = 1..a /\ cursor <= a
        /\ Converging(Versions, journal, dst, a, overlapEnd)
  BY <1>1 DEF DestinationOK
<1>6. overlapEnd \in 0..Len(journal)
  BY DEF TypeOK
<1>7. ApplyBatch \in Results /\ Sound(ApplyBatch, a, LastRead, overlapEnd)
  BY <1>3, <1>5, <1>6, BatchSound
<1>8. status \notin {"ready", "diverged"}
  BY <1>1 DEF RunOK
<1>9. CASE ApplyBatch.code = "none"
  <2>1. /\ dst' = ApplyBatch.table /\ applied' = applied \cup (cursor + 1 .. LastRead)
        /\ cursor' = LastRead /\ empty' = 0 /\ UNCHANGED <<phase, status, code, stuckAt>>
    BY <1>9 DEF DrainBatch, outcome
  <2>2. PICK b : b = Reached(a, LastRead)
    OBVIOUS
  <2>3. /\ b \in 0..Len(journal) /\ LastRead <= b
        /\ (1..a) \cup (cursor + 1 .. LastRead) = 1..b
    BY <1>2, <1>4, <1>5, <2>2 DEF Reached
  <2>4. dst' \in Contents /\ Converging(Versions, journal, dst', b, overlapEnd)
    BY <1>7, <1>9, <2>1, <2>2 DEF Sound
  <2>5. LastRead \in 0..Len(journal) /\ 0 \in 0..DrainPolls /\ 0 < DrainPolls
    BY <1>2, <1>4, CutoverAssumption
  <2>6. applied' \subseteq DOMAIN journal
    <3>1. DOMAIN journal = 1..Len(journal) /\ 1..b \subseteq 1..Len(journal)
      BY <1>2, <2>3, VersionsFacts
    <3>2. QED
      BY <1>5, <2>1, <2>3, <3>1
  <2>7. TypeOK'
    BY <1>1, <2>1, <2>4, <2>5, <2>6 DEF TypeOK
  <2>8. SourceOK'
    BY <1>1, <1>2, <2>1 DEF SourceOK, SourceAt
  <2>9. DestinationOK'
    BY <1>1, <1>2, <1>5, <2>1, <2>3, <2>4 DEF DestinationOK
  <2>10. RunOK' /\ DrainedIsSourceVersion' /\ FailsOnlyInOverlap'
    BY <1>1, <1>8, <2>1, <2>5 DEF RunOK, DrainedIsSourceVersion, FailsOnlyInOverlap
  <2>11. QED
    BY <2>7, <2>8, <2>9, <2>10
<1>10. CASE ApplyBatch.code # "none"
  <2>1. /\ phase' = "done" /\ status' = "failed" /\ code' = ApplyBatch.code
        /\ stuckAt' = ApplyBatch.at /\ UNCHANGED <<dst, applied, cursor, empty>>
    BY <1>10 DEF DrainBatch, Die
  <2>2. /\ ApplyBatch.at \in Nat /\ ApplyBatch.at <= overlapEnd
        /\ ApplyBatch.code \in {"none", "conflict", "error"}
    BY <1>7, <1>10 DEF Results, Sound
  <2>3. ApplyBatch.at \in 0..Len(journal)
    BY <1>2, <1>6, <2>2
  <2>4. TypeOK'
    BY <1>1, <2>1, <2>2, <2>3 DEF TypeOK, Phases
  <2>5. SourceOK'
    BY <1>1, <1>2, <2>1 DEF SourceOK, SourceAt
  <2>6. DestinationOK'
    BY <1>1, <1>5, <2>1 DEF DestinationOK
  <2>7. RunOK' /\ DrainedIsSourceVersion' /\ FailsOnlyInOverlap'
    BY <1>1, <2>1, <2>2 DEF RunOK, DrainedIsSourceVersion, FailsOnlyInOverlap
  <2>8. QED
    BY <2>4, <2>5, <2>6, <2>7
<1>11. QED
  BY <1>9, <1>10

LEMMA DrainEmptyCutover ==
    ASSUME IndInv, DrainEmpty
    PROVE  IndInv'
<1> USE DEF IndInv
<1>1. /\ phase = "drain" /\ Len(journal) = cursor /\ empty' = empty + 1
      /\ \/ phase' = "verify" /\ table' = 1
         \/ empty + 1 < DrainPolls /\ phase' = "drain" /\ table' = table
      /\ UNCHANGED <<src, journal, installed, atInstall, writes, created, dst, applied, snap,
                     cursor, status, code, stuckAt, overlapEnd, runs>>
  <2>1. empty \in Nat /\ DrainPolls \in Nat
    BY CutoverAssumption DEF TypeOK
  <2>2. QED
    BY <2>1 DEF DrainEmpty, source, destination, outcome
<1>2. Versions' = Versions /\ Len(journal) \in Nat
  BY <1>1, VersionsFacts DEF Versions
<1>3. PICK a \in 0..Len(journal) :
        /\ applied = 1..a /\ cursor <= a
        /\ Converging(Versions, journal, dst, a, overlapEnd)
  BY <1>1 DEF DestinationOK
<1>4. a = cursor /\ overlapEnd \in Nat /\ overlapEnd <= a
  BY <1>1, <1>2, <1>3 DEF TypeOK
<1>5. dst = Versions[cursor]
  <2>1. dst \in [Keys -> Images]
    BY ContentsType DEF TypeOK
  <2>2. QED
    BY <1>3, <1>4, <2>1, ConvergedIsVersion
<1>6. TypeOK'
  <2>1. empty + 1 \in 0..DrainPolls /\ 1 \in 1 .. Len(SchemaTables) + 1
    BY <1>1, SchemaFacts, CutoverAssumption DEF RunOK, TypeOK
  <2>2. QED
    BY <1>1, <2>1 DEF TypeOK, Phases
<1>7. SourceOK'
  BY <1>1, <1>2 DEF SourceOK, SourceAt
<1>8. DestinationOK'
  BY <1>1, <1>2, <1>3 DEF DestinationOK
<1>9. RunOK' /\ DrainedIsSourceVersion' /\ FailsOnlyInOverlap'
  BY <1>1, <1>2, <1>5 DEF RunOK, DrainedIsSourceVersion, FailsOnlyInOverlap, SourceAt
<1>10. QED
  BY <1>6, <1>7, <1>8, <1>9

LEMMA NextCutover == IndInv /\ [Next]_vars => IndInv'
<1> SUFFICES ASSUME IndInv, [Next]_vars PROVE IndInv'
  OBVIOUS
<1>1. CASE UNCHANGED vars
  BY <1>1 DEF vars, source, destination, outcome, IndInv, TypeOK, SourceOK, DestinationOK, RunOK,
              DrainedIsSourceVersion, FailsOnlyInOverlap, SourceAt, Versions
<1>2. CASE Next
  BY <1>2, WriteCutover, InstallCutover, ExportTableCutover, ExportCompleteCutover, ImportCutover,
     DrainBatchCutover, DrainEmptyCutover, CompareCutover, CrashCutover, RerunCutover
     DEF Next, Tool
<1>3. QED
  BY <1>1, <1>2

-----------------------------------------------------------------------------
(* The theorems.                                                           *)

\* What is applied is a prefix of the journal, and every row of the destination
\* is on its way from the version it was exported at to the version applied.
THEOREM Inductive == Spec => []IndInv
BY InitCutover, NextCutover, PTL DEF Spec

\* Every variable keeps its type: the destination never breaks a reference or
\* holds a row its columns refuse.
THEOREM TypeCorrect == Spec => []TypeOK
<1>1. IndInv => TypeOK
  BY DEF IndInv
<1>2. QED
  BY <1>1, Inductive, PTL

\* However torn the snapshot was, whatever earlier runs left behind, a drain
\* that ends leaves the source as it was at the last change read.
THEOREM DrainsToAVersion == Spec => []DrainedIsSourceVersion
<1>1. IndInv => DrainedIsSourceVersion
  BY DEF IndInv
<1>2. QED
  BY <1>1, Inductive, PTL

\* A drain fails only on a change older than the end of the snapshot: later
\* ones replay, whatever the application writes.
THEOREM OverlapOnly == Spec => []FailsOnlyInOverlap
<1>1. IndInv => FailsOnlyInOverlap
  BY DEF IndInv
<1>2. QED
  BY <1>1, Inductive, PTL

=============================================================================
