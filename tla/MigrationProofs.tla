---------------------------- MODULE MigrationProofs ----------------------------
(***************************************************************************)
(* Migration is safe for every set of command lines, contracts and         *)
(* schemas, whatever others write, wherever the tool dies and however      *)
(* often it runs again: RunInv is inductive.                               *)
(***************************************************************************)
EXTENDS Migration, Induction, FiniteSetTheorems

-----------------------------------------------------------------------------
(* Sequences and what is in them.                                          *)

LEMMA ConcatElements ==
    ASSUME NEW S, NEW s \in Seq(S), NEW t \in Seq(S)
    PROVE  s \o t \in Seq(S) /\ ToSet(s \o t) = ToSet(s) \cup ToSet(t)
<1>1. s \o t \in Seq(S) /\ Len(s \o t) = Len(s) + Len(t)
  OBVIOUS
<1>2. \A x \in ToSet(s \o t) : x \in ToSet(s) \cup ToSet(t)
  BY DEF ToSet
<1>3. \A x \in ToSet(s) : x \in ToSet(s \o t)
  BY DEF ToSet
<1>4. ASSUME NEW x \in ToSet(t) PROVE x \in ToSet(s \o t)
  <2>1. PICK i \in 1..Len(t) : x = t[i]
    BY DEF ToSet
  <2>2. Len(s) + i \in 1..Len(s \o t) /\ (s \o t)[Len(s) + i] = t[i]
    BY <1>1
  <2>3. QED
    BY <1>1, <2>1, <2>2 DEF ToSet
<1>5. QED
  BY <1>1, <1>2, <1>3, <1>4

\* Sequence s lists the set S.
Lists(s, S) == s \in Seq(S) /\ ToSet(s) = S

LEMMA WiderSequence ==
    ASSUME NEW s, NEW S, NEW T, Lists(s, S), S \subseteq T
    PROVE  s \in Seq(T)
BY DEF Lists

LEMMA ConcatLists ==
    ASSUME NEW s, NEW S, NEW t, NEW T, Lists(s, S), Lists(t, T)
    PROVE  Lists(s \o t, S \cup T)
<1>1. s \in Seq(S \cup T) /\ t \in Seq(S \cup T)
  BY DEF Lists
<1>2. QED
  BY <1>1, ConcatElements DEF Lists

\* The concatenations of the first members of a list of lists.
LEMMA ConcatExists ==
    \A S, lists : lists \in Seq(Seq(S)) =>
        \E f \in [0..Len(lists) -> Seq(S)] :
            f[0] = <<>> /\ \A n \in 1..Len(lists) : f[n] = f[n - 1] \o lists[n]
<1>1. ASSUME NEW S, NEW lists, lists \in Seq(Seq(S))
      PROVE  \E f \in [0..Len(lists) -> Seq(S)] :
                f[0] = <<>> /\ \A n \in 1..Len(lists) : f[n] = f[n - 1] \o lists[n]
  <2> DEFINE T == Seq(S)
             base == <<>>
             N == Len(lists)
             extend == [n \in 1..N |-> [t \in T |-> t \o lists[n]]]
  <2>1. N \in Nat /\ base \in T /\ extend \in [1..N -> [T -> T]]
    BY <1>1
  <2>2. PICK f \in [0..N -> T] : f[0] = base /\ \A n \in 1..N : f[n] = extend[n][f[n - 1]]
    <3> HIDE DEF T, base, N, extend
    <3>1. QED
      BY <2>1, RecursionExists
  <2>3. ASSUME NEW n \in 1..N PROVE f[n] = f[n - 1] \o lists[n]
    <3>1. n - 1 \in 0..N
      BY <2>1
    <3>2. f[n - 1] \in T
      BY <3>1
    <3>3. QED
      BY <2>2, <3>2
  <2>4. QED
    BY <2>2, <2>3
<1>2. QED
  BY <1>1

\* A list of lists is flattened by one concatenation after the other.
LEMMA FlattenSteps ==
    ASSUME NEW S, NEW lists \in Seq(Seq(S))
    PROVE  \E f \in [0..Len(lists) -> Seq(S)] :
            /\ f[0] = <<>> /\ \A n \in 1..Len(lists) : f[n] = f[n - 1] \o lists[n]
            /\ FlattenSeq(lists) = f[Len(lists)]
<1> DEFINE N == Len(lists)
           T == Seq(S)
           Flattens(f) == f = [i \in 1..N |-> IF i = 1 THEN lists[i] ELSE f[i - 1] \o lists[i]]
<1>1. N \in Nat /\ DOMAIN lists = 1..N /\ \A n \in 1..N : lists[n] \in T
  OBVIOUS
<1>2. PICK f \in [0..N -> T] : f[0] = <<>> /\ \A n \in 1..N : f[n] = f[n - 1] \o lists[n]
  BY ConcatExists
<1>3. CASE N = 0
  <2>1. FlattenSeq(lists) = <<>>
    BY <1>1, <1>3 DEF FlattenSeq
  <2>2. QED
    BY <1>2, <1>3, <2>1
<1>4. CASE N # 0
  <2>1. ASSUME NEW n \in 1..N PROVE f[n] = f[n - 1] \o lists[n]
    BY <1>2
  <2> DEFINE g == [n \in 1..N |-> f[n]]
  <2>2. Flattens(g)
    <3>1. ASSUME NEW n \in 1..N
          PROVE  g[n] = IF n = 1 THEN lists[n] ELSE g[n - 1] \o lists[n]
      <4>1. CASE n = 1
        <5>1. f[1] = <<>> \o lists[1]
          <6>1. f[1] = f[1 - 1] \o lists[1]
            BY <2>1, <4>1
          <6>2. f[1 - 1] = <<>>
            BY <1>2
          <6>3. QED
            BY <6>1, <6>2
        <5>2. lists[1] \in Seq(S)
          BY <1>1, <4>1
        <5>3. QED
          BY <4>1, <5>1, <5>2
      <4>2. CASE n # 1
        <5>1. n - 1 \in 1..N
          BY <4>2
        <5>2. QED
          BY <2>1, <4>2, <5>1
      <4>3. QED
        BY <4>1, <4>2
    <3>2. QED
      BY <3>1
  <2> DEFINE flatten == CHOOSE h : Flattens(h)
  <2>3. Flattens(flatten)
    <3> HIDE DEF Flattens, g
    <3>1. QED
      BY <2>2
  <2>4. FlattenSeq(lists) = flatten[N]
    BY <1>4 DEF FlattenSeq
  <2> HIDE DEF flatten
  <2>5. ASSUME NEW n \in 1..N
        PROVE  flatten[n] = IF n = 1 THEN lists[n] ELSE flatten[n - 1] \o lists[n]
    BY <2>3
  <2> DEFINE M == {n \in Nat : n \in 1..N => flatten[n] = f[n]}
  <2>6. 0 \in M
    OBVIOUS
  <2>7. ASSUME NEW n \in Nat, n \in M PROVE n + 1 \in M
    <3>1. SUFFICES ASSUME n + 1 \in 1..N PROVE flatten[n + 1] = f[n + 1]
      OBVIOUS
    <3>2. lists[n + 1] \in Seq(S)
      BY <1>1, <3>1
    <3>3. f[n + 1] = f[n] \o lists[n + 1]
      <4> HIDE DEF T, M, N
      <4>1. PICK k \in 1..N : k = n + 1 /\ k - 1 = n
        BY <3>1
      <4>2. f[k] = f[k - 1] \o lists[k]
        BY <2>1
      <4>3. QED
        BY <4>1, <4>2, Zenon
    <3>4. CASE n = 0
      <4>1. flatten[1] = lists[1]
        BY <2>5, <3>1, <3>4
      <4>2. f[1] = <<>> \o lists[1]
        <5>1. n + 1 = 1
          BY <3>4
        <5>2. QED
          BY <1>2, <3>3, <3>4, <5>1, Zenon
      <4>3. QED
        BY <3>2, <3>4, <4>1, <4>2
    <3>5. CASE n # 0
      <4>1. n \in 1..N
        BY <3>1, <3>5
      <4>2. flatten[n] = f[n]
        BY <2>7, <4>1
      <4>3. flatten[n + 1] = IF n + 1 = 1 THEN lists[n + 1]
                             ELSE flatten[n + 1 - 1] \o lists[n + 1]
        BY <2>5, <3>1
      <4>4. n + 1 # 1 /\ n + 1 - 1 = n
        BY <3>5
      <4>5. QED
        BY <3>3, <4>2, <4>3, <4>4
    <3>6. QED
      BY <3>4, <3>5
  <2>8. Nat \subseteq M
    <3> HIDE DEF M
    <3>1. QED
      BY <2>6, <2>7, SetInduction
  <2>9. flatten[N] = f[N]
    <3>1. N \in Nat /\ N \in 1..N
      BY <1>1, <1>4
    <3>2. QED
      BY <2>8, <3>1
  <2>10. QED
    BY <1>2, <2>4, <2>9
<1>5. QED
  BY <1>3, <1>4

\* A list flattened has the elements of its members.
LEMMA FlattenElements ==
    ASSUME NEW S, NEW lists \in Seq(Seq(S))
    PROVE  /\ FlattenSeq(lists) \in Seq(S)
           /\ ToSet(FlattenSeq(lists)) = UNION {ToSet(lists[i]) : i \in DOMAIN lists}
<1> DEFINE N == Len(lists)
<1>1. N \in Nat /\ DOMAIN lists = 1..N /\ \A n \in 1..N : lists[n] \in Seq(S)
  OBVIOUS
<1>2. PICK f \in [0..N -> Seq(S)] :
        /\ f[0] = <<>> /\ \A n \in 1..N : f[n] = f[n - 1] \o lists[n]
        /\ FlattenSeq(lists) = f[N]
  BY FlattenSteps
<1> DEFINE Holds(n) == ToSet(f[n]) = UNION {ToSet(lists[i]) : i \in 1..n}
           M == {n \in Nat : n <= N => Holds(n)}
<1>3. 0 \in M
  BY <1>2 DEF ToSet
<1>4. ASSUME NEW n \in Nat, n \in M PROVE n + 1 \in M
  <2>1. SUFFICES ASSUME n + 1 <= N PROVE Holds(n + 1)
    OBVIOUS
  <2>2. n \in 0..N /\ n + 1 \in 1..N /\ n + 1 - 1 = n
    BY <1>1, <2>1
  <2>3. lists[n + 1] \in Seq(S) /\ f[n] \in Seq(S) /\ f[n + 1] = f[n] \o lists[n + 1]
    <3>1. PICK k \in 1..N : k = n + 1 /\ k - 1 = n
      BY <2>2
    <3>2. f[k] = f[k - 1] \o lists[k]
      BY <1>2, Zenon
    <3>3. f[n + 1] = f[n] \o lists[n + 1]
      BY <3>1, <3>2, Zenon
    <3>4. QED
      BY <1>1, <2>2, <3>3
  <2>4. ToSet(f[n + 1]) = ToSet(f[n]) \cup ToSet(lists[n + 1])
    BY <2>3, ConcatElements
  <2>5. 1..n + 1 = (1..n) \cup {n + 1}
    OBVIOUS
  <2>6. Holds(n)
    BY <1>1, <1>4, <2>1
  <2>7. QED
    BY <2>4, <2>5, <2>6
<1>5. Nat \subseteq M
  <2> HIDE DEF M
  <2>1. QED
    BY <1>3, <1>4, SetInduction
<1>6. Holds(N)
  <2>1. N \in M
    BY <1>1, <1>5
  <2>2. QED
    BY <1>1, <2>1
<1>7. QED
  BY <1>1, <1>2, <1>6

\* A finite set is listed completely.
LEMMA ListedElements ==
    ASSUME NEW S, IsFiniteSet(S)
    PROVE  SetToSeq(S) \in Seq(S) /\ ToSet(SetToSeq(S)) = S
<1> DEFINE n == Cardinality(S)
<1>1. n \in Nat /\ \E f \in [1..n -> S] : IsInjective(f)
  BY FS_CardinalityType DEF ExistsBijection, Bijection, Injection
<1>2. SetToSeq(S) \in [1..n -> S] /\ IsInjective(SetToSeq(S))
  BY <1>1 DEF SetToSeq
<1>3. SetToSeq(S) \in Injection(1..n, S)
  BY <1>2 DEF Injection
<1>4. Cardinality(1..n) = n
  BY <1>1, FS_Interval
<1>5. SetToSeq(S) \in Surjection(1..n, S)
  <2>1. Cardinality(1..n) = Cardinality(S)
    BY <1>4
  <2> HIDE DEF n
  <2>2. SetToSeq(S) \in Surjection(1..n, S) <=> Cardinality(1..n) = Cardinality(S)
    BY <1>3, FS_Injection
  <2>3. QED
    BY <2>1, <2>2
<1>6. PICK f \in [1..n -> S] : f = SetToSeq(S) /\ \A x \in S : \E i \in 1..n : f[i] = x
  BY <1>2, <1>5 DEF Surjection
<1>7. f \in Seq(S) /\ DOMAIN f = 1..n
  BY <1>1
<1>8. ToSet(f) = S
  BY <1>6, <1>7 DEF ToSet
<1>9. QED
  BY <1>6, <1>7, <1>8

\* So does every order of them.
LEMMA OrderElements ==
    ASSUME NEW S, IsFiniteSet(S), NEW list \in SetToSeqs(S)
    PROVE  list \in Seq(S) /\ ToSet(list) = S
<1> DEFINE n == Cardinality(S)
<1>1. n \in Nat
  BY FS_CardinalityType
<1>2. list \in [1..n -> S] /\ \A i, j \in 1..n : i # j => list[i] # list[j]
  BY DEF SetToSeqs
<1>3. list \in Injection(1..n, S)
  BY <1>2 DEF Injection, IsInjective
<1>4. Cardinality(1..n) = n
  BY <1>1, FS_Interval
<1>5. list \in Surjection(1..n, S)
  <2>1. Cardinality(1..n) = Cardinality(S)
    BY <1>4
  <2> HIDE DEF n
  <2>2. list \in Surjection(1..n, S) <=> Cardinality(1..n) = Cardinality(S)
    BY <1>3, FS_Injection
  <2>3. QED
    BY <2>1, <2>2
<1>6. \A x \in S : \E i \in 1..n : list[i] = x
  BY <1>5 DEF Surjection
<1>7. list \in Seq(S) /\ DOMAIN list = 1..n
  BY <1>1, <1>2
<1>8. ToSet(list) = S
  BY <1>2, <1>6, <1>7 DEF ToSet
<1>9. QED
  BY <1>7, <1>8

-----------------------------------------------------------------------------
(* The statements of a schema.                                             *)

Kinds == {"domain", "table", "index", "view", "function", "trigger"}

\* The statements that create objects of a kind.
Creations(kind, objects) == {[kind |-> kind, object |-> o] : o \in objects}

\* What Statements lists.
StatementsOf(engine, s) ==
    Creations("domain", IF engine = "postgres" THEN ToSet(s.domains) ELSE {})
    \cup Creations("table", {CompiledTable(engine, t, s.domains) : t \in ToSet(s.tables)})
    \cup Creations("index", ToSet(s.indexes))
    \cup Creations("view", ToSet(s.views))
    \cup UNION {ToSet(CompiledTrigger(engine, g)) : g \in ToSet(s.triggers)}

LEMMA CreatingLists ==
    ASSUME NEW kind, NEW objects, NEW S, Lists(objects, S)
    PROVE  Lists(Creating(kind, objects), Creations(kind, S))
<1>1. DOMAIN objects = 1..Len(objects) /\ Len(objects) \in Nat /\ S = ToSet(objects)
  BY DEF Lists
<1>2. Creating(kind, objects) \in [1..Len(objects) -> Creations(kind, S)]
  BY <1>1 DEF Creating, Creations, ToSet
<1>3. ToSet(Creating(kind, objects)) = Creations(kind, S)
  BY <1>1 DEF Creating, Creations, ToSet
<1>4. QED
  BY <1>1, <1>2, <1>3 DEF Lists

LEMMA TableLists ==
    ASSUME NEW engine, NEW tables, NEW domains, Lists(tables, ToSet(tables))
    PROVE  Lists([i \in DOMAIN tables |-> CompiledTable(engine, tables[i], domains)],
                 {CompiledTable(engine, t, domains) : t \in ToSet(tables)})
<1> DEFINE Table(t) == CompiledTable(engine, t, domains)
           compiled == [i \in DOMAIN tables |-> Table(tables[i])]
           S == {Table(t) : t \in ToSet(tables)}
<1> HIDE DEF Table
<1>1. DOMAIN tables = 1..Len(tables) /\ Len(tables) \in Nat
  BY DEF Lists
<1>2. compiled \in [1..Len(tables) -> S]
  BY <1>1 DEF ToSet
<1>3. ToSet(compiled) = S
  BY <1>1 DEF ToSet
<1>4. Lists(compiled, S)
  BY <1>1, <1>2, <1>3 DEF Lists
<1>5. QED
  BY <1>4 DEF Table

LEMMA SchemaParts ==
    ASSUME NEW s, IsSchema(s)
    PROVE  /\ Lists(s.domains, ToSet(s.domains)) /\ Lists(s.tables, ToSet(s.tables))
           /\ Lists(s.indexes, ToSet(s.indexes)) /\ Lists(s.views, ToSet(s.views))
           /\ Lists(s.triggers, ToSet(s.triggers))
BY DEF IsSchema, Lists

\* What the triggers make, trigger by trigger.
LEMMA TriggerBodies ==
    ASSUME NEW engine, NEW triggers, Lists(triggers, ToSet(triggers))
    PROVE  LET bodies == [i \in DOMAIN triggers |-> CompiledTrigger(engine, triggers[i])]
           IN  /\ bodies \in Seq(Seq(UNION {ToSet(CompiledTrigger(engine, g)) :
                                                g \in ToSet(triggers)}))
               /\ Len(bodies) = Len(triggers)
<1> DEFINE bodies == [i \in DOMAIN triggers |-> CompiledTrigger(engine, triggers[i])]
           S == UNION {ToSet(CompiledTrigger(engine, g)) : g \in ToSet(triggers)}
<1>1. ASSUME NEW g \in ToSet(triggers) PROVE CompiledTrigger(engine, g) \in Seq(S)
  <2>1. \A x \in S : <<x>> \in Seq(S)
    OBVIOUS
  <2>2. \A x, y \in S : <<x, y>> \in Seq(S)
    OBVIOUS
  <2>3. ToSet(CompiledTrigger(engine, g)) \subseteq S
    OBVIOUS
  <2> HIDE DEF S
  <2>4. CASE engine = "sqlite"
    BY <2>1, <2>3, <2>4 DEF CompiledTrigger, ToSet
  <2>5. CASE engine # "sqlite"
    <3> DEFINE function == [kind |-> "function", object |-> [name |-> g.name]]
               trigger == [kind |-> "trigger", object |-> g]
    <3>1. CompiledTrigger(engine, g) = <<function, trigger>>
      BY <2>5 DEF CompiledTrigger
    <3> HIDE DEF function, trigger
    <3>2. function \in S /\ trigger \in S
      BY <2>3, <3>1 DEF ToSet
    <3>3. QED
      BY <2>2, <3>1, <3>2
  <2>6. QED
    BY <2>4, <2>5
<1>2. bodies \in Seq(Seq(S)) /\ Len(bodies) = Len(triggers)
  <2>1. \A i \in DOMAIN triggers : bodies[i] \in Seq(S)
    BY <1>1 DEF ToSet
  <2>2. DOMAIN triggers = 1..Len(triggers) /\ Len(triggers) \in Nat
    BY DEF Lists
  <2> HIDE DEF S
  <2>3. bodies \in [1..Len(triggers) -> Seq(S)]
    BY <2>1, <2>2
  <2> HIDE DEF bodies
  <2>4. QED
    BY <2>2, <2>3
<1>3. QED
  BY <1>2

LEMMA TriggerStatements ==
    ASSUME NEW engine, NEW triggers, Lists(triggers, ToSet(triggers))
    PROVE  Lists(FlattenSeq([i \in DOMAIN triggers |-> CompiledTrigger(engine, triggers[i])]),
                 UNION {ToSet(CompiledTrigger(engine, g)) : g \in ToSet(triggers)})
<1> DEFINE bodies == [i \in DOMAIN triggers |-> CompiledTrigger(engine, triggers[i])]
           S == UNION {ToSet(CompiledTrigger(engine, g)) : g \in ToSet(triggers)}
<1>1. bodies \in Seq(Seq(S))
  BY TriggerBodies
<1>2. {ToSet(bodies[i]) : i \in DOMAIN bodies}
          = {ToSet(CompiledTrigger(engine, g)) : g \in ToSet(triggers)}
  <2>1. /\ DOMAIN bodies = DOMAIN triggers
        /\ \A i \in DOMAIN bodies : bodies[i] = CompiledTrigger(engine, triggers[i])
    OBVIOUS
  <2>2. ToSet(triggers) = {triggers[i] : i \in DOMAIN triggers}
    BY DEF ToSet
  <2> HIDE DEF bodies
  <2>3. QED
    BY <2>1, <2>2
<1>3. FlattenSeq(bodies) \in Seq(S)
      /\ ToSet(FlattenSeq(bodies)) = UNION {ToSet(bodies[i]) : i \in DOMAIN bodies}
  <2> HIDE DEF S, bodies
  <2>1. QED
    BY <1>1, FlattenElements
<1>4. QED
  BY <1>2, <1>3 DEF Lists

LEMMA StatementElements ==
    ASSUME NEW engine, NEW s, IsSchema(s)
    PROVE  Lists(Statements(engine, s), StatementsOf(engine, s))
<1> DEFINE domains == IF engine = "postgres" THEN s.domains ELSE <<>>
           tables == [i \in DOMAIN s.tables |->
                            CompiledTable(engine, s.tables[i], s.domains)]
           Domains == IF engine = "postgres" THEN ToSet(s.domains) ELSE {}
           Compiled == {CompiledTable(engine, t, s.domains) : t \in ToSet(s.tables)}
           triggers == FlattenSeq([i \in DOMAIN s.triggers |->
                                        CompiledTrigger(engine, s.triggers[i])])
           Triggers == UNION {ToSet(CompiledTrigger(engine, g)) : g \in ToSet(s.triggers)}
<1>1. Lists(domains, Domains)
  <2>1. Lists(<<>>, {})
    BY DEF Lists, ToSet
  <2>2. QED
    BY <2>1, SchemaParts
<1>2. Lists(tables, Compiled)
  BY SchemaParts, TableLists
<1>3. Lists(triggers, Triggers)
  BY SchemaParts, TriggerStatements
<1>4. /\ Statements(engine, s) = Creating("domain", domains) \o Creating("table", tables)
            \o Creating("index", s.indexes) \o Creating("view", s.views) \o triggers
      /\ StatementsOf(engine, s) = Creations("domain", Domains) \cup Creations("table", Compiled)
            \cup Creations("index", ToSet(s.indexes)) \cup Creations("view", ToSet(s.views))
            \cup Triggers
  BY DEF Statements, StatementsOf
<1> HIDE DEF domains, Domains, tables, Compiled, triggers, Triggers
<1>5. /\ Lists(Creating("domain", domains), Creations("domain", Domains))
      /\ Lists(Creating("table", tables), Creations("table", Compiled))
      /\ Lists(Creating("index", s.indexes), Creations("index", ToSet(s.indexes)))
      /\ Lists(Creating("view", s.views), Creations("view", ToSet(s.views)))
  BY <1>1, <1>2, SchemaParts, CreatingLists
<1>6. PICK q, Q : /\ q = Creating("domain", domains) \o Creating("table", tables)
                  /\ Q = Creations("domain", Domains) \cup Creations("table", Compiled)
                  /\ Lists(q, Q)
  BY <1>5, ConcatLists
<1>7. Lists(q \o Creating("index", s.indexes), Q \cup Creations("index", ToSet(s.indexes)))
  BY <1>5, <1>6, ConcatLists
<1>8. PICK r, R : /\ r = q \o Creating("index", s.indexes)
                  /\ R = Q \cup Creations("index", ToSet(s.indexes))
                  /\ Lists(r, R)
  BY <1>7
<1>9. Lists(r \o Creating("view", s.views), R \cup Creations("view", ToSet(s.views)))
  BY <1>5, <1>8, ConcatLists
<1>10. PICK u, U : /\ u = r \o Creating("view", s.views)
                   /\ U = R \cup Creations("view", ToSet(s.views))
                   /\ Lists(u, U)
  BY <1>9
<1>11. Lists(u \o triggers, U \cup Triggers)
  BY <1>3, <1>10, ConcatLists
<1>12. QED
  BY <1>4, <1>6, <1>8, <1>10, <1>11

LEMMA StatementKinds ==
    ASSUME NEW engine, NEW s, NEW st \in StatementsOf(engine, s)
    PROVE  /\ st.kind \in Kinds
           /\ st.kind = "table" =>
                \E t \in ToSet(s.tables) : st.object = CompiledTable(engine, t, s.domains)
           /\ st.kind = "trigger" => st.object \in ToSet(s.triggers)
<1>1. CASE \E g \in ToSet(s.triggers) : st \in ToSet(CompiledTrigger(engine, g))
  <2>1. PICK g \in ToSet(s.triggers) : st \in ToSet(CompiledTrigger(engine, g))
    BY <1>1
  <2> DEFINE function == [kind |-> "function", object |-> [name |-> g.name]]
             trigger == [kind |-> "trigger", object |-> g]
  <2>2. st = function \/ st = trigger
    <3>1. CASE engine = "sqlite"
      BY <2>1, <3>1 DEF CompiledTrigger, ToSet
    <3>2. CASE engine # "sqlite"
      <4>1. CompiledTrigger(engine, g) = <<function, trigger>>
        BY <3>2 DEF CompiledTrigger
      <4> HIDE DEF function, trigger
      <4>2. QED
        BY <2>1, <4>1 DEF ToSet
    <3>3. QED
      BY <3>1, <3>2
  <2>3. QED
    BY <2>2 DEF Kinds
<1>2. CASE ~\E g \in ToSet(s.triggers) : st \in ToSet(CompiledTrigger(engine, g))
  BY <1>2 DEF StatementsOf, Creations, Kinds
<1>3. QED
  BY <1>1, <1>2

-----------------------------------------------------------------------------
(* What statements do to a database.                                       *)

LEMMA Fields ==
    DOMAIN Empty("sqlite") = {"engine", "domains", "tables", "indexes", "views", "functions",
                              "triggers", "managed", "metadata", "rows"}
BY DEF Empty

\* Nothing that is there goes away.
LEMMA ExecutedKeeps ==
    ASSUME NEW db, NEW statements, DOMAIN db = DOMAIN Empty("sqlite"), NEW st, Present(db, st)
    PROVE  Present(Executed(db, statements), st)
<1> DEFINE d == Executed(db, statements)
<1>1. /\ db.domains \subseteq d.domains /\ db.tables \subseteq d.tables
      /\ db.indexes \subseteq d.indexes /\ db.views \subseteq d.views
      /\ db.functions \subseteq d.functions /\ db.triggers \subseteq d.triggers
  BY Fields DEF Executed
<1> HIDE DEF d
<1>2. Present(d, st)
  BY <1>1 DEF Present
<1>3. QED
  BY <1>2 DEF d

\* What is executed is there.
LEMMA ExecutedMakes ==
    ASSUME NEW db, NEW statements, DOMAIN db = DOMAIN Empty("sqlite"),
           NEW st \in ToSet(statements), st.kind \in Kinds
    PROVE  Present(Executed(db, statements), st)
<1> DEFINE d == Executed(db, statements)
<1>1. st.object \in Made(statements, st.kind)
  BY DEF Made
<1>2. /\ Made(statements, "domain") \subseteq d.domains
      /\ Made(statements, "table") \subseteq d.tables
      /\ Made(statements, "index") \subseteq d.indexes
      /\ Made(statements, "view") \subseteq d.views
      /\ Made(statements, "function") \subseteq d.functions
      /\ Made(statements, "trigger") \subseteq d.triggers
  BY Fields DEF Executed
<1> HIDE DEF d
<1>3. Present(d, st)
  BY <1>1, <1>2 DEF Present, Kinds
<1>4. QED
  BY <1>3 DEF d

LEMMA PrefixElements ==
    ASSUME NEW S, NEW s \in Seq(S), NEW i \in 1..Len(s)
    PROVE  ToSet(SubSeq(s, 1, i - 1)) \subseteq ToSet(s)
<1>1. Len(SubSeq(s, 1, i - 1)) = i - 1
      /\ \A j \in 1..i - 1 : SubSeq(s, 1, i - 1)[j] = s[j]
  OBVIOUS
<1>2. QED
  BY <1>1 DEF ToSet

\* Each statement was accepted in a database that had what was there before,
\* and nothing that is not there in the end.
LEMMA AcceptedAmong ==
    ASSUME NEW db, NEW statements, NEW S, Lists(statements, S),
           DOMAIN db = DOMAIN Empty("sqlite"), AcceptsAll(db, statements), NEW st \in S
    PROVE  \E d : /\ Accepts(d, st)
                  /\ d.engine = db.engine
                  /\ Relations(db) \subseteq Relations(d)
                  /\ d.tables \subseteq Executed(db, statements).tables
<1>1. PICK i \in 1..Len(statements) : st = statements[i]
  BY DEF Lists, ToSet
<1> DEFINE prefix == SubSeq(statements, 1, i - 1)
           d == Executed(db, prefix)
<1>2. Accepts(d, st)
  BY <1>1 DEF AcceptsAll, Lists
<1>3. ToSet(prefix) \subseteq ToSet(statements)
  BY PrefixElements DEF Lists
<1> HIDE DEF prefix
<1>4. /\ d.engine = db.engine /\ db.tables \subseteq d.tables
      /\ db.indexes \subseteq d.indexes /\ db.views \subseteq d.views
      /\ d.tables = db.tables \cup Made(prefix, "table")
      /\ Executed(db, statements).tables = db.tables \cup Made(statements, "table")
  BY Fields DEF Executed
<1>5. /\ Relations(db) \subseteq Relations(d)
      /\ d.tables \subseteq Executed(db, statements).tables
  <2> HIDE DEF d
  <2>1. Relations(db) \subseteq Relations(d)
    BY <1>4 DEF Relations, NamesIn
  <2>2. Made(prefix, "table") \subseteq Made(statements, "table")
    BY <1>3 DEF Made
  <2>3. QED
    BY <1>4, <2>1, <2>2
<1>6. QED
  BY <1>2, <1>4, <1>5

-----------------------------------------------------------------------------
(* ApplySchema and ImportSnapshot.                                         *)

\* The statements of the schema are what Has asks for.
LEMMA HasStatements ==
    ASSUME NEW db, NEW s, IsSchema(s)
    PROVE  Has(db, s) <=> \A st \in StatementsOf(db.engine, s) : Present(db, st)
BY StatementElements DEF Has, Lists

LEMMA CreatedDatabase ==
    ASSUME NEW db, NEW s, IsDatabase(db), IsSchema(s), Creatable(db, s)
    PROVE  /\ IsDatabase(Created(db, s))
           /\ Has(Created(db, s), s)
           /\ Created(db, s).engine = db.engine
           /\ Created(db, s).managed = db.managed
<1> DEFINE statements == Statements(db.engine, s)
           S == StatementsOf(db.engine, s)
           d == Executed(db, statements)
<1>1. Lists(statements, S) /\ AcceptsAll(db, statements) /\ DOMAIN db = DOMAIN Empty("sqlite")
  BY StatementElements DEF Creatable, IsDatabase
<1>2. d = Created(db, s)
  BY DEF Created
<1> HIDE DEF statements
<1>3. /\ DOMAIN d = DOMAIN db
      /\ d.engine = db.engine /\ d.managed = db.managed
      /\ d.tables = db.tables \cup Made(statements, "table")
      /\ d.triggers = db.triggers \cup Made(statements, "trigger")
      /\ d.rows = [t \in DOMAIN db.rows \cup NamesIn(Made(statements, "table")) |->
                       IF t \in DOMAIN db.rows THEN db.rows[t] ELSE {}]
  BY <1>1, Fields DEF Executed
<1>4. \A st \in S : Present(d, st)
  <2>1. ASSUME NEW st \in S PROVE Present(d, st)
    <3>1. st.kind \in Kinds
      BY StatementKinds
    <3>2. st \in ToSet(statements)
      BY <1>1 DEF Lists
    <3> HIDE DEF S
    <3>3. QED
      BY <1>1, <3>1, <3>2, ExecutedMakes
  <2>2. QED
    BY <2>1
<1>5. d.rows \in [NamesIn(d.tables) -> RowSets]
  <2>1. {} \in RowSets
    BY FS_EmptySet DEF RowSets
  <2>2. db.rows \in [NamesIn(db.tables) -> RowSets]
    BY DEF IsDatabase
  <2>3. NamesIn(d.tables) = NamesIn(db.tables) \cup NamesIn(Made(statements, "table"))
    BY <1>3 DEF NamesIn
  <2> HIDE DEF d
  <2>4. QED
    BY <1>3, <2>1, <2>2, <2>3
<1>6. ASSUME NEW g \in d.triggers PROVE g.table \in NamesIn(d.tables)
  <2>1. CASE g \in db.triggers
    <3>1. g.table \in NamesIn(db.tables)
      BY <2>1 DEF IsDatabase
    <3>2. QED
      BY <1>3, <3>1 DEF NamesIn
  <2>2. CASE g \notin db.triggers
    <3>1. PICK st \in S : st.kind = "trigger" /\ st.object = g
      <4>1. g \in Made(statements, "trigger")
        BY <1>3, <1>6, <2>2
      <4>2. QED
        BY <1>1, <4>1 DEF Made, Lists
    <3>2. PICK c : Accepts(c, st) /\ c.tables \subseteq d.tables
      BY <1>1, AcceptedAmong
    <3>3. \E t \in c.tables : t.name = g.table
      BY <3>1, <3>2 DEF Accepts
    <3>4. QED
      BY <3>2, <3>3 DEF NamesIn
  <2>3. QED
    BY <2>1, <2>2
<1>7. Has(d, s)
  BY <1>3, <1>4, HasStatements
<1>8. QED
  BY <1>1, <1>2, <1>3, <1>5, <1>6, <1>7 DEF IsDatabase

\* No table of the schema was there, and each is there empty.
LEMMA CreatedRows ==
    ASSUME NEW db, NEW s, IsDatabase(db), IsSchema(s), Creatable(db, s)
    PROVE  /\ \A t \in ToSet(s.tables) : /\ t.name \notin Relations(db)
                                         /\ t.name \notin NamesIn(db.tables)
                                         /\ t.name \in NamesIn(Created(db, s).tables)
                                         /\ Created(db, s).rows[t.name] = {}
<1> DEFINE statements == Statements(db.engine, s)
           S == StatementsOf(db.engine, s)
           d == Executed(db, statements)
<1>1. Lists(statements, S) /\ AcceptsAll(db, statements) /\ DOMAIN db = DOMAIN Empty("sqlite")
  BY StatementElements DEF Creatable, IsDatabase
<1>2. d = Created(db, s)
  BY DEF Created
<1> HIDE DEF statements
<1>3. /\ d.tables = db.tables \cup Made(statements, "table")
      /\ d.rows = [t \in DOMAIN db.rows \cup NamesIn(Made(statements, "table")) |->
                       IF t \in DOMAIN db.rows THEN db.rows[t] ELSE {}]
      /\ DOMAIN db.rows = NamesIn(db.tables)
  BY <1>1, Fields DEF Executed, IsDatabase
<1>4. ASSUME NEW t \in ToSet(s.tables)
      PROVE  /\ t.name \notin Relations(db) /\ t.name \notin NamesIn(db.tables)
             /\ t.name \in NamesIn(d.tables) /\ d.rows[t.name] = {}
  <2> DEFINE o == CompiledTable(db.engine, t, s.domains)
             st == [kind |-> "table", object |-> o]
  <2>1. o.name = t.name
    BY DEF CompiledTable
  <2>2. st \in S /\ st.kind = "table" /\ st.object = o
    BY DEF StatementsOf, Creations
  <2> HIDE DEF S, o, st
  <2>3. PICK c : Accepts(c, st) /\ Relations(db) \subseteq Relations(c)
    BY <1>1, <2>2, AcceptedAmong
  <2>4. t.name \notin Relations(db)
    BY <2>1, <2>2, <2>3 DEF Accepts
  <2>5. t.name \notin NamesIn(db.tables)
    BY <2>4 DEF Relations
  <2>6. o \in Made(statements, "table")
    BY <1>1, <2>2 DEF Made, Lists
  <2>7. t.name \in NamesIn(Made(statements, "table")) /\ t.name \in NamesIn(d.tables)
    BY <1>3, <2>1, <2>6 DEF NamesIn
  <2> HIDE DEF d
  <2>8. d.rows[t.name] = {}
    BY <1>3, <2>5, <2>7
  <2>9. QED
    BY <2>4, <2>5, <2>7, <2>8
<1>5. QED
  BY <1>2, <1>4

\* The inserts of an import.
InsertsInto(name, ids) == {<<name, id>> : id \in ids}

InsertList(name, list) == [k \in DOMAIN list |-> <<name, list[k]>>]

Inserts(s, rows) == UNION {InsertsInto(t.name, rows[t.name]) : t \in ToSet(s.tables)}

LEMMA InsertLists ==
    ASSUME NEW name, NEW list, NEW ids, Lists(list, ids)
    PROVE  Lists(InsertList(name, list), InsertsInto(name, ids))
<1> DEFINE pairs == InsertList(name, list)
           P == InsertsInto(name, ids)
<1>1. DOMAIN list = 1..Len(list) /\ Len(list) \in Nat /\ ids = ToSet(list)
  BY DEF Lists
<1>2. pairs \in [1..Len(list) -> P]
  BY <1>1 DEF ToSet, InsertList, InsertsInto
<1>3. ToSet(pairs) = P
  BY <1>1 DEF ToSet, InsertList, InsertsInto
<1>4. QED
  BY <1>1, <1>2, <1>3 DEF Lists

\* Each table has its rows, in some order.
Ordered(s, rows, lists) ==
    \A t \in ToSet(s.tables) :
        rows[t.name] \in RowSets /\ Lists(lists[t.name], rows[t.name])

LEMMA OrderedRows ==
    ASSUME NEW s, NEW rows, NEW lists \in Orders(rows),
           \A t \in ToSet(s.tables) : t.name \in DOMAIN rows /\ rows[t.name] \in RowSets
    PROVE  Ordered(s, rows, lists)
<1>1. ASSUME NEW t \in ToSet(s.tables) PROVE Lists(lists[t.name], rows[t.name])
  <2> DEFINE S == rows[t.name]
             list == lists[t.name]
  <2>1. S \in RowSets /\ list \in SetToSeqs(S)
    BY DEF Orders
  <2>2. IsFiniteSet(S)
    BY <2>1 DEF RowSets
  <2> HIDE DEF S, list
  <2>3. Lists(list, S)
    BY <2>1, <2>2, OrderElements DEF Lists
  <2>4. QED
    BY <2>3 DEF S, list
<1>2. QED
  BY <1>1 DEF Ordered

RowLists(s, lists) ==
    [i \in DOMAIN s.tables |-> InsertList(s.tables[i].name, lists[s.tables[i].name])]

\* They are listed table by table.
LEMMA ImportParts ==
    ASSUME NEW s, NEW rows, NEW lists, IsSchema(s), Ordered(s, rows, lists)
    PROVE  LET parts == RowLists(s, lists)
           IN  /\ parts \in Seq(Seq(Inserts(s, rows)))
               /\ Len(parts) = Len(s.tables) /\ DOMAIN parts = DOMAIN s.tables
               /\ ImportRows(s, lists) = FlattenSeq(parts)
               /\ \A i \in DOMAIN parts :
                    LET name == s.tables[i].name
                    IN  /\ parts[i] = InsertList(name, lists[name])
                        /\ Lists(parts[i], InsertsInto(name, rows[name]))
<1> DEFINE List(name) == InsertList(name, lists[name])
           parts == [i \in DOMAIN s.tables |-> List(s.tables[i].name)]
           S == Inserts(s, rows)
<1>1. Lists(s.tables, ToSet(s.tables))
  BY SchemaParts
<1>2. ASSUME NEW t \in ToSet(s.tables)
      PROVE  Lists(List(t.name), InsertsInto(t.name, rows[t.name]))
  BY InsertLists DEF Ordered
<1>3. ASSUME NEW t \in ToSet(s.tables) PROVE List(t.name) \in Seq(S)
  <2>1. InsertsInto(t.name, rows[t.name]) \subseteq S
    BY DEF Inserts
  <2> HIDE DEF S, List
  <2>2. QED
    BY <1>2, <2>1, WiderSequence
<1>4. ImportRows(s, lists) = FlattenSeq(parts) /\ RowLists(s, lists) = parts
  BY DEF ImportRows, InsertList, RowLists
<1> HIDE DEF List
<1>5. parts \in Seq(Seq(S)) /\ Len(parts) = Len(s.tables)
  <2>1. \A i \in DOMAIN s.tables : parts[i] \in Seq(S)
    BY <1>3 DEF ToSet
  <2>2. DOMAIN s.tables = 1..Len(s.tables) /\ Len(s.tables) \in Nat
    BY <1>1 DEF Lists
  <2> HIDE DEF S
  <2>3. parts \in [1..Len(s.tables) -> Seq(S)]
    BY <2>1, <2>2
  <2> HIDE DEF parts
  <2>4. QED
    BY <2>2, <2>3
<1>6. \A i \in DOMAIN parts : /\ parts[i] = List(s.tables[i].name)
                             /\ Lists(parts[i], InsertsInto(s.tables[i].name,
                                                           rows[s.tables[i].name]))
  BY <1>2 DEF ToSet
<1>7. DOMAIN parts = DOMAIN s.tables
  OBVIOUS
<1> HIDE DEF parts, S
<1>8. QED
  BY <1>4, <1>5, <1>6, <1>7 DEF S, List

LEMMA ImportLists ==
    ASSUME NEW s, NEW rows, NEW lists, IsSchema(s), Ordered(s, rows, lists)
    PROVE  Lists(ImportRows(s, lists), Inserts(s, rows))
<1> DEFINE parts == RowLists(s, lists)
           S == Inserts(s, rows)
<1>1. /\ parts \in Seq(Seq(S)) /\ DOMAIN parts = DOMAIN s.tables
      /\ ImportRows(s, lists) = FlattenSeq(parts)
      /\ \A i \in DOMAIN parts :
            ToSet(parts[i]) = InsertsInto(s.tables[i].name, rows[s.tables[i].name])
  BY ImportParts DEF Lists
<1> HIDE DEF parts, S
<1>2. /\ FlattenSeq(parts) \in Seq(S)
      /\ ToSet(FlattenSeq(parts)) = UNION {ToSet(parts[i]) : i \in DOMAIN parts}
  BY <1>1, FlattenElements
<1>3. UNION {ToSet(parts[i]) : i \in DOMAIN parts} = S
  <2>1. ToSet(s.tables) = {s.tables[i] : i \in DOMAIN parts}
    BY <1>1 DEF ToSet
  <2>2. QED
    BY <1>1, <2>1 DEF Inserts, S
<1>4. QED
  BY <1>1, <1>2, <1>3 DEF Lists, S

LEMMA SchemaSplits ==
    ASSUME NEW s, IsSchema(s)
    PROVE  /\ IsSchema(BaseSchema(s)) /\ IsSchema(TriggerSchema(s))
           /\ BaseSchema(s).tables = s.tables /\ BaseSchema(s).triggers = <<>>
           /\ TriggerSchema(s).tables = <<>>
           /\ \A engine : StatementsOf(engine, s) = StatementsOf(engine, BaseSchema(s))
                              \cup StatementsOf(engine, TriggerSchema(s))
<1> DEFINE b == BaseSchema(s)
           t == TriggerSchema(s)
<1>1. /\ DOMAIN b = DOMAIN s
      /\ b.domains = s.domains /\ b.tables = s.tables /\ b.indexes = s.indexes
      /\ b.views = s.views /\ b.triggers = <<>> /\ b.routines = s.routines
  BY DEF IsSchema, BaseSchema
<1>2. /\ DOMAIN t = {"domains", "tables", "indexes", "views", "triggers", "routines"}
      /\ t.domains = <<>> /\ t.tables = <<>> /\ t.indexes = <<>>
      /\ t.views = <<>> /\ t.triggers = s.triggers /\ t.routines = <<>>
  BY DEF TriggerSchema, NoSchema
<1> HIDE DEF b, t
<1>3. ToSet(<<>>) = {} /\ <<>> \in Seq(ToSet(<<>>))
  BY DEF ToSet
<1>4. IsSchema(b)
  <2>1. \A part \in DOMAIN s : b[part] = s[part] \/ b[part] = <<>>
    BY <1>1 DEF IsSchema
  <2>2. \A part \in DOMAIN s : s[part] \in Seq(ToSet(s[part]))
    BY DEF IsSchema
  <2>3. \A part \in DOMAIN s : b[part] \in Seq(ToSet(b[part]))
    BY <1>3, <2>1, <2>2
  <2>4. QED
    BY <1>1, <2>3 DEF IsSchema
<1>5. IsSchema(t)
  <2>1. \A part \in DOMAIN t : t[part] = <<>> \/ t[part] = s.triggers
    BY <1>2
  <2>2. s.triggers \in Seq(ToSet(s.triggers))
    BY DEF IsSchema
  <2>3. \A part \in DOMAIN t : t[part] \in Seq(ToSet(t[part]))
    BY <1>3, <2>1, <2>2
  <2>4. ToSet(t.tables) = {}
    BY <1>2, <1>3
  <2>5. QED
    BY <1>2, <2>3, <2>4 DEF IsSchema
<1>6. ASSUME NEW engine
      PROVE  StatementsOf(engine, s) = StatementsOf(engine, b) \cup StatementsOf(engine, t)
  <2>1. StatementsOf(engine, t) = UNION {ToSet(CompiledTrigger(engine, g)) : g \in ToSet(s.triggers)}
    BY <1>2, <1>3 DEF StatementsOf, Creations
  <2>2. StatementsOf(engine, b) =
            Creations("domain", IF engine = "postgres" THEN ToSet(s.domains) ELSE {})
            \cup Creations("table", {CompiledTable(engine, c, s.domains) : c \in ToSet(s.tables)})
            \cup Creations("index", ToSet(s.indexes))
            \cup Creations("view", ToSet(s.views))
    BY <1>1, <1>3 DEF StatementsOf
  <2>3. QED
    BY <2>1, <2>2 DEF StatementsOf
<1>7. QED
  BY <1>1, <1>2, <1>4, <1>5, <1>6 DEF b, t

\* A database without its rows.
LEMMA CatalogFields ==
    ASSUME NEW db, NEW d, DOMAIN db = DOMAIN Empty("sqlite"), DOMAIN d = DOMAIN Empty("sqlite"),
           Catalog(db) = Catalog(d)
    PROVE  /\ d.engine = db.engine /\ d.domains = db.domains /\ d.tables = db.tables
           /\ d.indexes = db.indexes /\ d.views = db.views /\ d.functions = db.functions
           /\ d.triggers = db.triggers /\ d.managed = db.managed /\ d.metadata = db.metadata
<1>1. ASSUME NEW field \in DOMAIN Empty("sqlite"), field # "rows"
      PROVE  d[field] = db[field]
  <2>1. Catalog(db)[field] = db[field] /\ Catalog(d)[field] = d[field]
    BY <1>1, Fields DEF Catalog
  <2>2. QED
    BY <2>1
<1>2. QED
  BY <1>1, Fields

\* What is declared depends on the catalog alone.
LEMMA CatalogHas ==
    ASSUME NEW db, NEW d, NEW s, DOMAIN db = DOMAIN Empty("sqlite"),
           DOMAIN d = DOMAIN Empty("sqlite"), Catalog(db) = Catalog(d), Has(db, s)
    PROVE  Has(d, s)
<1>1. /\ d.engine = db.engine /\ d.domains = db.domains /\ d.tables = db.tables
      /\ d.indexes = db.indexes /\ d.views = db.views /\ d.functions = db.functions
      /\ d.triggers = db.triggers
  BY CatalogFields
<1>2. \A st : Present(db, st) => Present(d, st)
  BY <1>1 DEF Present
<1>3. QED
  BY <1>1, <1>2 DEF Has

\* An insert changes rows only.
LEMMA InsertedCatalog ==
    ASSUME NEW db, NEW inserts, DOMAIN db = DOMAIN Empty("sqlite")
    PROVE  LET d == Inserted(db, inserts)
           IN  /\ DOMAIN d = DOMAIN db
               /\ Catalog(d) = Catalog(db)
               /\ d.rows = [u \in DOMAIN db.rows |-> db.rows[u] \cup
                       {insert[2] : insert \in {i \in ToSet(inserts) : u \in Reached(db, i[1])}}]
BY Fields DEF Inserted, Catalog

\* Base tables that were just created hold the rows imported, and nothing else
\* has changed.
LEMMA WithRowsDatabase ==
    ASSUME NEW db, NEW s, NEW rows, NEW lists, IsDatabase(db), IsSchema(s),
           Creatable(db, BaseSchema(s)), Ordered(s, rows, lists)
    PROVE  LET w == WithRows(db, s, lists)
           IN  /\ IsDatabase(w)
               /\ Catalog(w) = Catalog(Created(db, BaseSchema(s)))
               /\ \A t \in ToSet(s.tables) : t.name \in DOMAIN w.rows /\ w.rows[t.name] = rows[t.name]
<1> DEFINE b == BaseSchema(s)
           c == Created(db, b)
           inserts == ImportRows(s, lists)
           w == Inserted(c, inserts)
           New == {t.name : t \in ToSet(s.tables)}
<1>1. IsSchema(b) /\ b.tables = s.tables /\ b.triggers = <<>>
  BY SchemaSplits
<1>2. /\ IsDatabase(c)
      /\ \A t \in ToSet(s.tables) : /\ t.name \notin NamesIn(db.tables)
                                    /\ t.name \in NamesIn(c.tables)
                                    /\ c.rows[t.name] = {}
  BY <1>1, CreatedDatabase, CreatedRows
<1>3. c.triggers = db.triggers
  <2>1. Lists(Statements(db.engine, b), StatementsOf(db.engine, b))
    BY <1>1, StatementElements
  <2>2. \A st \in StatementsOf(db.engine, b) : st.kind # "trigger"
    <3>1. ToSet(b.triggers) = {}
      BY <1>1 DEF ToSet
    <3>2. QED
      BY <3>1, StatementKinds
  <2>3. Made(Statements(db.engine, b), "trigger") = {}
    BY <2>1, <2>2 DEF Made, Lists
  <2>4. c.triggers = db.triggers \cup Made(Statements(db.engine, b), "trigger")
    BY Fields DEF Created, Executed, IsDatabase
  <2>5. QED
    BY <2>3, <2>4
<1>4. \A name \in New : Reached(c, name) = {name}
  <2>1. \A g \in c.triggers : g.table \in NamesIn(db.tables)
    BY <1>3 DEF IsDatabase
  <2>2. \A name \in New : \A g \in c.triggers : g.table # name
    BY <1>2, <2>1
  <2>3. QED
    BY <2>2 DEF Reached
<1>5. ToSet(inserts) = Inserts(s, rows)
  BY ImportLists DEF Lists
<1>6. w = WithRows(db, s, lists)
  BY DEF WithRows
<1> HIDE DEF c, inserts
<1>7. /\ DOMAIN w = DOMAIN Empty("sqlite") /\ Catalog(w) = Catalog(c)
      /\ w.rows = [u \in DOMAIN c.rows |-> c.rows[u] \cup
              {insert[2] : insert \in {i \in ToSet(inserts) : u \in Reached(c, i[1])}}]
  <2>1. DOMAIN c = DOMAIN Empty("sqlite")
    BY <1>2 DEF IsDatabase
  <2>2. QED
    BY <2>1, InsertedCatalog
<1>8. /\ DOMAIN c.rows = NamesIn(c.tables)
      /\ \A u \in DOMAIN c.rows : c.rows[u] \in RowSets
  BY <1>2 DEF IsDatabase
<1>9. \A i \in ToSet(inserts) : i[1] \in New /\ i[2] \in rows[i[1]]
  BY <1>5 DEF Inserts, InsertsInto
<1>10. \A u \in New : \A id \in rows[u] : <<u, id>> \in ToSet(inserts)
  BY <1>5 DEF Inserts, InsertsInto
<1> HIDE DEF New, w
<1>11. ASSUME NEW u \in DOMAIN c.rows
       PROVE  w.rows[u] = IF u \in New THEN rows[u] ELSE c.rows[u]
  <2> DEFINE ids == {insert[2] : insert \in {i \in ToSet(inserts) : u \in Reached(c, i[1])}}
  <2>1. w.rows[u] = c.rows[u] \cup ids
    BY <1>7
  <2>2. CASE u \in New
    <3>1. c.rows[u] = {}
      BY <1>2, <2>2 DEF New
    <3>2. \A id \in ids : id \in rows[u]
      BY <1>4, <1>9
    <3>3. ASSUME NEW id \in rows[u] PROVE id \in ids
      <4>1. <<u, id>> \in ToSet(inserts) /\ u \in Reached(c, <<u, id>>[1])
        BY <1>4, <1>10, <2>2
      <4>2. QED
        BY <4>1
    <3>4. QED
      BY <2>1, <2>2, <3>1, <3>2, <3>3
  <2>3. CASE u \notin New
    <3>1. ids = {}
      BY <1>4, <1>9, <2>3
    <3>2. QED
      BY <2>1, <2>3, <3>1
  <2>4. QED
    BY <2>2, <2>3
<1>12. \A u \in New : rows[u] \in RowSets
  BY DEF New, Ordered
<1>13. /\ DOMAIN w.rows = DOMAIN c.rows
       /\ w.rows \in [NamesIn(c.tables) -> RowSets]
  BY <1>7, <1>8, <1>11, <1>12
<1>14. w.tables = c.tables /\ w.triggers = c.triggers
  <2>1. DOMAIN c = DOMAIN Empty("sqlite")
    BY <1>2 DEF IsDatabase
  <2>2. QED
    BY <1>7, <2>1, CatalogFields
<1>15. IsDatabase(w)
  BY <1>2, <1>7, <1>13, <1>14 DEF IsDatabase
<1>16. ASSUME NEW t \in ToSet(s.tables)
       PROVE  t.name \in DOMAIN w.rows /\ w.rows[t.name] = rows[t.name]
  <2>1. t.name \in DOMAIN c.rows /\ t.name \in New
    BY <1>2, <1>8 DEF New
  <2>2. QED
    BY <1>11, <1>13, <2>1
<1>17. QED
  BY <1>6, <1>7, <1>15, <1>16 DEF c

\* What has the same catalog as a database but for the metadata declares the
\* same.
LEMMA MetadataWritten ==
    ASSUME NEW db, NEW s, IsDatabase(db), IsSchema(s), Has(db, s)
    PROVE  LET d == WriteMetadata(db, s)
           IN  /\ DatabaseOK(d) /\ Has(d, s)
               /\ d.metadata = s /\ d.rows = db.rows
<1> DEFINE d == WriteMetadata(db, s)
<1>1. /\ DOMAIN d = DOMAIN Empty("sqlite")
      /\ d.engine = db.engine /\ d.domains = db.domains /\ d.tables = db.tables
      /\ d.indexes = db.indexes /\ d.views = db.views /\ d.functions = db.functions
      /\ d.triggers = db.triggers /\ d.rows = db.rows /\ d.managed = TRUE /\ d.metadata = s
  BY Fields DEF WriteMetadata, IsDatabase
<1> HIDE DEF d
<1>2. \A st : Present(db, st) => Present(d, st)
  BY <1>1 DEF Present
<1>3. Has(d, s)
  BY <1>1, <1>2 DEF Has
<1>4. DatabaseOK(d)
  BY <1>1, <1>3 DEF IsDatabase, DatabaseOK
<1>5. QED
  BY <1>1, <1>3, <1>4 DEF d

\* An import that is accepted leaves all of the schema there, and its tables
\* with the rows that were read.
LEMMA ImportedDatabase ==
    ASSUME NEW db, NEW s, NEW rows, NEW lists, IsDatabase(db), IsSchema(s),
           Importable(db, s, lists), Ordered(s, rows, lists)
    PROVE  LET d == Imported(db, s, lists)
           IN  /\ DatabaseOK(d) /\ Has(d, s) /\ d.metadata = s
               /\ \A t \in ToSet(s.tables) : d.rows[t.name] = rows[t.name]
<1> DEFINE b == BaseSchema(s)
           g == TriggerSchema(s)
           c == Created(db, b)
           w == WithRows(db, s, lists)
           x == Created(w, g)
<1>1. /\ IsSchema(b) /\ IsSchema(g) /\ g.tables = <<>>
      /\ \A engine : StatementsOf(engine, s) = StatementsOf(engine, b) \cup StatementsOf(engine, g)
  BY SchemaSplits
<1>2. Creatable(db, b) /\ Creatable(w, g) /\ Imported(db, s, lists) = WriteMetadata(x, s)
  BY DEF Importable, Imported
<1>3. IsDatabase(c) /\ Has(c, b)
  BY <1>1, <1>2, CreatedDatabase
<1>4. /\ IsDatabase(w) /\ Catalog(w) = Catalog(c)
      /\ \A t \in ToSet(s.tables) : t.name \in DOMAIN w.rows /\ w.rows[t.name] = rows[t.name]
  BY <1>2, WithRowsDatabase
<1> HIDE DEF b, g, c, w
<1>5. Has(w, b)
  BY <1>3, <1>4, CatalogHas DEF IsDatabase
<1>6. IsDatabase(x) /\ Has(x, g) /\ x.engine = w.engine
  BY <1>1, <1>2, <1>4, CreatedDatabase
<1>7. Has(x, s)
  <2>1. \A st \in StatementsOf(w.engine, b) : Present(w, st)
    BY <1>1, <1>5, HasStatements
  <2>2. \A st : Present(w, st) => Present(x, st)
    BY <1>4, ExecutedKeeps DEF Created, IsDatabase
  <2> HIDE DEF x
  <2>3. \A st \in StatementsOf(x.engine, g) : Present(x, st)
    BY <1>1, <1>6, HasStatements
  <2>4. \A st \in StatementsOf(x.engine, s) : Present(x, st)
    BY <1>1, <1>6, <2>1, <2>2, <2>3
  <2>5. QED
    BY <2>4, HasStatements
<1>8. \A t \in ToSet(s.tables) : x.rows[t.name] = rows[t.name]
  <2>1. \A name \in DOMAIN w.rows : x.rows[name] = w.rows[name]
    BY <1>4, Fields DEF Created, Executed, IsDatabase
  <2> HIDE DEF x
  <2>2. QED
    BY <1>4, <2>1
<1> HIDE DEF x
<1>9. DatabaseOK(WriteMetadata(x, s)) /\ Has(WriteMetadata(x, s), s)
      /\ WriteMetadata(x, s).metadata = s /\ WriteMetadata(x, s).rows = x.rows
  BY <1>6, <1>7, MetadataWritten
<1>10. QED
  BY <1>2, <1>8, <1>9

\* What ApplySchema makes of a new database.
LEMMA AppliedDatabase ==
    ASSUME NEW engine, NEW s, IsSchema(s)
    PROVE  LET d == ApplySchema(Empty(engine), s)
           IN  DatabaseOK(Empty(engine)) /\ DatabaseOK(d)
<1> DEFINE e == Empty(engine)
<1>1. /\ DOMAIN e = DOMAIN Empty("sqlite") /\ e.tables = {} /\ e.triggers = {}
      /\ e.rows = <<>> /\ e.managed = FALSE
  BY DEF Empty
<1> HIDE DEF e
<1>2. e.rows \in [NamesIn(e.tables) -> RowSets]
  BY <1>1 DEF NamesIn
<1>3. IsDatabase(e) /\ DatabaseOK(e)
  BY <1>1, <1>2 DEF IsDatabase, DatabaseOK
<1>4. CASE Compiles(s) /\ Creatable(e, s)
  <2>1. IsDatabase(Created(e, s)) /\ Has(Created(e, s), s)
    BY <1>3, <1>4, CreatedDatabase
  <2>2. DatabaseOK(WriteMetadata(Created(e, s), s))
    BY <2>1, MetadataWritten
  <2>3. QED
    BY <1>3, <1>4, <2>2 DEF e, ApplySchema
<1>5. CASE ~(Compiles(s) /\ Creatable(e, s))
  BY <1>3, <1>5 DEF e, ApplySchema
<1>6. QED
  BY <1>4, <1>5

LEMMA HandmadeDatabase ==
    ASSUME NEW engine, NEW s, IsSchema(s)
    PROVE  DatabaseOK(Handmade(engine, s))
<1> DEFINE d == ApplySchema(Empty(engine), s)
           h == Handmade(engine, s)
<1>1. DatabaseOK(d)
  BY AppliedDatabase
<1>2. h = [d EXCEPT !.managed = FALSE, !.metadata = NoSchema]
  BY DEF Handmade
<1> HIDE DEF d, h
<1>3. /\ DOMAIN h = DOMAIN Empty("sqlite") /\ h.tables = d.tables /\ h.triggers = d.triggers
      /\ h.rows = d.rows /\ h.managed = FALSE
  BY <1>1, <1>2, Fields DEF DatabaseOK, IsDatabase
<1>4. DatabaseOK(h)
  BY <1>1, <1>3 DEF DatabaseOK, IsDatabase
<1>5. QED
  BY <1>4 DEF h

-----------------------------------------------------------------------------
(* What others write.                                                      *)

\* Another program changes rows only.
LEMMA WrittenDatabase ==
    ASSUME NEW db, DatabaseOK(db), NEW d \in Written(db)
    PROVE  DatabaseOK(d) /\ Catalog(d) = Catalog(db)
<1>1. /\ DOMAIN db = DOMAIN Empty("sqlite")
      /\ db.rows \in [NamesIn(db.tables) -> RowSets]
  BY DEF DatabaseOK, IsDatabase
<1>2. PICK name, id :
        /\ name \in NamesIn(db.tables)
        /\ \/ d = Inserted(db, <<<<name, id>>>>) /\ id \in Ids
           \/ d = Deleted(db, name, id)
  BY DEF Written
<1>3. DOMAIN d = DOMAIN db /\ Catalog(d) = Catalog(db) /\ DOMAIN d.rows = DOMAIN db.rows
      /\ \A u \in DOMAIN db.rows : d.rows[u] \in RowSets
  <2>1. CASE d = Inserted(db, <<<<name, id>>>>) /\ id \in Ids
    <3> DEFINE inserts == <<<<name, id>>>>
    <3>1. ToSet(inserts) = {<<name, id>>}
      BY DEF ToSet
    <3> HIDE DEF inserts
    <3>2. /\ DOMAIN d = DOMAIN db /\ Catalog(d) = Catalog(db)
          /\ d.rows = [u \in DOMAIN db.rows |-> db.rows[u] \cup
                {insert[2] : insert \in {i \in ToSet(inserts) : u \in Reached(db, i[1])}}]
      BY <1>1, <2>1, InsertedCatalog DEF inserts
    <3>3. ASSUME NEW u \in DOMAIN db.rows PROVE d.rows[u] \in RowSets
      <4> DEFINE ids == {insert[2] : insert \in {i \in ToSet(inserts) : u \in Reached(db, i[1])}}
      <4>1. d.rows[u] = db.rows[u] \cup ids
        BY <3>2
      <4>2. ids \subseteq {id}
        BY <3>1
      <4>3. IsFiniteSet({id})
        BY FS_Singleton
      <4>4. IsFiniteSet(db.rows[u]) /\ db.rows[u] \subseteq Ids
        BY <1>1 DEF RowSets
      <4> HIDE DEF ids
      <4>5. IsFiniteSet(ids)
        BY <4>2, <4>3, FS_Subset
      <4>6. IsFiniteSet(db.rows[u] \cup ids)
        BY <4>4, <4>5, FS_Union
      <4>7. QED
        BY <2>1, <4>1, <4>2, <4>4, <4>6 DEF RowSets
    <3>4. QED
      BY <3>2, <3>3
  <2>2. CASE d = Deleted(db, name, id)
    <3>1. d.rows = [db.rows EXCEPT ![name] = @ \ {id}] /\ DOMAIN d = DOMAIN db
          /\ Catalog(d) = Catalog(db)
      BY <1>1, <2>2, Fields DEF Deleted, Catalog
    <3>2. ASSUME NEW u \in DOMAIN db.rows PROVE d.rows[u] \in RowSets
      <4>1. d.rows[u] \subseteq db.rows[u] /\ db.rows[u] \subseteq Ids /\ IsFiniteSet(db.rows[u])
        BY <1>1, <3>1 DEF RowSets
      <4>2. IsFiniteSet(d.rows[u])
        BY <4>1, FS_Subset
      <4>3. QED
        BY <4>1, <4>2 DEF RowSets
    <3>3. QED
      BY <3>1, <3>2
  <2>3. QED
    BY <1>2, <2>1, <2>2
<1>4. /\ d.tables = db.tables /\ d.triggers = db.triggers
      /\ d.managed = db.managed /\ d.metadata = db.metadata
  BY <1>1, <1>3, CatalogFields
<1>5. d.rows \in [NamesIn(d.tables) -> RowSets]
  <2>1. d.rows = [u \in DOMAIN d.rows |-> d.rows[u]]
    <3>1. CASE d = Inserted(db, <<<<name, id>>>>)
      BY <1>1, <3>1, Fields DEF Inserted
    <3>2. CASE d = Deleted(db, name, id)
      BY <1>1, <3>2, Fields DEF Deleted
    <3>3. QED
      BY <1>2, <3>1, <3>2
  <2>2. QED
    BY <1>1, <1>3, <1>4, <2>1
<1>6. db.managed => Has(d, db.metadata)
  BY <1>1, <1>3, CatalogHas DEF DatabaseOK, IsDatabase
<1>7. QED
  BY <1>1, <1>3, <1>4, <1>5, <1>6 DEF DatabaseOK, IsDatabase

-----------------------------------------------------------------------------
(* The initial state.                                                      *)

LEMMA ConfigSchema ==
    config \in Configs =>
        /\ IsSchema(config.schema)
        /\ Len(Tables) \in Nat /\ DOMAIN Tables = 1..Len(Tables)
        /\ \A i \in 1..Len(Tables) : Tables[i] \in ToSet(Tables)
<1>1. ASSUME config \in Configs PROVE IsSchema(config.schema)
  BY <1>1, MigrationAssumption
<1>2. ASSUME config \in Configs PROVE Lists(Tables, ToSet(Tables))
  BY <1>1, <1>2, SchemaParts DEF Tables
<1>3. QED
  BY <1>1, <1>2 DEF Lists, ToSet

LEMMA Initial == Init => RunInv
<1> SUFFICES ASSUME Init PROVE RunInv
  OBVIOUS
<1>1. config \in Configs
  BY DEF Init
<1>2. DatabaseOK(source)
  BY <1>1, ConfigSchema, HandmadeDatabase DEF Init
<1>3. DatabaseOK(destination)
  <2> DEFINE engine == config.contract.destination.engine
  <2>1. destination = Empty(engine) \/ \E s \in Earlier : destination = ApplySchema(Empty(engine), s)
    BY DEF Init
  <2>2. \A s \in Earlier : IsSchema(s)
    BY MigrationAssumption
  <2>3. CASE destination = Empty(engine)
    <3>1. IsSchema(config.schema)
      BY <1>1, ConfigSchema
    <3>2. QED
      BY <2>3, <3>1, AppliedDatabase
  <2>4. CASE \E s \in Earlier : destination = ApplySchema(Empty(engine), s)
    BY <2>2, <2>4, AppliedDatabase
  <2>5. QED
    BY <2>1, <2>3, <2>4
<1>4. TypeOK
  <2>1. step \in Steps /\ plan \in BOOLEAN
    BY DEF Init, Steps
  <2> DEFINE N == Len(Tables)
  <2>2. table = 1 /\ writes = 0 /\ otherWrites = 0 /\ runs = 1
    BY DEF Init
  <2>3. /\ N \in Nat /\ MaxWrites \in Nat /\ MaxOtherWrites \in Nat
        /\ MaxRuns \in Nat \ {0}
    BY <1>1, ConfigSchema, MigrationAssumption
  <2> HIDE DEF N
  <2>4. /\ table \in 1 .. N + 1
        /\ writes \in 0..MaxWrites /\ otherWrites \in 0..MaxOtherWrites /\ runs \in 1..MaxRuns
    BY <2>2, <2>3
  <2>5. QED
    BY <1>1, <1>2, <1>3, <2>1, <2>4 DEF TypeOK, N
<1>5. CommandOK /\ RunOK /\ OutcomeIsTold
  BY DEF Init, CommandOK, RunOK, OutcomeIsTold
<1>6. QED
  BY <1>4, <1>5 DEF RunInv

-----------------------------------------------------------------------------
(* The steps.                                                              *)

\* What depends on the command line alone.
LEMMA SameCommand ==
    ASSUME config' = config
    PROVE  /\ Command' = Command /\ DryRun' = DryRun /\ Tables' = Tables
           /\ AllTables' = AllTables
           /\ \A n : FirstTables(n)' = FirstTables(n)
BY DEF Command, DryRun, Tables, AllTables, FirstTables

LEMMA AppWriteKeeps == RunInv /\ AppWrite => RunInv'
<1> SUFFICES ASSUME RunInv, AppWrite PROVE RunInv'
  OBVIOUS
<1>1. /\ config' = config /\ destination' = destination /\ step' = step /\ table' = table
      /\ snapshot' = snapshot /\ second' = second /\ plan' = plan /\ exit' = exit
      /\ code' = code /\ before' = before /\ otherWrites' = otherWrites /\ runs' = runs
      /\ step # "ended"
  BY DEF AppWrite, run
<1>2. /\ Command' = Command /\ DryRun' = DryRun /\ Tables' = Tables
      /\ AllTables' = AllTables /\ \A n : FirstTables(n)' = FirstTables(n)
  BY <1>1, SameCommand
<1>3. TypeOK'
  <2>1. DatabaseOK(source')
    BY WrittenDatabase DEF AppWrite, RunInv, TypeOK
  <2>2. writes' \in 0..MaxWrites
    BY MigrationAssumption DEF AppWrite, RunInv, TypeOK
  <2>3. QED
    BY <1>1, <1>2, <2>1, <2>2 DEF RunInv, TypeOK
<1>4. CommandOK'
  BY <1>1, <1>2 DEF RunInv, CommandOK, DestinationHasTables
<1>5. RunOK'
  BY <1>1, <1>2 DEF RunInv, RunOK
<1>6. OutcomeIsTold'
  BY <1>1 DEF OutcomeIsTold
<1>7. QED
  BY <1>3, <1>4, <1>5, <1>6 DEF RunInv

LEMMA OtherWriteKeeps == RunInv /\ OtherWrite => RunInv'
<1> SUFFICES ASSUME RunInv, OtherWrite PROVE RunInv'
  OBVIOUS
<1>1. /\ config' = config /\ source' = source /\ step' = step /\ table' = table
      /\ snapshot' = snapshot /\ second' = second /\ plan' = plan /\ exit' = exit
      /\ code' = code /\ before' = before /\ writes' = writes /\ runs' = runs
      /\ step # "ended"
  BY DEF OtherWrite, run
<1>2. /\ Command' = Command /\ DryRun' = DryRun /\ Tables' = Tables
      /\ AllTables' = AllTables /\ \A n : FirstTables(n)' = FirstTables(n)
  BY <1>1, SameCommand
<1>3. DatabaseOK(destination') /\ Catalog(destination') = Catalog(destination)
  BY WrittenDatabase DEF OtherWrite, RunInv, TypeOK
<1>4. otherWrites' \in 0..MaxOtherWrites /\ otherWrites' # 0
  BY MigrationAssumption DEF OtherWrite, RunInv, TypeOK
<1>5. TypeOK'
  BY <1>1, <1>2, <1>3, <1>4 DEF RunInv, TypeOK
<1>6. CommandOK'
  BY <1>1, <1>2 DEF RunInv, CommandOK
<1>7. /\ destination'.metadata = destination.metadata
      /\ Has(destination, config.schema) => Has(destination', config.schema)
  <2>1. DOMAIN destination = DOMAIN Empty("sqlite") /\ DOMAIN destination' = DOMAIN Empty("sqlite")
    BY <1>3 DEF RunInv, TypeOK, DatabaseOK, IsDatabase
  <2>2. QED
    BY <1>3, <2>1, CatalogFields, CatalogHas
<1>8. RunOK'
  BY <1>1, <1>2, <1>3, <1>4, <1>7 DEF RunInv, RunOK
<1>9. OutcomeIsTold'
  BY <1>1 DEF OutcomeIsTold
<1>10. QED
  BY <1>5, <1>6, <1>8, <1>9 DEF RunInv

\* The frame of a step of the run that leaves both databases alone.
Reading == UNCHANGED <<config, source, destination, before, bounds>>

LEMMA ReadingTypes ==
    ASSUME TypeOK, Reading, step' \in Steps, table' \in 1 .. Len(Tables) + 1, plan' \in BOOLEAN
    PROVE  TypeOK'
<1>1. Tables' = Tables
  BY SameCommand DEF Reading
<1>2. QED
  BY <1>1 DEF TypeOK, Reading, bounds

\* A run that ends with a refusal or a failure.
LEMMA DeathIsTold ==
    ASSUME code' \in Refusals \cup Failures, exit' = ExitCode(code'),
           LeftAlone' \/ (code' \in Failures /\ CopiedThere')
    PROVE  OutcomeIsTold'
<1>1. code' # "" /\ code' # "ERR_VERIFY_DIVERGED" /\ (code' \in Refusals => code' \notin Failures)
  BY DEF Refusals, Failures
<1>2. exit' = 1 \/ exit' = 2
  BY DEF ExitCode
<1>3. exit' = 2 <=> code' = "ERR_USAGE"
  BY DEF ExitCode
<1>4. exit' \in {0, 1, 2} /\ exit' # 0
  BY <1>2
<1>5. QED
  BY <1>1, <1>3, <1>4 DEF OutcomeIsTold

\* A run that ends without one.
LEMMA SuccessIsTold ==
    code' = "" /\ exit' = 0 /\ (Command' = "copy" => CopiedThere') => OutcomeIsTold'
<1>1. exit' = 0 => exit' \in {0, 1, 2} /\ exit' # 2
  OBVIOUS
<1>2. code' = "" => /\ code' # "ERR_USAGE" /\ code' # "ERR_VERIFY_DIVERGED"
                    /\ code' \notin Refusals /\ code' \notin Failures
  BY DEF Refusals, Failures
<1>3. code' = "" /\ exit' = 0 =>
            /\ exit' \in {0, 1, 2} /\ (exit' = 0 <=> code' = "")
            /\ (exit' = 2 <=> code' = "ERR_USAGE")
  BY <1>1, <1>2
<1>4. QED
  BY <1>2, <1>3 DEF OutcomeIsTold

LEMMA StartKeeps == RunInv /\ Start => RunInv'
<1> SUFFICES ASSUME RunInv, Start PROVE RunInv'
  OBVIOUS
<1>1. /\ Reading /\ config' = config /\ destination' = destination /\ table' = table
      /\ snapshot' = snapshot /\ second' = second /\ plan' = plan /\ before' = before
      /\ step = "start"
  BY DEF Start, Reading
<1>2. /\ Command' = Command /\ DryRun' = DryRun /\ Tables' = Tables
      /\ AllTables' = AllTables /\ \A n : FirstTables(n)' = FirstTables(n)
  BY <1>1, SameCommand
<1>3. \/ step' = "ended" /\ code' \in Refusals /\ code' # "" /\ exit' = ExitCode(code')
      \/ step' = "ended" /\ code' = "" /\ exit' = 0 /\ Command = "audit"
      \/ /\ step' = "connect" /\ exit' = exit /\ code' = code
         /\ Refusal = "" /\ Command # "audit"
  BY DEF Start, Die, End, Go, Refusal, Refusals
<1>4. TypeOK'
  <2>1. step' \in Steps /\ table' \in 1 .. Len(Tables) + 1 /\ plan' \in BOOLEAN
    BY <1>1, <1>3 DEF RunInv, TypeOK, Steps
  <2>2. QED
    BY <1>1, <2>1, ReadingTypes DEF RunInv
<1>5. CommandOK'
  <2>1. Refusal = "" /\ Command # "audit" =>
            Command \in {"copy", "cutover"} /\ Accepted(Command, Dispatch(config.args).args)
    <3>1. Command \in {"none", "audit", "copy", "cutover"}
      BY DEF Command, Dispatch, Subcommands
    <3>2. QED
      BY <3>1 DEF Refusal
  <2>2. QED
    BY <1>1, <1>2, <1>3, <2>1 DEF RunInv, CommandOK
<1>6. RunOK'
  BY <1>1, <1>2, <1>3 DEF RunInv, RunOK
<1>7. OutcomeIsTold'
  <2>1. LeftAlone'
    BY <1>1 DEF RunInv, RunOK, LeftAlone
  <2>2. CASE code' \in Refusals /\ exit' = ExitCode(code')
    BY <2>1, <2>2, DeathIsTold
  <2>3. CASE code' = "" /\ exit' = 0 /\ Command = "audit"
    BY <1>2, <2>3, SuccessIsTold
  <2>4. CASE step' = "connect"
    BY <2>4 DEF OutcomeIsTold
  <2>5. QED
    BY <1>3, <2>2, <2>3, <2>4
<1>8. QED
  BY <1>4, <1>5, <1>6, <1>7 DEF RunInv

\* copy takes no flag.
LEMMA DryRunIsCutover ==
    DryRun /\ Accepted(Command, Dispatch(config.args).args) => Command # "copy"
<1> DEFINE args == Dispatch(config.args).args
           split == SplitArgs(KnownFlags(Command), args)
<1>1. SUFFICES ASSUME DryRun, split.ok, Command = "copy" PROVE FALSE
  BY DEF Accepted
<1>2. PICK i \in FlagsAt(args) : args[i] = "--dry-run"
  BY <1>1 DEF DryRun, SplitArgs
<1>3. args[i] \in KnownFlags(Command)
  BY <1>1, <1>2 DEF SplitArgs
<1>4. QED
  BY <1>1, <1>3 DEF KnownFlags

\* An export has no table yet.
LEMMA NoTables == FirstTables(0) = {} /\ <<>> \in [FirstTables(0) -> RowSets]
<1>1. FirstTables(0) = {}
  BY DEF FirstTables
<1>2. QED
  BY <1>1

LEMMA ConnectKeeps == RunInv /\ Connect => RunInv'
<1> SUFFICES ASSUME RunInv, Connect PROVE RunInv'
  OBVIOUS
<1>1. /\ Reading /\ config' = config /\ destination' = destination /\ table' = table
      /\ snapshot' = snapshot /\ second' = second /\ plan' = plan /\ before' = before
      /\ step = "connect"
  BY DEF Connect, Reading
<1>2. /\ Command' = Command /\ DryRun' = DryRun /\ Tables' = Tables
      /\ AllTables' = AllTables /\ \A n : FirstTables(n)' = FirstTables(n)
  BY <1>1, SameCommand
<1>3. \/ step' = "ended" /\ code' \in Refusals /\ exit' = ExitCode(code')
      \/ /\ step' \in {"plan", "cutover", "export"} /\ exit' = exit /\ code' = code
         /\ step' = "plan" => DryRun
  <2>1. CASE Go(IF DryRun THEN "plan" ELSE IF Command = "cutover" THEN "cutover" ELSE "export")
    BY <2>1 DEF Go
  <2>2. CASE \E error \in {"ERR_CONNECT_SOURCE", "ERR_CONNECT_DESTINATION"} : Die(error)
    BY <2>2 DEF Die, End, Refusals
  <2>3. QED
    BY <2>1, <2>2 DEF Connect
<1>4. TypeOK'
  <2>1. step' \in Steps /\ table' \in 1 .. Len(Tables) + 1 /\ plan' \in BOOLEAN
    BY <1>1, <1>3 DEF RunInv, TypeOK, Steps
  <2>2. QED
    BY <1>1, <2>1, ReadingTypes DEF RunInv
<1>5. CommandOK'
  BY <1>1, <1>2, <1>3 DEF RunInv, CommandOK
<1>6. RunOK'
  <2>1. table - 1 = 0 /\ snapshot = <<>> /\ second = <<>>
    BY <1>1 DEF RunInv, RunOK
  <2>2. step' = "export" => snapshot' \in [FirstTables(table - 1)' -> RowSets] /\ second' = <<>>
    BY <1>1, <1>2, <2>1, NoTables
  <2>3. Catalog(destination') = Catalog(before')
    BY <1>1 DEF RunInv, RunOK
  <2>4. QED
    BY <1>1, <1>3, <2>2, <2>3 DEF RunOK
<1>7. OutcomeIsTold'
  <2>1. LeftAlone'
    BY <1>1 DEF RunInv, RunOK, LeftAlone
  <2>2. CASE step' = "ended" /\ code' \in Refusals /\ exit' = ExitCode(code')
    BY <2>1, <2>2, DeathIsTold
  <2>3. CASE step' # "ended"
    BY <2>3 DEF OutcomeIsTold
  <2>4. QED
    BY <1>3, <2>2, <2>3
<1>8. QED
  BY <1>4, <1>5, <1>6, <1>7 DEF RunInv

LEMMA PlanKeeps == RunInv /\ Plan => RunInv'
<1> SUFFICES ASSUME RunInv, Plan PROVE RunInv'
  OBVIOUS
<1>1. /\ Reading /\ config' = config /\ destination' = destination /\ table' = table
      /\ snapshot' = snapshot /\ second' = second /\ before' = before
      /\ step = "plan"
  BY DEF Plan, Reading
<1>2. /\ Command' = Command /\ DryRun' = DryRun /\ Tables' = Tables
      /\ AllTables' = AllTables /\ \A n : FirstTables(n)' = FirstTables(n)
  BY <1>1, SameCommand
<1>3. /\ step' = "ended"
      /\ \/ code' = "" /\ exit' = 0 /\ plan' = DestinationHasTables
         \/ code' = "ERR_INTERNAL" /\ exit' = ExitCode(code') /\ plan' = plan
  BY DEF Plan, End, Die
<1>4. DestinationHasTables' = DestinationHasTables
  BY <1>1, <1>2 DEF DestinationHasTables
<1>5. TypeOK'
  <2>1. step' \in Steps /\ table' \in 1 .. Len(Tables) + 1 /\ plan' \in BOOLEAN
    BY <1>1, <1>3 DEF RunInv, TypeOK, Steps, DestinationHasTables
  <2>2. QED
    BY <1>1, <2>1, ReadingTypes DEF RunInv
<1>6. CommandOK'
  <2>1. ~plan
    BY <1>1 DEF RunInv, CommandOK
  <2>2. plan' => DestinationHasTables'
    BY <1>3, <1>4, <2>1
  <2>3. QED
    BY <1>3, <2>2 DEF CommandOK
<1>7. RunOK'
  BY <1>3 DEF RunOK
<1>8. OutcomeIsTold'
  <2>1. Command' # "copy"
    BY <1>1, <1>2, DryRunIsCutover DEF RunInv, CommandOK
  <2>2. CASE code' = "" /\ exit' = 0
    BY <2>1, <2>2, SuccessIsTold
  <2>3. CASE code' = "ERR_INTERNAL" /\ exit' = ExitCode(code')
    <3>1. LeftAlone' /\ code' \in Failures
      BY <1>1, <2>3 DEF RunInv, RunOK, Failures, LeftAlone
    <3>2. QED
      BY <2>3, <3>1, DeathIsTold
  <2>4. QED
    BY <1>3, <2>2, <2>3
<1>9. QED
  BY <1>5, <1>6, <1>7, <1>8 DEF RunInv

\* What an export holds once it has read the table at hand.
LEMMA ReadTable ==
    ASSUME NEW export, NEW db, config \in Configs, table \in 1..Len(Tables),
           export \in [FirstTables(table - 1) -> RowSets],
           db.rows[Tables[table].name] \in RowSets
    PROVE  /\ WithTable(export, db) \in [FirstTables(table) -> RowSets]
           /\ \A t \in FirstTables(table) : WithTable(export, db)[t] =
                IF t = Tables[table].name THEN db.rows[t] ELSE export[t]
           /\ FirstTables(table) = FirstTables(table - 1) \cup {Tables[table].name}
<1> DEFINE n == table
           name == Tables[table].name
<1>1. 1..n = (1 .. n - 1) \cup {n}
  <2>1. n \in Nat /\ n >= 1
    BY ConfigSchema
  <2> HIDE DEF n
  <2>2. QED
    BY <2>1
<1>2. FirstTables(n) = FirstTables(n - 1) \cup {name}
  BY <1>1 DEF FirstTables
<1>3. DOMAIN export = FirstTables(n - 1)
  OBVIOUS
<1>4. WithTable(export, db) = [t \in FirstTables(n) |-> IF t = name THEN db.rows[t] ELSE export[t]]
  BY <1>2, <1>3 DEF WithTable
<1>5. \A t \in FirstTables(n) : (IF t = name THEN db.rows[t] ELSE export[t]) \in RowSets
  BY <1>2
<1>6. QED
  BY <1>2, <1>4, <1>5

\* A table the database has can be read.
LEMMA TableRows ==
    ASSUME NEW db, DatabaseOK(db), NEW name \in NamesIn(db.tables)
    PROVE  db.rows[name] \in RowSets
BY DEF DatabaseOK, IsDatabase

\* The tables of a schema are among what Has asks for.
LEMMA HasTables ==
    ASSUME NEW db, NEW s, IsSchema(s), Has(db, s), NEW t \in ToSet(s.tables)
    PROVE  t.name \in NamesIn(db.tables)
<1> DEFINE o == CompiledTable(db.engine, t, s.domains)
           st == [kind |-> "table", object |-> o]
<1>1. st \in StatementsOf(db.engine, s)
  BY DEF StatementsOf, Creations
<1>2. Present(db, st)
  BY <1>1, HasStatements
<1>3. o \in db.tables
  BY <1>2 DEF Present
<1>4. o.name = t.name
  BY DEF CompiledTable
<1>5. QED
  BY <1>3, <1>4 DEF NamesIn

LEMMA ExportTableKeeps == RunInv /\ ExportTable => RunInv'
<1> SUFFICES ASSUME RunInv, ExportTable PROVE RunInv'
  OBVIOUS
<1>1. /\ Reading /\ config' = config /\ destination' = destination
      /\ second' = second /\ plan' = plan /\ before' = before
      /\ step = "export" /\ config \in Configs
  BY DEF ExportTable, Reading, RunInv, TypeOK
<1>2. /\ Command' = Command /\ DryRun' = DryRun /\ Tables' = Tables
      /\ AllTables' = AllTables /\ \A n : FirstTables(n)' = FirstTables(n)
  BY <1>1, SameCommand
<1>3. Len(Tables) \in Nat /\ table \in 1..Len(Tables)
  BY <1>1, ConfigSchema DEF ExportTable, RunInv, TypeOK
<1>4. Catalog(destination') = Catalog(before')
  BY <1>1 DEF RunInv, RunOK
<1>5. CASE /\ HasTable(source, Tables[table].name)
           /\ snapshot' = WithTable(snapshot, source)
           /\ table' = table + 1
           /\ Go("export")
  <2>1. snapshot' = WithTable(snapshot, source) /\ table' = table + 1 /\ step' = "export"
        /\ exit' = exit /\ code' = code
    BY <1>5 DEF Go
  <2>2. table' \in 1 .. Len(Tables) + 1 /\ table' - 1 = table
    BY <1>3, <2>1
  <2>3. TypeOK'
    BY <1>1, <2>1, <2>2, ReadingTypes DEF RunInv, TypeOK, Steps
  <2>4. CommandOK'
    BY <1>1, <1>2, <2>1 DEF RunInv, CommandOK
  <2>5. WithTable(snapshot, source) \in [FirstTables(table) -> RowSets]
    <3>1. source.rows[Tables[table].name] \in RowSets
      BY <1>5, TableRows DEF HasTable, RunInv, TypeOK
    <3>2. snapshot \in [FirstTables(table - 1) -> RowSets]
      BY <1>1 DEF RunInv, RunOK
    <3>3. QED
      BY <1>1, <1>3, <3>1, <3>2, ReadTable
  <2>6. RunOK'
    <3>1. snapshot' \in [FirstTables(table - 1)' -> RowSets]
      BY <1>2, <2>1, <2>2, <2>5
    <3>2. second' = <<>>
      BY <1>1 DEF RunInv, RunOK
    <3>3. QED
      BY <1>4, <2>1, <3>1, <3>2 DEF RunOK
  <2>7. OutcomeIsTold'
    BY <2>1 DEF OutcomeIsTold
  <2>8. QED
    BY <2>3, <2>4, <2>6, <2>7 DEF RunInv
<1>6. CASE Die("ERR_SNAPSHOT") /\ UNCHANGED <<snapshot, table>>
  <2>1. step' = "ended" /\ code' = "ERR_SNAPSHOT" /\ exit' = ExitCode(code') /\ table' = table
    BY <1>6 DEF Die, End
  <2>2. TypeOK'
    BY <1>1, <2>1, ReadingTypes DEF RunInv, TypeOK, Steps
  <2>3. CommandOK'
    BY <1>1, <2>1 DEF RunInv, CommandOK
  <2>4. RunOK'
    BY <2>1 DEF RunOK
  <2>5. OutcomeIsTold'
    BY <1>4, <2>1, DeathIsTold DEF Failures, LeftAlone
  <2>6. QED
    BY <2>2, <2>3, <2>4, <2>5 DEF RunInv
<1>7. QED
  BY <1>5, <1>6 DEF ExportTable

\* The table after the last.
LEMMA AllRead ==
    config \in Configs /\ table \in 1 .. Len(Tables) + 1 /\ table > Len(Tables)
        => FirstTables(table - 1) = AllTables
<1>1. SUFFICES ASSUME Len(Tables) \in Nat, table \in 1 .. Len(Tables) + 1, table > Len(Tables)
               PROVE  FirstTables(table - 1) = AllTables
  BY ConfigSchema
<1>2. table - 1 = Len(Tables)
  BY <1>1
<1>3. QED
  BY <1>2 DEF AllTables

LEMMA ExportedKeeps == RunInv /\ Exported => RunInv'
<1> SUFFICES ASSUME RunInv, Exported PROVE RunInv'
  OBVIOUS
<1>1. /\ Reading /\ config' = config /\ destination' = destination /\ table' = table
      /\ snapshot' = snapshot /\ second' = second /\ plan' = plan /\ before' = before
      /\ step = "export" /\ step' = "import" /\ exit' = exit /\ code' = code
  BY DEF Exported, Reading, Go
<1>2. /\ Command' = Command /\ DryRun' = DryRun /\ Tables' = Tables
      /\ AllTables' = AllTables /\ \A n : FirstTables(n)' = FirstTables(n)
  BY <1>1, SameCommand
<1>3. FirstTables(table - 1) = AllTables
  BY AllRead DEF Exported, RunInv, TypeOK
<1>4. TypeOK'
  BY <1>1, ReadingTypes DEF RunInv, TypeOK, Steps
<1>5. CommandOK'
  BY <1>1, <1>2 DEF RunInv, CommandOK
<1>6. RunOK'
  BY <1>1, <1>2, <1>3 DEF RunInv, RunOK
<1>7. OutcomeIsTold'
  BY <1>1 DEF OutcomeIsTold
<1>8. QED
  BY <1>4, <1>5, <1>6, <1>7 DEF RunInv

LEMMA ImportKeeps == RunInv /\ Import => RunInv'
<1> SUFFICES ASSUME RunInv, Import PROVE RunInv'
  OBVIOUS
<1>1. /\ config' = config /\ source' = source /\ before' = before /\ snapshot' = snapshot
      /\ second' = second /\ plan' = plan /\ writes' = writes /\ otherWrites' = otherWrites
      /\ runs' = runs /\ step = "import" /\ config \in Configs /\ table \in 1 .. Len(Tables) + 1
  BY DEF Import, bounds, RunInv, TypeOK
<1>2. /\ Command' = Command /\ DryRun' = DryRun /\ Tables' = Tables
      /\ AllTables' = AllTables /\ \A n : FirstTables(n)' = FirstTables(n)
  BY <1>1, SameCommand
<1>3. IsSchema(config.schema) /\ DatabaseOK(destination) /\ Catalog(destination) = Catalog(before)
  BY <1>1, ConfigSchema DEF RunInv, TypeOK, RunOK
<1>4. snapshot \in [AllTables -> RowSets] /\ second = <<>>
  BY <1>1 DEF RunInv, RunOK
<1>5. Len(Tables) \in Nat /\ AllTables = {t.name : t \in ToSet(Tables)}
  BY <1>1, ConfigSchema DEF AllTables, FirstTables, ToSet
<1>6. PICK lists \in Orders(snapshot) :
        \/ /\ ImportSucceeds(lists)
           /\ destination' = Imported(destination, config.schema, lists)
           /\ \/ table' = 1 /\ Go("export again")
              \/ Die("ERR_SNAPSHOT") /\ UNCHANGED table
        \/ destination' = RolledBack /\ Die("ERR_SNAPSHOT") /\ UNCHANGED table
  BY DEF Import
<1>7. ASSUME ImportSucceeds(lists), destination' = Imported(destination, config.schema, lists)
      PROVE  /\ DatabaseOK(destination') /\ Has(destination', config.schema)
             /\ destination'.metadata = config.schema
             /\ \A t \in AllTables : destination'.rows[t] = snapshot[t]
  <2>1. IsDatabase(destination)
    BY <1>3 DEF DatabaseOK, IsDatabase
  <2> DEFINE s == config.schema
             d == Imported(destination, s, lists)
  <2>2. IsSchema(s) /\ Importable(destination, s, lists) /\ Tables = s.tables
    BY <1>3, <1>7 DEF Tables, ImportSucceeds
  <2>3. destination' = d
    BY <1>7
  <2>4. \A t \in ToSet(Tables) : t.name \in DOMAIN snapshot /\ snapshot[t.name] \in RowSets
    BY <1>4, <1>5
  <2> HIDE DEF s
  <2>5. Ordered(s, snapshot, lists)
    BY <2>2, <2>4, OrderedRows
  <2>6. /\ DatabaseOK(d) /\ Has(d, s) /\ d.metadata = s
        /\ \A t \in ToSet(s.tables) : d.rows[t.name] = snapshot[t.name]
    BY <2>1, <2>2, <2>5, ImportedDatabase
  <2>7. \A t \in AllTables : d.rows[t] = snapshot[t]
    BY <1>5, <2>2, <2>6
  <2> HIDE DEF d
  <2>8. QED
    BY <2>3, <2>6, <2>7 DEF s
<1>8. CASE /\ ImportSucceeds(lists)
           /\ destination' = Imported(destination, config.schema, lists)
           /\ table' = 1 /\ Go("export again")
  <2>1. table' = 1 /\ step' = "export again" /\ exit' = exit /\ code' = code
    BY <1>8 DEF Go
  <2>2. /\ DatabaseOK(destination') /\ Has(destination', config.schema)
        /\ destination'.metadata = config.schema
        /\ \A t \in AllTables : destination'.rows[t] = snapshot[t]
    BY <1>7, <1>8
  <2>3. TypeOK'
    <3>1. table' \in 1 .. Len(Tables) + 1
      <4>1. table' = 1
        BY <2>1
      <4>2. QED
        BY <1>5, <4>1
    <3>2. QED
      BY <1>1, <1>2, <2>1, <2>2, <3>1 DEF RunInv, TypeOK, Steps
  <2>4. CommandOK'
    BY <1>1, <1>2, <2>1 DEF RunInv, CommandOK
  <2>5. RunOK'
    <3>1. table' - 1 = 0
      <4>1. table' = 1
        BY <2>1
      <4>2. QED
        BY <4>1
    <3>2. second' \in [FirstTables(table - 1)' -> RowSets] /\ FirstTables(table - 1)' = {}
      BY <1>1, <1>2, <1>4, <3>1, NoTables
    <3>3. QED
      BY <1>1, <1>2, <1>4, <2>1, <2>2, <3>2 DEF RunOK
  <2>6. OutcomeIsTold'
    BY <2>1 DEF OutcomeIsTold
  <2>7. QED
    BY <2>3, <2>4, <2>5, <2>6 DEF RunInv
<1>9. ASSUME Die("ERR_SNAPSHOT"), UNCHANGED table, DatabaseOK(destination'),
             LeftAlone' \/ CopiedThere'
      PROVE  RunInv'
  <2>1. step' = "ended" /\ code' = "ERR_SNAPSHOT" /\ exit' = ExitCode(code') /\ table' = table
    BY <1>9 DEF Die, End
  <2>2. TypeOK'
    BY <1>1, <1>2, <1>9, <2>1 DEF RunInv, TypeOK, Steps
  <2>3. CommandOK'
    BY <1>1, <2>1 DEF RunInv, CommandOK
  <2>4. RunOK'
    BY <2>1 DEF RunOK
  <2>5. OutcomeIsTold'
    BY <1>9, <2>1, DeathIsTold DEF Failures
  <2>6. QED
    BY <2>2, <2>3, <2>4, <2>5 DEF RunInv
<1>10. CASE /\ ImportSucceeds(lists)
            /\ destination' = Imported(destination, config.schema, lists)
            /\ Die("ERR_SNAPSHOT") /\ UNCHANGED table
  <2>1. DatabaseOK(destination') /\ CopiedThere'
    BY <1>1, <1>7, <1>10 DEF CopiedThere
  <2>2. QED
    BY <1>9, <1>10, <2>1
<1>11. CASE destination' = RolledBack /\ Die("ERR_SNAPSHOT") /\ UNCHANGED table
  <2>1. DatabaseOK(destination') /\ LeftAlone'
    BY <1>1, <1>3, <1>11 DEF RolledBack, LeftAlone
  <2>2. QED
    BY <1>9, <1>11, <2>1
<1>12. QED
  BY <1>6, <1>8, <1>10, <1>11

LEMMA ExportCopyKeeps == RunInv /\ ExportCopy => RunInv'
<1> SUFFICES ASSUME RunInv, ExportCopy PROVE RunInv'
  OBVIOUS
<1>1. /\ Reading /\ config' = config /\ destination' = destination /\ otherWrites' = otherWrites
      /\ snapshot' = snapshot /\ plan' = plan /\ before' = before
      /\ step = "export again" /\ config \in Configs
  BY DEF ExportCopy, Reading, bounds, RunInv, TypeOK
<1>2. /\ Command' = Command /\ DryRun' = DryRun /\ Tables' = Tables
      /\ AllTables' = AllTables /\ \A n : FirstTables(n)' = FirstTables(n)
  BY <1>1, SameCommand
<1>3. /\ Len(Tables) \in Nat /\ table \in 1..Len(Tables) /\ Tables[table] \in ToSet(Tables)
      /\ IsSchema(config.schema)
  <2>1. table <= Len(Tables) /\ table \in 1 .. Len(Tables) + 1
    BY DEF ExportCopy, RunInv, TypeOK
  <2>2. /\ Len(Tables) \in Nat /\ IsSchema(config.schema)
        /\ \A i \in 1..Len(Tables) : Tables[i] \in ToSet(Tables)
    BY <1>1, ConfigSchema
  <2>3. table \in 1..Len(Tables)
    BY <2>1, <2>2
  <2>4. QED
    BY <2>2, <2>3
<1>4. CASE /\ second' = WithTable(second, destination)
           /\ table' = table + 1
           /\ Go("export again")
  <2>1. /\ second' = WithTable(second, destination) /\ table' = table + 1
        /\ step' = step /\ exit' = exit /\ code' = code
    BY <1>1, <1>4 DEF Go
  <2>2. table' \in 1 .. Len(Tables) + 1 /\ table' - 1 = table
    <3>1. table' = table + 1
      BY <2>1
    <3>2. QED
      BY <1>3, <3>1
  <2>3. /\ Has(destination, config.schema)
        /\ second \in [FirstTables(table - 1) -> RowSets]
        /\ otherWrites = 0 => \A t \in FirstTables(table - 1) : second[t] = snapshot[t]
        /\ otherWrites = 0 => \A t \in AllTables : destination.rows[t] = snapshot[t]
    BY <1>1 DEF RunInv, RunOK
  <2> DEFINE name == Tables[table].name
  <2>4. name \in AllTables
    BY <1>3 DEF AllTables, FirstTables
  <2>5. destination.rows[name] \in RowSets
    <3>1. name \in NamesIn(destination.tables)
      BY <1>3, <2>3, HasTables DEF Tables
    <3>2. QED
      BY <3>1, TableRows DEF RunInv, TypeOK
  <2>6. /\ WithTable(second, destination) \in [FirstTables(table) -> RowSets]
        /\ \A t \in FirstTables(table) : WithTable(second, destination)[t] =
              IF t = name THEN destination.rows[t] ELSE second[t]
        /\ FirstTables(table) = FirstTables(table - 1) \cup {name}
    BY <1>1, <1>3, <2>3, <2>5, ReadTable
  <2>7. TypeOK'
    BY <1>1, <2>1, <2>2, ReadingTypes DEF RunInv, TypeOK
  <2>8. CommandOK'
    BY <1>1, <1>2, <2>1 DEF RunInv, CommandOK
  <2>9. RunOK'
    <3>1. FirstTables(table - 1)' = FirstTables(table)
      BY <1>2, <2>2
    <3>2. second' \in [FirstTables(table) -> RowSets]
      BY <2>1, <2>6
    <3>3. otherWrites' = 0 => \A t \in FirstTables(table) : second'[t] = snapshot'[t]
      BY <1>1, <2>1, <2>3, <2>4, <2>6
    <3>4. QED
      BY <1>1, <1>2, <2>1, <3>1, <3>2, <3>3 DEF RunInv, RunOK
  <2>10. OutcomeIsTold'
    BY <1>1, <2>1 DEF OutcomeIsTold
  <2>11. QED
    BY <2>7, <2>8, <2>9, <2>10 DEF RunInv
<1>5. CASE Die("ERR_SNAPSHOT") /\ UNCHANGED <<second, table>>
  <2>1. step' = "ended" /\ code' = "ERR_SNAPSHOT" /\ exit' = ExitCode(code') /\ table' = table
    BY <1>5 DEF Die, End
  <2>2. TypeOK'
    BY <1>1, <2>1, ReadingTypes DEF RunInv, TypeOK, Steps
  <2>3. CommandOK'
    BY <1>1, <2>1 DEF RunInv, CommandOK
  <2>4. RunOK'
    BY <2>1 DEF RunOK
  <2>5. CopiedThere'
    BY <1>1 DEF RunInv, RunOK, CopiedThere
  <2>6. OutcomeIsTold'
    BY <2>1, <2>5, DeathIsTold DEF Failures
  <2>7. QED
    BY <2>2, <2>3, <2>4, <2>6 DEF RunInv
<1>6. QED
  BY <1>4, <1>5 DEF ExportCopy

LEMMA ExportedCopyKeeps == RunInv /\ ExportedCopy => RunInv'
<1> SUFFICES ASSUME RunInv, ExportedCopy PROVE RunInv'
  OBVIOUS
<1>1. /\ Reading /\ config' = config /\ destination' = destination /\ otherWrites' = otherWrites
      /\ table' = table /\ snapshot' = snapshot /\ second' = second /\ plan' = plan
      /\ before' = before /\ step = "export again" /\ step' = "compare"
      /\ exit' = exit /\ code' = code
  BY DEF ExportedCopy, Reading, Go, bounds
<1>2. /\ Command' = Command /\ DryRun' = DryRun /\ Tables' = Tables
      /\ AllTables' = AllTables /\ \A n : FirstTables(n)' = FirstTables(n)
  BY <1>1, SameCommand
<1>3. FirstTables(table - 1) = AllTables
  BY AllRead DEF ExportedCopy, RunInv, TypeOK
<1>4. /\ snapshot \in [AllTables -> RowSets] /\ second \in [AllTables -> RowSets]
      /\ otherWrites = 0 => \A t \in AllTables : second[t] = snapshot[t]
  BY <1>1, <1>3 DEF RunInv, RunOK
<1>5. otherWrites = 0 => second = snapshot
  BY <1>4
<1>6. TypeOK'
  BY <1>1, ReadingTypes DEF RunInv, TypeOK, Steps
<1>7. CommandOK'
  BY <1>1, <1>2 DEF RunInv, CommandOK
<1>8. RunOK'
  BY <1>1, <1>2, <1>4, <1>5 DEF RunInv, RunOK
<1>9. OutcomeIsTold'
  BY <1>1 DEF OutcomeIsTold
<1>10. QED
  BY <1>6, <1>7, <1>8, <1>9 DEF RunInv

LEMMA CompareKeeps == RunInv /\ Compare => RunInv'
<1> SUFFICES ASSUME RunInv, Compare PROVE RunInv'
  OBVIOUS
<1>1. /\ Reading /\ config' = config /\ destination' = destination /\ otherWrites' = otherWrites
      /\ table' = table /\ plan' = plan /\ before' = before /\ step = "compare"
      /\ snapshot' = snapshot
  BY DEF Compare, Reading, bounds
<1>2. Command' = Command /\ Tables' = Tables
  BY <1>1, SameCommand
<1>3. step' = "ended"
      /\ \/ snapshot = second /\ code' = "" /\ exit' = 0
         \/ /\ snapshot # second \/ MayBeRespelled
            /\ code' = "ERR_VERIFY_DIVERGED" /\ exit' = ExitCode(code')
         \/ code' = "ERR_INTERNAL" /\ exit' = ExitCode(code')
  BY DEF Compare, Die, End
<1>4. TypeOK'
  BY <1>1, <1>3, ReadingTypes DEF RunInv, TypeOK, Steps
<1>5. CommandOK'
  BY <1>1, <1>3 DEF RunInv, CommandOK
<1>6. RunOK'
  BY <1>3 DEF RunOK
<1>7. OutcomeIsTold'
  <2>1. CopiedThere'
    BY <1>1 DEF RunInv, RunOK, CopiedThere
  <2>2. CASE code' = "" /\ exit' = 0
    BY <2>1, <2>2, SuccessIsTold
  <2>3. CASE /\ snapshot # second \/ MayBeRespelled
             /\ code' = "ERR_VERIFY_DIVERGED" /\ exit' = ExitCode(code')
    <3>1. otherWrites' > 0 \/ MayBeRespelled'
      <4>1. CASE snapshot # second
        <5>1. otherWrites # 0 /\ otherWrites \in 0..MaxOtherWrites
          BY <1>1, <4>1 DEF RunInv, TypeOK, RunOK
        <5>2. QED
          BY <1>1, <5>1, MigrationAssumption
      <4>2. CASE MayBeRespelled
        BY <1>1, <1>2, <4>2 DEF MayBeRespelled
      <4>3. QED
        BY <2>3, <4>1, <4>2
    <3>2. code' # "" /\ code' \notin Refusals /\ code' \notin Failures /\ code' # "ERR_USAGE"
      BY <2>3 DEF Refusals, Failures
    <3>3. exit' = 1
      BY <2>3 DEF ExitCode
    <3>4. exit' \in {0, 1, 2} /\ exit' # 0 /\ exit' # 2
      BY <3>3
    <3>5. QED
      BY <2>1, <3>1, <3>2, <3>4 DEF OutcomeIsTold
  <2>4. CASE code' = "ERR_INTERNAL" /\ exit' = ExitCode(code')
    BY <2>1, <2>4, DeathIsTold DEF Failures
  <2>5. QED
    BY <1>3, <2>2, <2>3, <2>4
<1>8. QED
  BY <1>4, <1>5, <1>6, <1>7 DEF RunInv

LEMMA CrashKeeps == RunInv /\ Crash => RunInv'
<1> SUFFICES ASSUME RunInv, Crash PROVE RunInv'
  OBVIOUS
<1>1. /\ Reading /\ config' = config /\ destination' = destination
      /\ table' = table /\ plan' = plan /\ before' = before
      /\ step \notin {"start", "cutover", "ended"}
      /\ step' = "ended" /\ code' = "crash" /\ exit' = 1
  BY DEF Crash, End, Reading
<1>2. TypeOK'
  BY <1>1, ReadingTypes DEF RunInv, TypeOK, Steps
<1>3. CommandOK'
  BY <1>1 DEF RunInv, CommandOK
<1>4. RunOK'
  BY <1>1 DEF RunOK
<1>5. OutcomeIsTold'
  <2>1. code' \in Failures /\ exit' = ExitCode(code')
    BY <1>1 DEF Failures, ExitCode
  <2>2. CASE step \in {"connect", "plan", "export", "import"}
    <3>1. LeftAlone'
      BY <1>1, <2>2 DEF RunInv, RunOK, LeftAlone
    <3>2. QED
      BY <2>1, <3>1, DeathIsTold
  <2>3. CASE step \in {"export again", "compare"}
    <3>1. CopiedThere'
      BY <1>1, <2>3 DEF RunInv, RunOK, CopiedThere
    <3>2. QED
      BY <2>1, <3>1, DeathIsTold
  <2>4. QED
    BY <1>1, <2>2, <2>3 DEF RunInv, TypeOK, Steps
<1>6. QED
  BY <1>2, <1>3, <1>4, <1>5 DEF RunInv

LEMMA RerunKeeps == RunInv /\ Rerun => RunInv'
<1> SUFFICES ASSUME RunInv, Rerun PROVE RunInv'
  OBVIOUS
<1>1. /\ config' = config /\ source' = source /\ destination' = destination
      /\ before' = destination /\ writes' = writes /\ otherWrites' = otherWrites
      /\ step' = "start" /\ snapshot' = <<>> /\ second' = <<>> /\ plan' = FALSE /\ code' = ""
  BY DEF Rerun, Started
<1>2. table' = 1 /\ exit' = 0 /\ runs' = runs + 1 /\ runs < MaxRuns
  BY DEF Rerun, Started
<1>3. Tables' = Tables
  BY <1>1, SameCommand
<1>4. TypeOK'
  <2>1. table' \in 1 .. Len(Tables) + 1
    BY <1>2, ConfigSchema DEF RunInv, TypeOK
  <2>2. runs' \in 1..MaxRuns
    BY <1>2, MigrationAssumption DEF RunInv, TypeOK
  <2>3. QED
    BY <1>1, <1>3, <2>1, <2>2 DEF RunInv, TypeOK, Steps
<1>5. CommandOK'
  BY <1>1, <1>2 DEF CommandOK
<1>6. RunOK'
  BY <1>1, <1>2 DEF RunOK
<1>7. OutcomeIsTold'
  BY <1>1 DEF OutcomeIsTold
<1>8. QED
  BY <1>4, <1>5, <1>6, <1>7 DEF RunInv

LEMMA StutterKeeps == RunInv /\ UNCHANGED vars => RunInv'
<1> SUFFICES ASSUME RunInv, UNCHANGED vars PROVE RunInv'
  OBVIOUS
<1>1. /\ config' = config /\ source' = source /\ destination' = destination /\ step' = step
      /\ table' = table /\ snapshot' = snapshot /\ second' = second /\ plan' = plan
      /\ exit' = exit /\ code' = code /\ before' = before
      /\ writes' = writes /\ otherWrites' = otherWrites /\ runs' = runs
  BY DEF vars, run, bounds
<1>2. /\ Command' = Command /\ DryRun' = DryRun /\ Tables' = Tables
      /\ AllTables' = AllTables /\ \A n : FirstTables(n)' = FirstTables(n)
  BY <1>1, SameCommand
<1>3. TypeOK'
  BY <1>1, <1>2 DEF RunInv, TypeOK
<1>4. CommandOK'
  BY <1>1, <1>2 DEF RunInv, CommandOK, DestinationHasTables
<1>5. RunOK'
  BY <1>1, <1>2 DEF RunInv, RunOK
<1>6. OutcomeIsTold'
  <2>1. LeftAlone' = LeftAlone /\ CopiedThere' = CopiedThere
        /\ MayBeRespelled' = MayBeRespelled
    BY <1>1, <1>2 DEF LeftAlone, CopiedThere, MayBeRespelled
  <2>2. QED
    BY <1>1, <1>2, <2>1 DEF RunInv, OutcomeIsTold
<1>7. QED
  BY <1>3, <1>4, <1>5, <1>6 DEF RunInv

LEMMA StepKeeps == RunInv /\ [Next]_vars => RunInv'
BY AppWriteKeeps, OtherWriteKeeps, StartKeeps, ConnectKeeps, PlanKeeps, ExportTableKeeps,
   ExportedKeeps, ImportKeeps, ExportCopyKeeps, ExportedCopyKeeps, CompareKeeps, CrashKeeps,
   RerunKeeps, StutterKeeps
   DEF Next, Tool

-----------------------------------------------------------------------------
(* What follows.                                                           *)

\* Whatever others write, wherever the tool dies and however often it runs
\* again, the strengthened invariant holds.
THEOREM Inductive == Spec => []RunInv
<1>1. Init => RunInv
  BY Initial
<1>2. RunInv /\ [Next]_vars => RunInv'
  BY StepKeeps
<1>3. QED
  BY <1>1, <1>2, PTL DEF Spec

\* The exit code of any run of any command line tells what became of the
\* destination.
THEOREM OutcomeTold == Spec => []OutcomeIsTold
<1>1. RunInv => OutcomeIsTold
  BY DEF RunInv
<1>2. QED
  BY <1>1, Inductive, PTL

\* The stored schema is never of something that is not there.
THEOREM MetadataHolds == Spec => []MetadataIsReal
<1>1. RunInv => MetadataIsReal
  BY DEF RunInv, TypeOK, DatabaseOK, IsDatabase, MetadataIsReal
<1>2. QED
  BY <1>1, Inductive, PTL

\* A dry run that finds the tables at the destination is right: nothing the
\* source may hold can be imported there.
THEOREM DryRunTells == Spec => []DryRunForetells
<1>1. RunInv => DryRunForetells
  <2> DEFINE rows == [t \in ToSet(Names(Tables)) |-> source.rows[t]]
             s == config.schema
  <2>1. SUFFICES ASSUME RunInv, plan, Tables # <<>>, NEW lists \in Orders(rows),
                        Importable(destination, s, lists)
                 PROVE  FALSE
    BY DEF DryRunForetells
  <2>2. IsSchema(s) /\ Tables = s.tables /\ 1 \in DOMAIN Tables /\ Tables[1] \in ToSet(Tables)
    <3>1. config \in Configs
      BY <2>1 DEF RunInv, TypeOK
    <3>2. Lists(Tables, ToSet(Tables)) /\ IsSchema(s)
      BY <3>1, ConfigSchema, SchemaParts DEF Tables
    <3>3. Len(Tables) > 0
      BY <2>1, <3>2 DEF Lists
    <3>4. QED
      BY <3>2, <3>3 DEF Lists, Tables, ToSet
  <2>3. Tables[1].name \in Relations(destination)
    <3>1. TableExists(destination, Tables[1].name)
      BY <2>1, <2>2 DEF RunInv, CommandOK, DestinationHasTables
    <3>2. QED
      BY <3>1 DEF TableExists, HasTable, Relations
  <2>4. Creatable(destination, BaseSchema(s)) /\ IsDatabase(destination)
    BY <2>1 DEF Importable, RunInv, TypeOK, DatabaseOK, IsDatabase
  <2>5. IsSchema(BaseSchema(s)) /\ BaseSchema(s).tables = s.tables
    BY <2>2, SchemaSplits
  <2>6. \A t \in ToSet(BaseSchema(s).tables) : t.name \notin Relations(destination)
    <3> DEFINE b == BaseSchema(s)
    <3> HIDE DEF b
    <3>1. QED
      BY <2>4, <2>5, CreatedRows DEF b
  <2>7. QED
    BY <2>2, <2>3, <2>5, <2>6
<1>2. QED
  BY <1>1, Inductive, PTL

=============================================================================
