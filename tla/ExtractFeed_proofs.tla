--------------------------- MODULE ExtractFeed_proofs ---------------------------
(***************************************************************************)
(* Proofs about ExtractFeed for any texts, folding, cleaning, requests and *)
(* tables: arguments meet the placeholders they were meant for.            *)
(***************************************************************************)
EXTENDS ExtractFeed, SequenceTheorems, FiniteSetTheorems, TLAPS

-----------------------------------------------------------------------------
(* Sequences of columns                                                    *)

\* s is a sequence of the columns of S.
Lists(s, S) ==
    /\ s \in Seq(Column)
    /\ \A col \in S : \E n \in 1..Len(s) : s[n] = col
    /\ \A n \in 1..Len(s) : s[n] \in S

One(col, S) == IF col \in S THEN <<col>> ELSE <<>>

\* A column that is in the set is put behind.
LEMMA ListOneMore ==
    ASSUME NEW s, NEW T \in SUBSET Column, Lists(s, T), NEW col \in Column, NEW S
    PROVE  /\ Lists(s \o One(col, S), T \cup (S \cap {col}))
           /\ Len(s \o One(col, S)) = Len(s) + (IF col \in S THEN 1 ELSE 0)
<1>1. /\ s \in Seq(Column)
      /\ \A c \in T : \E n \in 1..Len(s) : s[n] = c
      /\ \A n \in 1..Len(s) : s[n] \in T
    BY DEF Lists
<1>2. CASE col \in S
    <2> DEFINE one == <<col>>
               t == s \o one
    <2>1. one \in Seq(Column) /\ Len(one) = 1 /\ one[1] = col
        OBVIOUS
    <2> HIDE DEF one
    <2>2. /\ t \in Seq(Column) /\ Len(t) = Len(s) + 1
          /\ \A n \in 1..(Len(s) + 1) : t[n] = IF n <= Len(s) THEN s[n] ELSE one[n - Len(s)]
        <3>1. \A u, v \in Seq(Column) :
                /\ u \o v \in Seq(Column) /\ Len(u \o v) = Len(u) + Len(v)
                /\ \A n \in 1..Len(u) + Len(v) :
                       (u \o v)[n] = IF n <= Len(u) THEN u[n] ELSE v[n - Len(u)]
            BY ConcatProperties
        <3>2. s \in Seq(Column) /\ one \in Seq(Column)
            BY <1>1, <2>1
        <3>3. /\ s \o one \in Seq(Column) /\ Len(s \o one) = Len(s) + Len(one)
              /\ \A n \in 1..Len(s) + Len(one) :
                     (s \o one)[n] = IF n <= Len(s) THEN s[n] ELSE one[n - Len(s)]
            BY <3>1, <3>2, Zenon
        <3> QED
            BY <2>1, <3>3
    <2> HIDE DEF t
    <2>3. Len(s) \in Nat
        BY <1>1
    <2>4. t[Len(s) + 1] = col /\ \A n \in 1..Len(s) : t[n] = s[n]
        BY <2>1, <2>2, <2>3
    <2>5. Lists(t, T \cup {col})
        BY <1>1, <2>2, <2>3, <2>4 DEF Lists
    <2>6. t = s \o One(col, S) /\ S \cap {col} = {col}
        BY <1>2 DEF One, t, one
    <2> QED
        BY <1>2, <2>2, <2>5, <2>6
<1>3. CASE col \notin S
    <2>1. One(col, S) = <<>>
        BY <1>3 DEF One
    <2>2. s \o <<>> = s
        BY <1>1, ConcatEmptySeq
    <2>3. T \cup (S \cap {col}) = T
        BY <1>3
    <2>4. Len(s) = Len(s) + 0
        BY <1>1
    <2> QED
        BY <1>3, <2>1, <2>2, <2>3, <2>4
<1> QED
    BY <1>2, <1>3

\* InSequence lists the columns of its set, each of them once.
LEMMA SequenceShape ==
    ASSUME NEW S \in SUBSET Column
    PROVE  /\ Lists(InSequence(S), S)
           /\ Len(InSequence(S)) = (IF "title" \in S THEN 1 ELSE 0)
                                   + (IF "image_url" \in S THEN 1 ELSE 0)
                                   + (IF "feed_url" \in S THEN 1 ELSE 0)
                                   + (IF "actual_url" \in S THEN 1 ELSE 0)
<1> DEFINE a == One("title", S)
           b == a \o One("image_url", S)
           c == b \o One("feed_url", S)
           d == c \o One("actual_url", S)
<1>1. InSequence(S) = d
    BY DEF InSequence, One
<1> DEFINE A == S \cap {"title"}
           B == A \cup (S \cap {"image_url"})
           C == B \cup (S \cap {"feed_url"})
           D == C \cup (S \cap {"actual_url"})
<1>2. Lists(a, A) /\ Len(a) = (IF "title" \in S THEN 1 ELSE 0) /\ A \in SUBSET Column
    <2>1. CASE "title" \in S
        <3>1. a = <<"title">> /\ A = {"title"}
            BY <2>1 DEF One
        <3> HIDE DEF a, A
        <3> QED
            BY <2>1, <3>1 DEF Lists, Column
    <2>2. CASE "title" \notin S
        <3>1. a = <<>> /\ A = {}
            BY <2>2 DEF One
        <3> HIDE DEF a, A
        <3> QED
            BY <2>2, <3>1 DEF Lists, Column
    <2> QED
        BY <2>1, <2>2
<1> HIDE DEF a, A
<1>3. /\ Lists(b, B) /\ B \in SUBSET Column
      /\ Len(b) = Len(a) + (IF "image_url" \in S THEN 1 ELSE 0)
    <2>1. "image_url" \in Column
        BY DEF Column
    <2> QED
        BY <1>2, <2>1, ListOneMore
<1> HIDE DEF b, B
<1>4. /\ Lists(c, C) /\ C \in SUBSET Column
      /\ Len(c) = Len(b) + (IF "feed_url" \in S THEN 1 ELSE 0)
    <2>1. "feed_url" \in Column
        BY DEF Column
    <2> QED
        BY <1>3, <2>1, ListOneMore
<1> HIDE DEF c, C
<1>5. /\ Lists(d, D)
      /\ Len(d) = Len(c) + (IF "actual_url" \in S THEN 1 ELSE 0)
    <2>1. "actual_url" \in Column
        BY DEF Column
    <2> QED
        BY <1>4, <2>1, ListOneMore
<1>6. D = S
    BY DEF A, B, C, Column
<1> HIDE DEF d, D
<1> QED
    BY <1>1, <1>2, <1>3, <1>4, <1>5, <1>6

\* More columns make a longer sequence.
LEMMA LongerSequence ==
    ASSUME NEW S \in SUBSET Column, NEW T \in SUBSET S, T # S
    PROVE  Len(InSequence(T)) < Len(InSequence(S))
<1>1. \A col \in Column : (IF col \in T THEN 1 ELSE 0) <= (IF col \in S THEN 1 ELSE 0)
    OBVIOUS
<1>2. PICK col \in Column : col \in S /\ col \notin T
    OBVIOUS
<1> QED
    BY <1>1, <1>2, SequenceShape DEF Column

\* With the limit behind, the columns stay where they were.
LEMMA LimitIsLast ==
    ASSUME NEW S \in SUBSET Column
    PROVE  LET with == Append(InSequence(S), "limit") IN
           /\ Len(with) = Len(InSequence(S)) + 1
           /\ Len(InSequence(S)) \in Nat
           /\ with[Len(with)] = "limit"
           /\ DOMAIN with = 1..Len(with)
           /\ \A n \in 1..Len(InSequence(S)) : with[n] = InSequence(S)[n]
<1>1. InSequence(S) \in Seq(Column \cup {"limit"})
    BY SequenceShape DEF Lists
<1> QED
    BY <1>1, AppendProperties

-----------------------------------------------------------------------------
(* Placeholders and arguments                                              *)

\* The columns an argument is bound for.
Passed(e, f) ==
    IF e = "postgres" THEN Given(f) \ {col \in Nullable : f[col] = Null} ELSE Compared(e, f)

\* A URL is called null in other letters than lower case.
Misspelled(f) == \E col \in Nullable : SaysNull(f[col]) /\ f[col] # Null

\* Every comparison gets an argument; and on PostgreSQL a misspelled null
\* gets one too, which nothing asks for.
LEMMA ArgumentsPassed ==
    ASSUME NEW e \in Engine, NEW f \in Filters
    PROVE  /\ Bound(e, f, Kept(e, f)) = Append(InSequence(Passed(e, f)), "limit")
           /\ Compared(e, f) \in SUBSET Passed(e, f)
           /\ Passed(e, f) \in SUBSET Column
           /\ Passed(e, f) # Compared(e, f) => e = "postgres" /\ Misspelled(f)
<1>1. /\ Given(f) \in SUBSET Column
      /\ \A col \in Column : col \in Given(f) <=> f[col] # None
      /\ Nullable \in SUBSET Column
    BY DEF Given, Nullable, Column
<1>2. SaysNull(Null) /\ ~SaysNull(None)
    BY ExtractAssumption DEF SaysNull
<1>3. CASE e = "postgres"
    <2>1. \A col \in Column :
              col \in Compared(e, f) <=> /\ col \in Given(f)
                                         /\ ~(col \in Nullable /\ SaysNull(f[col]))
        BY <1>1, <1>3 DEF Compared, TestedForNull
    <2>2. \A col \in Column :
              col \in Passed(e, f) <=> /\ col \in Given(f)
                                       /\ ~(col \in Nullable /\ f[col] = Null)
        BY <1>1, <1>3 DEF Passed
    <2>3. Bound(e, f, Kept(e, f)) = Append(InSequence(Passed(e, f)), "limit")
        BY <1>3 DEF Bound, Passed
    <2>4. Passed(e, f) \in SUBSET Column /\ Compared(e, f) \in SUBSET Column
        BY <1>1, <1>3 DEF Passed, Compared
    <2> QED
        BY <1>1, <1>2, <1>3, <2>1, <2>2, <2>3, <2>4 DEF Misspelled
<1>4. CASE e = "mariadb"
    <2>1. \A col \in Column :
              col \in Compared(e, f) <=> /\ col \in Given(f)
                                         /\ ~(col \in Nullable /\ SaysNull(f[col]))
        BY <1>1, <1>4 DEF Compared, TestedForNull
    <2>2. \A col \in Column :
              Kept(e, f)[col] = IF col \in Compared(e, f) THEN f[col] ELSE None
        BY DEF Kept
    <2>3. Compared(e, f) =
              {col \in Column : /\ Kept(e, f)[col] # None
                                /\ col \in Nullable => f[col] # None /\ ~SaysNull(f[col])}
        <3>1. Compared(e, f) \in SUBSET Column
            BY <1>1 DEF Compared
        <3> QED
            BY <1>1, <2>1, <2>2, <3>1
    <2>4. Bound(e, f, Kept(e, f)) = Append(InSequence(Compared(e, f)), "limit")
        BY <1>4, <2>3 DEF Bound
    <2> QED
        BY <1>1, <1>4, <2>4 DEF Passed, Compared
<1>5. CASE e = "mssql"
    BY <1>1, <1>5 DEF Bound, Placeholders, Passed, Compared
<1> QED
    BY <1>3, <1>4, <1>5 DEF Engine

\* A statement executes exactly when each argument has its placeholder.
LEMMA ExecutesWhenPassed ==
    ASSUME NEW e \in Engine, NEW f \in Filters
    PROVE  Executes(e, f, Kept(e, f)) <=> Passed(e, f) = Compared(e, f)
<1> DEFINE needs == Placeholders(e, f)
           has == Bound(e, f, Kept(e, f))
           n == Len(InSequence(Compared(e, f)))
           p == Len(InSequence(Passed(e, f)))
<1>1. /\ Compared(e, f) \in SUBSET Column /\ Passed(e, f) \in SUBSET Column
      /\ Compared(e, f) \in SUBSET Passed(e, f)
      /\ Passed(e, f) # Compared(e, f) => e = "postgres"
      /\ has = Append(InSequence(Passed(e, f)), "limit")
      /\ needs = Append(InSequence(Compared(e, f)), "limit")
    BY ArgumentsPassed DEF Placeholders
<1>2. /\ n \in Nat /\ p \in Nat /\ Len(needs) = n + 1 /\ Len(has) = p + 1
      /\ has[Len(has)] = "limit"
      /\ \A k \in 1..p : has[k] = InSequence(Passed(e, f))[k]
    BY <1>1, LimitIsLast
<1>3. Executes(e, f, Kept(e, f)) <=>
          /\ IF e = "mariadb" THEN Len(has) = Len(needs) ELSE Len(has) >= Len(needs)
          /\ has[Len(needs)] = "limit"
    BY DEF Executes
<1>4. CASE Passed(e, f) = Compared(e, f)
    <2>1. has = needs
        BY <1>1, <1>4
    <2> HIDE DEF has, needs
    <2> QED
        BY <1>2, <1>3, <1>4, <2>1
<1>5. CASE Passed(e, f) # Compared(e, f)
    <2>1. n < p
        BY <1>1, <1>5, LongerSequence
    <2>2. InSequence(Passed(e, f))[n + 1] \in Column
        BY <1>1, <1>2, <2>1, SequenceShape DEF Lists
    <2>3. has[n + 1] # "limit"
        BY <1>2, <2>1, <2>2 DEF Column
    <2> HIDE DEF has, needs, n
    <2> QED
        BY <1>2, <1>3, <1>5, <2>3
<1> QED
    BY <1>4, <1>5

\* Then every comparison gets the value its filter gave, in MariaDB's
\* session variables too.
LEMMA ValuesArrive ==
    ASSUME NEW e \in Engine, NEW f \in Filters, Executes(e, f, Kept(e, f)),
           NEW col \in Compared(e, f)
    PROVE  ValueFor(e, f, Kept(e, f), col) = f[col]
<1> DEFINE needs == Placeholders(e, f)
           has == Bound(e, f, Kept(e, f))
           i == CHOOSE n \in DOMAIN needs : needs[n] = col
<1>1. has = needs
    BY ExecutesWhenPassed, ArgumentsPassed DEF Placeholders
<1>2. Compared(e, f) \in SUBSET Column
    BY DEF Compared, Given
<1>3. \E n \in DOMAIN needs : needs[n] = col
    <2>1. PICK n \in 1..Len(InSequence(Compared(e, f))) : InSequence(Compared(e, f))[n] = col
        BY <1>2, SequenceShape DEF Lists
    <2> QED
        BY <1>2, <2>1, LimitIsLast DEF Placeholders
<1>4. needs[i] = col
    <2> HIDE DEF needs
    <2> QED
        BY <1>3
<1>5. ValueFor(e, f, Kept(e, f), col) =
          IF e = "mariadb" THEN Kept(e, f)[has[i]] ELSE f[has[i]]
    BY DEF ValueFor
<1>6. has[i] = col
    BY <1>1, <1>4
<1> HIDE DEF has, i
<1> QED
    BY <1>2, <1>5, <1>6 DEF Kept

\* On every engine, whatever filters come together, the rows a statement
\* selects are those the filters ask for; if it executes, and short of the
\* null test on the wrong column in SQL Server.
THEOREM SelectionIsWanted ==
    ASSUME NEW e \in Engine, NEW f \in Filters, NEW tbl \in SUBSET Row,
           Executes(e, f, Kept(e, f)), ~Confused(e, f)
    PROVE  Selected(e, f, Kept(e, f), tbl) = {r \in tbl : Wanted(f, r)}
<1>1. Given(f) \in SUBSET Column /\ ~SaysNull(None)
    BY DEF Given, SaysNull
<1>2. \A col \in Given(f) :
          col \in TestedForNull(e, f) <=> col \in Nullable /\ SaysNull(f[col])
    <2>1. CASE e # "mssql"
        BY <2>1 DEF TestedForNull
    <2>2. CASE e = "mssql"
        <3>1. "actual_url" \in Given(f) =>
                  (SaysNull(f["actual_url"]) <=> SaysNull(f["image_url"]))
            BY <2>2 DEF Confused, SaysNull
        <3>2. \A col \in Given(f) :
                  col \in TestedForNull(e, f) <=> col \in Nullable /\ SaysNull(f["image_url"])
            BY <2>2 DEF TestedForNull
        <3> QED
            BY <1>1, <3>1, <3>2 DEF Nullable
    <2> QED
        BY <2>1, <2>2
<1>3. TestedForNull(e, f) \in SUBSET Given(f) /\ Compared(e, f) = Given(f) \ TestedForNull(e, f)
    BY DEF TestedForNull, Compared
<1>4. \A col \in Compared(e, f) : ValueFor(e, f, Kept(e, f), col) = f[col]
    BY ValuesArrive
<1>5. ASSUME NEW r \in tbl
      PROVE  Wanted(f, r) <=> /\ \A col \in TestedForNull(e, f) : r[col] = None
                              /\ \A col \in Compared(e, f) :
                                    r[col] # None /\ Fold[r[col]] = Fold[f[col]]
    BY <1>2, <1>3 DEF Wanted
<1> QED
    BY <1>4, <1>5 DEF Selected

-----------------------------------------------------------------------------
(* The order of the rows                                                   *)

\* p comes before q in an answer.
Precedes(sort, p, q) == IF sort = "desc" THEN Before(q, p) ELSE Before(p, q)

\* No two rows have the same place in the collation.
Separated(rows) ==
    \A p, q \in rows : Rank[Fold[p.title]] = Rank[Fold[q.title]] => p = q

\* Of two rows exactly one precedes the other.
LEMMA RowsAreOrdered ==
    ASSUME NEW rows \in SUBSET Row, Separated(rows), NEW sort
    PROVE  /\ \A p \in rows : ~Precedes(sort, p, p)
           /\ \A p, q \in rows : p = q \/ Precedes(sort, p, q) \/ Precedes(sort, q, p)
           /\ \A p, q, r \in rows :
                 Precedes(sort, p, q) /\ Precedes(sort, q, r) => Precedes(sort, p, r)
<1>1. \A p \in rows : p.publish_date \in Nat /\ Rank[Fold[p.title]] \in Nat
    BY ExtractAssumption DEF Row
<1>2. \A p \in rows : ~Before(p, p)
    BY <1>1 DEF Before
<1>3. \A p, q \in rows : p = q \/ Before(p, q) \/ Before(q, p)
    BY <1>1 DEF Before, Separated
<1>4. \A p, q, r \in rows : Before(p, q) /\ Before(q, r) => Before(p, r)
    BY <1>1 DEF Before
<1> QED
    BY <1>2, <1>3, <1>4 DEF Precedes

Predecessors(sort, rows, r) == {q \in rows : Precedes(sort, q, r)}
Place(sort, rows) == [r \in rows |-> 1 + Cardinality(Predecessors(sort, rows, r))]

\* Counting predecessors gives each of n rows a place from 1 to n of its own,
\* and the places are in the order of the rows.
LEMMA PlacesAreTaken ==
    ASSUME NEW rows \in SUBSET Row, Separated(rows), IsFiniteSet(rows), NEW sort
    PROVE  /\ Cardinality(rows) \in Nat
           /\ \A r \in rows : Place(sort, rows)[r] \in 1..Cardinality(rows)
           /\ \A p, r \in rows :
                 Precedes(sort, p, r) <=> Place(sort, rows)[p] < Place(sort, rows)[r]
           /\ \A i \in 1..Cardinality(rows) : \E r \in rows : Place(sort, rows)[r] = i
<1> DEFINE place == Place(sort, rows)
           pred(r) == Predecessors(sort, rows, r)
           n == Cardinality(rows)
<1>1. n \in Nat
    BY FS_CardinalityType
<1>2. \A r \in rows : /\ pred(r) \in SUBSET rows /\ r \notin pred(r)
                      /\ place[r] = 1 + Cardinality(pred(r))
    BY RowsAreOrdered DEF Predecessors, Place
<1>3. \A r \in rows : IsFiniteSet(pred(r)) /\ Cardinality(pred(r)) \in Nat
    BY <1>2, FS_Subset, FS_CardinalityType
<1>4. ASSUME NEW r \in rows PROVE place[r] \in 1..n
    <2>1. pred(r) \in SUBSET (rows \ {r})
        BY <1>2
    <2>2. IsFiniteSet(rows \ {r}) /\ Cardinality(rows \ {r}) = n - 1
        BY FS_RemoveElement
    <2>3. Cardinality(pred(r)) <= n - 1
        BY <2>1, <2>2, FS_Subset
    <2> QED
        BY <1>1, <1>2, <1>3, <2>3
<1>5. ASSUME NEW p \in rows, NEW r \in rows, Precedes(sort, p, r)
      PROVE  place[p] < place[r]
    <2>1. pred(p) \cup {p} \in SUBSET pred(r)
        BY <1>5, RowsAreOrdered DEF Predecessors
    <2>2. Cardinality(pred(p) \cup {p}) = Cardinality(pred(p)) + 1
        BY <1>2, <1>3, FS_AddElement
    <2>3. Cardinality(pred(p) \cup {p}) <= Cardinality(pred(r))
        BY <1>3, <2>1, FS_Subset
    <2> HIDE DEF pred
    <2> QED
        BY <1>2, <1>3, <2>2, <2>3
<1> HIDE DEF place, pred, n
<1>6. ASSUME NEW p \in rows, NEW r \in rows, place[p] < place[r]
      PROVE  Precedes(sort, p, r)
    <2>1. place[p] \in Nat /\ place[r] \in Nat
        BY <1>1, <1>4
    <2>2. p # r
        BY <1>6, <2>1
    <2>3. ~Precedes(sort, r, p)
        BY <1>5, <1>6, <2>1
    <2> QED
        BY <2>2, <2>3, RowsAreOrdered
<1>7. place \in Injection(rows, 1..n)
    <2>1. place \in [rows -> 1..n]
        BY <1>4 DEF place, Place
    <2>2. ASSUME NEW p \in rows, NEW r \in rows, place[p] = place[r] PROVE p = r
        <3>1. place[p] \in Nat /\ place[r] \in Nat
            BY <1>1, <1>4
        <3>2. ~Precedes(sort, p, r) /\ ~Precedes(sort, r, p)
            BY <1>5, <2>2, <3>1
        <3> QED
            BY <3>2, RowsAreOrdered
    <2> QED
        BY <2>1, <2>2 DEF Injection, IsInjective
<1>8. IsFiniteSet(1..n) /\ Cardinality(1..n) = n
    BY <1>1, FS_Interval
<1>9. place \in Surjection(rows, 1..n)
    BY <1>7, <1>8, FS_Injection DEF n
<1>10. \A i \in 1..n : \E r \in rows : place[r] = i
    BY <1>9 DEF Surjection
<1> QED
    BY <1>1, <1>4, <1>5, <1>6, <1>10 DEF place, n

\* What ORDER BY and LIMIT make of any finite set of rows: they come in the
\* order asked for, each once, and a row is left out only when the limit is
\* reached by rows that all precede it.
THEOREM TopInOrder ==
    ASSUME NEW rows \in SUBSET Row, Separated(rows), IsFiniteSet(rows),
           NEW limit \in Nat \ {0}, NEW sort
    PROVE  LET top == Top(rows, limit, sort) IN
           /\ top \in Seq(rows) /\ Len(top) <= limit
           /\ \A i, j \in DOMAIN top : i < j => Precedes(sort, top[i], top[j])
           /\ \A r \in rows : \/ \E i \in DOMAIN top : top[i] = r
                              \/ /\ Len(top) = limit
                                 /\ Precedes(sort, top[Len(top)], r)
<1> DEFINE n == Cardinality(rows)
           last == IF limit < n THEN limit ELSE n
           place == Place(sort, rows)
           row(i) == CHOOSE r \in rows : place[r] = i
           top == Top(rows, limit, sort)
<1>1. /\ n \in Nat
      /\ \A r \in rows : place[r] \in 1..n
      /\ \A p, r \in rows : Precedes(sort, p, r) <=> place[p] < place[r]
      /\ \A i \in 1..n : \E r \in rows : place[r] = i
    BY PlacesAreTaken
<1>2. top = [i \in 1..last |-> row(i)]
    <2>1. \A r \in rows :
              {q \in rows : IF sort = "desc" THEN Before(r, q) ELSE Before(q, r)}
              = Predecessors(sort, rows, r)
        BY DEF Predecessors, Precedes
    <2>2. \A r \in rows :
              place[r] = 1 + Cardinality({q \in rows : IF sort = "desc" THEN Before(r, q)
                                                                        ELSE Before(q, r)})
        BY <2>1 DEF Place
    <2>3. \A i : row(i) = CHOOSE r \in rows :
              1 + Cardinality({q \in rows : IF sort = "desc" THEN Before(r, q)
                                                             ELSE Before(q, r)}) = i
        BY <2>2
    <2> HIDE DEF row, place
    <2> QED
        BY <2>3 DEF Top
<1>3. last \in Nat /\ last <= n /\ last <= limit
    BY <1>1
<1> HIDE DEF place, top, n, last
<1>4. \A i \in 1..last : row(i) \in rows /\ place[row(i)] = i
    BY <1>1, <1>3
<1>5. \A r \in rows : place[r] \in 1..last => row(place[r]) = r
    <2> SUFFICES ASSUME NEW r \in rows, place[r] \in 1..last
                 PROVE  row(place[r]) = r
        OBVIOUS
    <2>1. row(place[r]) \in rows /\ place[row(place[r])] = place[r]
        BY <1>4
    <2>2. place[r] \in Nat
        BY <1>1
    <2> HIDE DEF row
    <2>3. ~Precedes(sort, row(place[r]), r) /\ ~Precedes(sort, r, row(place[r]))
        BY <1>1, <2>1, <2>2
    <2> QED
        BY <2>1, <2>3, RowsAreOrdered
<1> HIDE DEF row
<1>6. top \in Seq(rows) /\ Len(top) = last /\ DOMAIN top = 1..last
    BY <1>2, <1>3, <1>4
<1>7. \A i \in 1..last : top[i] \in rows /\ place[top[i]] = i
    BY <1>2, <1>4
<1>8. ASSUME NEW i \in DOMAIN top, NEW j \in DOMAIN top, i < j
      PROVE  Precedes(sort, top[i], top[j])
    BY <1>1, <1>6, <1>7, <1>8
<1>9. ASSUME NEW r \in rows, ~\E i \in DOMAIN top : top[i] = r
      PROVE  Len(top) = limit /\ Precedes(sort, top[Len(top)], r)
    <2>1. place[r] \notin 1..last
        BY <1>2, <1>5, <1>6, <1>9
    <2>2. place[r] \in 1..n
        BY <1>1
    <2>3. last < place[r] /\ last = limit
        BY <1>1, <1>3, <2>1, <2>2 DEF last
    <2>4. last \in 1..last
        BY <1>3, <2>3
    <2>5. top[last] \in rows /\ place[top[last]] < place[r]
        BY <1>7, <2>3, <2>4
    <2> QED
        BY <1>1, <1>6, <2>3, <2>5
<1> QED
    BY <1>3, <1>6, <1>8, <1>9 DEF top

-----------------------------------------------------------------------------
(* What is served                                                          *)

\* Parameters always come out of from_map in their bounds.
LEMMA ParametersInBounds ==
    ASSUME NEW r \in Request
    PROVE  FromMap(r) \in [filters : Filters, limit : 1..MaxLimit, sort : {None, "asc", "desc"}]
<1>1. MaxLimit \in Nat /\ DefaultLimit \in 1..MaxLimit /\ r.filters \in Filters
    BY ExtractAssumption
<1>2. \A n \in Nat : Clamp(n) \in 1..MaxLimit
    BY <1>1 DEF Clamp
<1> QED
    BY <1>1, <1>2 DEF FromMap

\* A statement answers with the first of the rows that the filters ask for.
LEMMA ExtractServes ==
    ASSUME TypeOK, Extract
    PROVE  TypeOK' /\ ServedAsAsked'
<1> DEFINE f == Cleaned(engine, asked.filters)
           kept == Kept(engine, f)
           chosen == Selected(engine, f, kept, table)
           limit == asked.limit
           top == Top(chosen, limit, asked.sort)
<1>1. /\ engine \in Engine /\ table \in Tables
      /\ asked.filters \in Filters /\ limit \in 1..MaxLimit
      /\ UNCHANGED <<engine, table, asked>>
    BY DEF Extract, TypeOK
<1>2. f \in Filters
    BY <1>1, ExtractAssumption DEF Cleaned, Filters
<1>3. /\ table \in SUBSET Row /\ IsFiniteSet(table) /\ Separated(table)
      /\ MaxLimit \in Nat
    BY <1>1, ExtractAssumption DEF Separated
<1>4. chosen \in SUBSET table /\ IsFiniteSet(chosen) /\ Separated(chosen)
    <2>1. chosen \in SUBSET table
        BY DEF Selected
    <2> QED
        BY <1>3, <2>1, FS_Subset DEF Separated
<1>5. limit \in Nat \ {0} /\ ProcedureLimit(limit) = limit
    BY <1>1, <1>3 DEF ProcedureLimit
<1>6. /\ session' = IF engine = "mariadb" THEN kept ELSE session
      /\ reply' = IF Executes(engine, f, kept) THEN [status |-> 200, rows |-> top]
                  ELSE [status |-> 500, rows |-> <<>>]
    BY <1>5 DEF Extract
<1>7. kept \in [Column -> Text \cup {None}]
    BY <1>2 DEF Kept, Filters
<1> HIDE DEF f, kept, chosen, top
<1>8. /\ top \in Seq(chosen) /\ Len(top) <= limit
      /\ \A i, j \in DOMAIN top : i < j => Precedes(asked.sort, top[i], top[j])
      /\ \A r \in chosen : \/ \E i \in DOMAIN top : top[i] = r
                           \/ /\ Len(top) = limit
                              /\ Precedes(asked.sort, top[Len(top)], r)
    BY <1>3, <1>4, <1>5, TopInOrder DEF top
<1>9. TypeOK'
    <2>1. session' \in [Column -> Text \cup {None}]
        BY <1>6, <1>7 DEF TypeOK
    <2>2. /\ reply'.status \in {200, 500}
          /\ reply'.rows \in Seq(table)
          /\ Len(reply'.rows) <= MaxLimit
        <3>1. top \in Seq(table)
            BY <1>4, <1>8
        <3>2. Len(top) \in Nat /\ Len(top) <= MaxLimit
            BY <1>1, <1>3, <1>8
        <3>3. <<>> \in Seq(table) /\ Len(<<>>) = 0
            OBVIOUS
        <3> QED
            BY <1>3, <1>6, <3>1, <3>2, <3>3
    <2> QED
        BY <1>1, <2>1, <2>2 DEF TypeOK
<1>10. ASSUME reply'.status = 200, ~Confused(engine, f)
       PROVE  LET rows == reply'.rows IN
              /\ \A i \in DOMAIN rows : Wanted(f, rows[i])
              /\ \A i, j \in DOMAIN rows : i < j => Precedes(asked.sort, rows[i], rows[j])
              /\ \A r \in table : Wanted(f, r) =>
                    \/ \E i \in DOMAIN rows : rows[i] = r
                    \/ Len(rows) = limit /\ Precedes(asked.sort, rows[Len(rows)], r)
    <2>1. Executes(engine, f, kept) /\ reply'.rows = top
        BY <1>6, <1>10
    <2>2. chosen = {r \in table : Wanted(f, r)}
        BY <1>1, <1>2, <1>3, <1>10, <2>1, SelectionIsWanted DEF chosen, kept
    <2>3. \A i \in DOMAIN top : top[i] \in chosen
        BY <1>8
    <2> QED
        BY <1>8, <2>1, <2>2, <2>3
<1>11. ServedAsAsked'
    BY <1>1, <1>10 DEF ServedAsAsked, Precedes, f
<1> QED
    BY <1>9, <1>11

\* Every state, and so every answer, has its type; no answer is longer than
\* MAX_LIMIT, whatever limit the client wrote.
THEOREM TypeCorrect == Spec => []TypeOK
<1>1. Init => TypeOK
    BY DEF Init, TypeOK
<1>2. TypeOK /\ [Next]_vars => TypeOK'
    <2> SUFFICES ASSUME TypeOK, [Next]_vars PROVE TypeOK'
        OBVIOUS
    <2>1. CASE Ask
        BY <2>1, ParametersInBounds DEF Ask, TypeOK
    <2>2. CASE Extract
        BY <2>2, ExtractServes
    <2>3. CASE Change
        BY <2>3 DEF Change, TypeOK
    <2>4. CASE UNCHANGED vars
        BY <2>4 DEF vars, TypeOK
    <2> QED
        BY <2>1, <2>2, <2>3, <2>4 DEF Next
<1> QED
    BY <1>1, <1>2, PTL DEF Spec

\* An answer holds the rows the filters ask for, in the order asked for, and
\* leaves one out only when it is full with rows that precede it: for any
\* filters, tables and limits, and whatever the session was used for before.
THEOREM AnswersAreServed == Spec => []ServedAsAsked
<1>1. Init => ServedAsAsked
    BY DEF Init, ServedAsAsked, Answered
<1>2. TypeOK /\ ServedAsAsked /\ [Next]_vars => ServedAsAsked'
    <2> SUFFICES ASSUME TypeOK, ServedAsAsked, [Next]_vars PROVE ServedAsAsked'
        OBVIOUS
    <2>1. CASE Ask
        BY <2>1 DEF Ask, ServedAsAsked, Answered
    <2>2. CASE Extract
        BY <2>2, ExtractServes
    <2>3. CASE Change
        BY <2>3 DEF Change, ServedAsAsked, Answered
    <2>4. CASE UNCHANGED vars
        BY <2>4 DEF vars, ServedAsAsked, Answered
    <2> QED
        BY <2>1, <2>2, <2>3, <2>4 DEF Next
<1> QED
    BY <1>1, <1>2, TypeCorrect, PTL DEF Spec

-----------------------------------------------------------------------------
(* No combination fails                                                    *)

RequestsInOrder ==
    /\ engine \in Engine
    /\ asked = None \/ asked.filters \in Filters

\* The statement of a GET fails only on PostgreSQL, and only on a URL called
\* null in other letters than lower case: the branches that write the text of
\* the statement and those that bind its arguments agree on all the others.
THEOREM FailuresAreSpelling == Spec => []FailsOnlyOnSpelling
<1> DEFINE Inv == RequestsInOrder /\ FailsOnlyOnSpelling
<1>1. Init => Inv
    BY DEF Init, RequestsInOrder, FailsOnlyOnSpelling, Answered
<1>2. Inv /\ [Next]_vars => Inv'
    <2> SUFFICES ASSUME Inv, [Next]_vars PROVE Inv'
        OBVIOUS
    <2>1. CASE Ask
        <3>1. PICK r \in Request : asked' = FromMap(r)
            BY <2>1 DEF Ask
        <3>2. asked'.filters \in Filters
            BY <3>1, ExtractAssumption DEF FromMap
        <3> QED
            BY <2>1, <3>2 DEF Ask, RequestsInOrder, FailsOnlyOnSpelling, Answered
    <2>2. CASE Extract
        <3> DEFINE f == Cleaned(engine, asked.filters)
        <3>1. engine \in Engine /\ asked.filters \in Filters /\ UNCHANGED <<engine, asked>>
            BY <2>2 DEF Extract, RequestsInOrder
        <3>2. f \in Filters
            BY <3>1, ExtractAssumption DEF Cleaned, Filters
        <3>3. ASSUME reply'.status = 500
              PROVE  engine = "postgres" /\ Misspelled(f)
            <4>1. ~Executes(engine, f, Kept(engine, f))
                BY <2>2, <3>3 DEF Extract
            <4> HIDE DEF f
            <4> QED
                BY <3>1, <3>2, <4>1, ExecutesWhenPassed, ArgumentsPassed
        <3>4. ASSUME Misspelled(f)
              PROVE  \E col \in Nullable :
                        LET t == asked.filters[col] IN
                        t # None /\ SaysNull(Clean[engine][t]) /\ Clean[engine][t] # Null
            <4>1. PICK col \in Nullable : SaysNull(f[col]) /\ f[col] # Null
                BY <3>4 DEF Misspelled
            <4>2. f[col] = IF asked.filters[col] = None THEN None
                           ELSE Clean[engine][asked.filters[col]]
                BY DEF Cleaned, Nullable, Column
            <4> QED
                BY <4>1, <4>2 DEF SaysNull
        <3> HIDE DEF f
        <3> QED
            BY <3>1, <3>3, <3>4 DEF RequestsInOrder, FailsOnlyOnSpelling, Answered
    <2>3. CASE Change
        BY <2>3 DEF Change, RequestsInOrder, FailsOnlyOnSpelling, Answered
    <2>4. CASE UNCHANGED vars
        BY <2>4 DEF vars, RequestsInOrder, FailsOnlyOnSpelling, Answered
    <2> QED
        BY <2>1, <2>2, <2>3, <2>4 DEF Next
<1> QED
    BY <1>1, <1>2, PTL DEF Spec

=============================================================================
