------------------------------ MODULE ExtractFeed ------------------------------
(***************************************************************************)
(* What a GET returns: from_map makes parameters of the query string, and  *)
(* the extract procedure of each engine cleans them, builds a statement    *)
(* with a placeholder for every value it compares, and binds arguments to  *)
(* the placeholders by position (SQL Server: by name).  MariaDB keeps its  *)
(* arguments in variables of the session, which the pool hands from one    *)
(* request to the next.  Case is folded by the columns' collation.         *)
(***************************************************************************)
EXTENDS Integers, Sequences, FiniteSets

CONSTANTS
    Text,       \* values of parameters and columns
    Null,       \* the text null, in lower case
    None,       \* an absent parameter, SQL's NULL
    Fold,       \* Fold[t]: t in lower case
    Rank,       \* Rank[t]: the place of a lower-case text in the collation
    Clean,      \* Clean[e][t]: t without what e omits, cut and trimmed
    DefaultLimit, MaxLimit,  \* 25 and 100
    Request,    \* the query strings a client may send
    Tables      \* the contents the table may have

Engine == {"postgres", "mariadb", "mssql"}
Column == {"title", "image_url", "feed_url", "actual_url"}
Nullable == {"image_url", "actual_url"}

Filters == [Column -> Text \cup {None}]
Row == [title : Text, image_url : Text \cup {None}, feed_url : Text,
        actual_url : Text \cup {None}, publish_date : Nat]

ASSUME ExtractAssumption ==
    /\ None \notin Text
    /\ Null \in Text /\ Fold[Null] = Null
    /\ Fold \in [Text -> Text]
    /\ Rank \in [Text -> Nat]
    /\ Clean \in [Engine -> [Text -> Text \cup {None}]]
    /\ MaxLimit \in Nat /\ DefaultLimit \in 1..MaxLimit
    /\ \A r \in Request :
          /\ r.filters \in Filters
          /\ r.limit \in Int \cup {None}
          /\ r.sort \in {None, "asc", "desc", "other"}
    /\ \A tbl \in Tables :
          /\ tbl \subseteq Row
          /\ IsFiniteSet(tbl)
          /\ \A p, q \in tbl : Rank[Fold[p.title]] = Rank[Fold[q.title]] => p = q

VARIABLES
    engine,   \* chosen at the start, never changed
    table,    \* the rows, as committed
    session,  \* the session's @title, @imageurl, @feedurl, @actualurl
    asked,    \* ExtractParams of the request in hand, or None
    reply     \* its answer, or None

vars == <<engine, table, session, asked, reply>>

Init ==
    /\ engine \in Engine
    /\ table \in Tables
    /\ session = [col \in Column |-> None]
    /\ asked = None
    /\ reply = None

-----------------------------------------------------------------------------
(* The query string                                                        *)

Clamp(n) == IF n < 1 THEN 1 ELSE IF n > MaxLimit THEN MaxLimit ELSE n

\* Mutant of FromMap: the limit is taken as it comes.
FromMapUnclamped(r) ==
    [filters |-> r.filters,
     limit |-> IF r.limit \in Nat THEN r.limit ELSE DefaultLimit,
     sort |-> IF r.sort \in {"asc", "desc"} THEN r.sort ELSE None]

\* A limit that is no u32 is no limit; an order that is neither is none.
FromMap(r) ==
    [filters |-> r.filters,
     limit |-> IF r.limit \in Nat THEN Clamp(r.limit) ELSE DefaultLimit,
     sort |-> IF r.sort \in {"asc", "desc"} THEN r.sort ELSE None]

Ask ==
    /\ asked = None \/ reply # None
    /\ \E r \in Request : asked' = FromMap(r)
    /\ reply' = None
    /\ UNCHANGED <<engine, table, session>>

-----------------------------------------------------------------------------
(* The statement                                                           *)

Cleaned(e, filters) ==
    [col \in Column |-> IF filters[col] = None THEN None ELSE Clean[e][filters[col]]]

Given(f) == {col \in Column : f[col] # None}
SaysNull(t) == t # None /\ Fold[t] = Null

\* The columns tested with IS NULL.  SQL Server looks at @imageurl for both.
TestedForNull(e, f) ==
    {col \in Given(f) \cap Nullable :
        SaysNull(f[IF e = "mssql" THEN "image_url" ELSE col])}

Compared(e, f) == Given(f) \ TestedForNull(e, f)

\* The columns of a set, in the order in which all the procedures take them.
InSequence(cols) ==
    LET one(col) == IF col \in cols THEN <<col>> ELSE <<>> IN
    one("title") \o one("image_url") \o one("feed_url") \o one("actual_url")

\* One placeholder for every comparison, and one for the limit.
Placeholders(e, f) == Append(InSequence(Compared(e, f)), "limit")

\* The values bound.  PostgreSQL leaves out the one spelling null, MariaDB
\* what is null in any spelling; it looks for what to bind in the session.
Bound(e, f, kept) ==
    CASE e = "postgres" ->
            Append(InSequence(Given(f) \ {col \in Nullable : f[col] = Null}), "limit")
      [] e = "mariadb" ->
            Append(InSequence({col \in Column : /\ kept[col] # None
                                                /\ col \in Nullable => f[col] # None
                                                                     /\ ~SaysNull(f[col])}),
                   "limit")
      [] e = "mssql" -> Placeholders(e, f)

\* The placeholder of LIMIT takes no text.  PostgreSQL allows arguments too
\* many, MariaDB does not.
Executes(e, f, kept) ==
    LET needs == Placeholders(e, f)
        has == Bound(e, f, kept) IN
    /\ IF e = "mariadb" THEN Len(has) = Len(needs) ELSE Len(has) >= Len(needs)
    /\ has[Len(needs)] = "limit"

\* Mutant of ValueFor: the session's variables are bound in another order.
ValueForReversed(e, f, kept, col) ==
    LET has == Bound(e, f, kept)
        i == CHOOSE n \in DOMAIN Placeholders(e, f) : Placeholders(e, f)[n] = col
        from == has[Len(has) - i] IN
    IF e = "mariadb" THEN kept[from] ELSE f[from]

\* What the placeholder of a column gets.
ValueFor(e, f, kept, col) ==
    LET i == CHOOSE n \in DOMAIN Placeholders(e, f) : Placeholders(e, f)[n] = col
        from == Bound(e, f, kept)[i] IN
    IF e = "mariadb" THEN kept[from] ELSE f[from]

Selected(e, f, kept, tbl) ==
    {r \in tbl :
        /\ \A col \in TestedForNull(e, f) : r[col] = None
        /\ \A col \in Compared(e, f) :
              r[col] # None /\ Fold[r[col]] = Fold[ValueFor(e, f, kept, col)]}

Before(p, q) ==
    \/ p.publish_date < q.publish_date
    \/ /\ p.publish_date = q.publish_date
       /\ Rank[Fold[p.title]] < Rank[Fold[q.title]]

\* order by ... limit
Top(rows, limit, sort) ==
    LET place(r) == 1 + Cardinality({q \in rows : IF sort = "desc" THEN Before(r, q)
                                                                   ELSE Before(q, r)})
        last == IF limit < Cardinality(rows) THEN limit ELSE Cardinality(rows) IN
    [i \in 1..last |-> CHOOSE r \in rows : place(r) = i]

ProcedureLimit(limit) == IF limit \in 1..MaxLimit THEN limit ELSE DefaultLimit

\* Mutant of Kept: the variables are set where they are used and never reset.
KeptFromBefore(e, f) ==
    [col \in Column |-> IF col \in Compared(e, f) THEN f[col] ELSE session[col]]

\* MariaDB's procedure sets all its variables to NULL before it uses them.
Kept(e, f) == [col \in Column |-> IF col \in Compared(e, f) THEN f[col] ELSE None]

Extract ==
    /\ asked # None
    /\ reply = None
    /\ LET f == Cleaned(engine, asked.filters)
           kept == Kept(engine, f) IN
       /\ session' = IF engine = "mariadb" THEN kept ELSE session
       /\ reply' = IF Executes(engine, f, kept)
                   THEN [status |-> 200,
                         rows |-> Top(Selected(engine, f, kept, table),
                                      ProcedureLimit(asked.limit), asked.sort)]
                   ELSE [status |-> 500, rows |-> <<>>]
    /\ UNCHANGED <<engine, table, asked>>

\* A batch commits.
Change ==
    /\ asked = None \/ reply # None
    /\ table' \in Tables \ {table}
    /\ asked' = None
    /\ reply' = None
    /\ UNCHANGED <<engine, session>>

Next == Ask \/ Extract \/ Change

Spec == Init /\ [][Next]_vars

-----------------------------------------------------------------------------
(* Properties                                                              *)

Answered == asked # None /\ reply # None

TypeOK ==
    /\ engine \in Engine
    /\ table \in Tables
    /\ session \in [Column -> Text \cup {None}]
    /\ asked = None \/ asked \in [filters : Filters, limit : 1..MaxLimit,
                                  sort : {None, "asc", "desc"}]
    /\ reply = None \/ /\ reply.status \in {200, 500}
                       /\ reply.rows \in Seq(table)
                       /\ Len(reply.rows) <= MaxLimit

\* What the filters ask for, column by column: a URL called null asks for
\* rows without one, any other text for rows that have it.
Wanted(f, r) ==
    \A col \in Given(f) :
        IF col \in Nullable /\ SaysNull(f[col]) THEN r[col] = None
        ELSE r[col] # None /\ Fold[r[col]] = Fold[f[col]]

\* SQL Server tells the two kinds of filter on actual_url apart by looking at
\* image_url.
Confused(e, f) ==
    /\ e = "mssql"
    /\ "actual_url" \in Given(f)
    /\ SaysNull(f["actual_url"]) # SaysNull(f["image_url"])

\* Whatever filters come together, whatever the session was used for before:
\* the rows of an answer are wanted, and follow each other in the order asked
\* for; and a wanted row is missing only if the answer is full and ends before it.
ServedAsAsked ==
    LET f == Cleaned(engine, asked.filters)
        after(p, q) == IF asked.sort = "desc" THEN Before(q, p) ELSE Before(p, q)
        rows == reply.rows IN
    Answered /\ reply.status = 200 /\ ~Confused(engine, f) =>
        /\ \A i \in DOMAIN rows : Wanted(f, rows[i])
        /\ \A i, j \in DOMAIN rows : i < j => after(rows[i], rows[j])
        /\ \A r \in table : Wanted(f, r) =>
              \/ \E i \in DOMAIN rows : rows[i] = r
              \/ Len(rows) = asked.limit /\ after(rows[Len(rows)], r)

\* No combination of filters makes the statement fail, but one: a URL called
\* null in other letters than lower case, on PostgreSQL.
FailsOnlyOnSpelling ==
    Answered /\ reply.status = 500 =>
        /\ engine = "postgres"
        /\ \E col \in Nullable :
              LET t == asked.filters[col] IN
              t # None /\ SaysNull(Clean[engine][t]) /\ Clean[engine][t] # Null

=============================================================================
