---------------------------- MODULE MCExtractFeed ----------------------------
(***************************************************************************)
(* Every combination of filters on one set of texts, and every limit and   *)
(* order on a few combinations.                                            *)
(***************************************************************************)
EXTENDS ExtractFeed

MCText == {"news", "News", "url", "other", "null", "NULL", "odd-odd", "odd odd", "o dd", "blank"}
MCFold == [t \in MCText |-> CASE t = "News" -> "news" [] t = "NULL" -> "null" [] OTHER -> t]
MCRank == [t \in MCText |-> CASE t = "news" -> 1 [] t = "other" -> 2 [] t = "null" -> 3
                              [] t = "odd odd" -> 4 [] OTHER -> 5]

\* Two characters to be omitted: PostgreSQL only replaces the first.
MCClean ==
    [e \in Engine |-> [t \in MCText |->
        CASE t = "blank" -> None
          [] t = "odd-odd" -> IF e = "postgres" THEN "o dd" ELSE "odd odd"
          [] OTHER -> t]]

Absent == [col \in Column |-> None]
With(filters, limit, sort) == [filters |-> filters, limit |-> limit, sort |-> sort]

Combinations ==
    {[Absent EXCEPT !["title"] = t, !["image_url"] = i, !["feed_url"] = f, !["actual_url"] = a] :
        t \in {None, "News", "odd-odd", "null"}, i \in {None, "url", "null", "NULL", "blank"},
        f \in {None, "url"}, a \in {None, "other", "null", "NULL"}}
Few == {Absent, [Absent EXCEPT !["feed_url"] = "url"], [Absent EXCEPT !["actual_url"] = "null"]}

MCRequest ==
    {With(f, 2, "asc") : f \in Combinations} \cup
    {With(f, l, s) : f \in Few, l \in {None, -1, 0, 1, 2, 9}, s \in {None, "asc", "desc", "other"}}

R(t, i, f, a, d) ==
    [title |-> t, image_url |-> i, feed_url |-> f, actual_url |-> a, publish_date |-> d]
MCTables == {
    {R("news", "url", "url", None, 2), R("other", None, "url", "other", 1),
     R("null", None, "url", None, 1), R("odd odd", "url", "other", "other", 3)},
    {R("News", "null", "url", "other", 1), R("odd odd", None, "url", "null", 1)}}
=============================================================================
