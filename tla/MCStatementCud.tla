----------------------------- MODULE MCStatementCud -----------------------------
(***************************************************************************)
(* Values for the instances of MariaDbCud and MsSqlCud: two titles that    *)
(* differ in case only and a third, URLs and a date of which some are more *)
(* than SQL Server takes, and the batches that can meet over them.         *)
(***************************************************************************)
EXTENDS StatementCud, TLC

MCTitle == {"RUST", "rust", "GO"}
MCFold == [t \in MCTitle |-> IF t = "rust" THEN "RUST" ELSE t]

Of(t, url, image) ==
    [title |-> t, feed_url |-> url, image_url |-> image, publish_date |-> "d"]
Plain(t) == Of(t, "u", None)
OnlyTitle(t) ==
    [title |-> t, feed_url |-> None, image_url |-> None, publish_date |-> None]

Asks(mode, items) == [mode |-> mode, fault |-> "none", items |-> items]

MCJob == {
    Asks("insert", <<Plain("RUST"), Plain("GO")>>),
    Asks("insert", <<Plain("rust"), Of("RUST", "u", "i")>>),
    Asks("update", <<Of("rust", "u", "i"), Of("GO", None, None)>>),
    Asks("delete", <<Plain("RUST"), OnlyTitle("GO")>>),
    [mode |-> "insert", fault |-> "bad_charset", items |-> <<Plain("GO")>>]}

\* A third insert, whose spelling of the title meets another batch's.
MCTwinJob == MCJob \cup {Asks("insert", <<Plain("rust"), Plain("GO")>>)}

OfOddDate(t, url) == [Of(t, url, None) EXCEPT !.publish_date = "odd"]

\* What the handler accepts and SQL Server does not: URLs too long for their
\* columns, and a date that is lost on the way.
MCUnfitJob == {
    Asks("insert", <<Plain("RUST"), Plain("GO")>>),
    Asks("insert", <<Plain("rust"), Of("RUST", "u", "i")>>),
    Asks("insert", <<Of("RUST", "u", "wide"), Of("GO", "long", None)>>),
    Asks("insert", <<OfOddDate("RUST", "u")>>),
    Asks("update", <<Of("rust", "v", "i"), OfOddDate("RUST", "v"), Of("GO", None, None)>>),
    Asks("delete", <<Plain("RUST"), OnlyTitle("GO")>>),
    [mode |-> "insert", fault |-> "bad_charset", items |-> <<Plain("GO")>>]}

\* Inserts that meet over one title.
MCRaceJob == {Asks("insert", <<Plain("RUST")>>)}

\* Requests one at a time are enough for these.
MCDeleteJob == {Asks("insert", <<Plain("RUST")>>),
                Asks("delete", <<OnlyTitle("RUST")>>)}

MCInitialTable ==
    [t \in MCTitle |-> IF t = "GO"
                       THEN ContentOf(Plain(t)) ELSE None]

Symmetry == Permutations(Request)

=============================================================================
