----------------------------- MODULE MCPostgresCud -----------------------------
(***************************************************************************)
(* A small instance of PostgresCud: two titles that differ in case only    *)
(* and a third, one feed URL and date, an image that may be missing, and   *)
(* batches of one or two items that meet in every way: the same rows in    *)
(* opposite orders, inserts racing deletes of the same title, a batch that *)
(* collides with itself, an update that breaks the NOT NULL column.        *)
(***************************************************************************)
EXTENDS PostgresCud, TLC

MCTitle == {"RUST", "rust", "GO"}
MCFold == [t \in MCTitle |-> IF t = "rust" THEN "RUST" ELSE t]

Of(t, url, image) ==
    [title |-> t, feed_url |-> url, image_url |-> image, publish_date |-> "d"]
Plain(t) == Of(t, "u", None)
OnlyTitle(t) ==
    [title |-> t, feed_url |-> None, image_url |-> None, publish_date |-> None]

Asks(mode, items) == [mode |-> mode, fault |-> "none", items |-> items]

MCJob == {
    Asks("insert", <<Of("GO", "u", "i"), Plain("RUST")>>),
    Asks("insert", <<Plain("rust"), Plain("RUST")>>),
    Asks("update", <<Of("RUST", "u", "i"), Of("GO", "u", "i")>>),
    Asks("update", <<Of("RUST", "u", None), Of("GO", None, "i")>>),
    Asks("delete", <<OnlyTitle("GO"), OnlyTitle("RUST")>>),
    Asks("insert", <<Plain("GO"), Plain("GO")>>)}

\* For liveness: batches that delete two rows in any order, so that any two
\* of them can wait for each other.
MCOneJob == {Asks("delete", <<OnlyTitle("GO"), OnlyTitle("RUST")>>)}

MCInitialTable ==
    [t \in MCTitle |-> IF t = "GO" THEN ContentOf(Plain(t)) ELSE None]
MCBothPresent ==
    [t \in MCTitle |-> IF t = "rust" THEN None ELSE ContentOf(Plain(t))]

Symmetry == Permutations(Request)

=============================================================================
