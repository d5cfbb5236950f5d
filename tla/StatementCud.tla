------------------------------ MODULE StatementCud ------------------------------
(***************************************************************************)
(* What the MariaDB and SQL Server versions of cud_bulk_json_newsfeed have *)
(* in common: several statements, each committed by itself, over the items *)
(* that survive the filter both apply first; and titles compared without   *)
(* case throughout.  A statement is atomic here: it keeps its row locks to *)
(* its end, and that is its commit.                                        *)
(***************************************************************************)
EXTENDS CudService

VARIABLE stage  \* stage[r]: the statement r's procedure runs next, or "none"

StageInit == stage = [r \in Request |-> "none"]

\* Mutant of Parsed: no filter.
ParsedAll(r) == Items(r)

\* The filter on the parsed payload.  It asks for feed_url and publish_date
\* in every mode, also where the handler does not require them.
Parsed(r) ==
    {i \in Items(r) : /\ job[r].items[i].feed_url # None
                      /\ job[r].items[i].publish_date # None}

\* The rows that a join on title finds.
Matching(tbl, t) == {u \in Title : Fold[u] = Fold[t] /\ tbl[u] # None}

\* The items of the batch whose title matches that of row u.
ItemsFor(r, u) == {i \in Parsed(r) : Fold[TitleOf(r, i)] = Fold[u]}

OthersRunning(r) == {s \in Request \ {r} : phase[s] = "running"}

\* Statement `from` of r's procedure is due, and `to` is next.
Stage(r, from, to) ==
    /\ phase[r] = "running"
    /\ stage[r] = from
    /\ stage' = [stage EXCEPT ![r] = to]

\* The statement under way fails; what earlier statements did stays.
FailStatement(r) ==
    /\ phase[r] = "running"
    /\ stage' = [stage EXCEPT ![r] = "none"]
    /\ Finish(r, "aborted", <<>>)
    /\ UNCHANGED table

StageTypeOK(S) == ServiceTypeOK /\ stage \in [Request -> S \cup {"none"}]

\* A validated item is never lost without a word: when the procedure has
\* ended well, each item of the batch has a status.
EveryItemAnswered ==
    \A r \in Request : phase[r] = "committed" =>
        \A i \in Items(r) : answer[r][i] # {}

\* Of the requests that insert a title nobody deletes, at most one reports
\* that it did.
OneInsertWins ==
    \A k \in {Fold[t] : t \in Title} :
        (\A r \in Request : job[r] # None => job[r].mode # "delete") =>
            Cardinality({r \in Request : Reported(r, "insert", k)}) <= 1

\* An insert fails in the database only when its connection is lost: meeting
\* another insert of the same title is no error.
InsertsMeetWithoutError ==
    [][\A r \in Request :
          phase[r] = "running" /\ phase'[r] = "aborted" /\ job[r].mode = "insert"
              => outcome[r] = "error"]_<<serviceVars, stage>>

=============================================================================
