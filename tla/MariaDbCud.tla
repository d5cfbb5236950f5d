------------------------------- MODULE MariaDbCud -------------------------------
(***************************************************************************)
(* cud_bulk_json_newsfeed on MariaDB.  The statuses are computed by one    *)
(* statement and the table is changed by the next, each in a transaction   *)
(* of its own, so other requests come between.  The table has no key: a    *)
(* batch that holds two spellings of a new title inserts both.             *)
(***************************************************************************)
EXTENDS StatementCud

VARIABLES
    verdict,   \* verdict[r]: the rows of temp_bulk_results, item by item
    disturbed  \* history: another request has changed the table since then

vars == <<job, phase, answer, outcome, reply, table, stage, verdict, disturbed>>

Init ==
    /\ ServiceInit
    /\ StageInit
    /\ verdict = [r \in Request |-> <<>>]
    /\ disturbed = [r \in Request |-> FALSE]

Begin(r) ==
    /\ Acquire(r)
    /\ stage' = [stage EXCEPT ![r] = "report"]
    /\ UNCHANGED <<verdict, disturbed>>

\* Mutant of RowStatus: an update does not compare the row first.
RowStatusUncompared(mode, row, item) == IF mode = "insert" THEN "exists" ELSE "done"

\* The status of one row of the join of the items with the table.
RowStatus(mode, row, item) ==
    CASE mode = "insert" -> "exists"
      [] mode = "update" -> IF row = ContentOf(item) THEN "exists" ELSE "done"
      [] mode = "delete" -> "done"

\* The status of an item the join finds no row for.
AbsentStatus(mode) == IF mode = "insert" THEN "done" ELSE "not_found"

Verdict(r, i) ==
    LET rows == Matching(table, TitleOf(r, i))
        mode == job[r].mode IN
    IF i \notin Parsed(r) THEN {}
    ELSE IF rows = {} THEN {AbsentStatus(mode)}
    ELSE {RowStatus(mode, table[u], job[r].items[i]) : u \in rows}

\* "Generate statuses before insert", and before update and delete.
Report(r) ==
    /\ Stage(r, "report", "change")
    /\ verdict' = [verdict EXCEPT ![r] = [i \in Items(r) |-> Verdict(r, i)]]
    /\ disturbed' = [disturbed EXCEPT ![r] = FALSE]
    /\ UNCHANGED <<job, phase, answer, outcome, reply, table>>

\* The table after the second statement.  Every row is updated at most once,
\* from any one of the items that match it and differ from it.
Differing(r, u) ==
    {i \in ItemsFor(r, u) : table[u] # ContentOf(job[r].items[i])}

\* WHERE NOT EXISTS looks at the table as it is before this statement, not
\* as it was when the statuses were computed.
Inserted(r, u) ==
    {ContentOf(job[r].items[i]) : i \in {n \in Parsed(r) : TitleOf(r, n) = u}}

\* Mutant of Outcomes: the insert trusts the statuses computed before it.
OutcomesTrusting(r, u) ==
    CASE job[r].mode = "insert" ->
             IF \E i \in Parsed(r) : TitleOf(r, i) = u /\ verdict[r][i] = {"done"}
             THEN Inserted(r, u) ELSE {table[u]}
      [] job[r].mode = "update" -> {table[u]}
      [] job[r].mode = "delete" ->
             IF ItemsFor(r, u) # {} THEN {None} ELSE {table[u]}

Outcomes(r, u) ==
    CASE job[r].mode = "insert" ->
             IF Matching(table, u) # {} \/ Inserted(r, u) = {}
             THEN {table[u]} ELSE Inserted(r, u)
      [] job[r].mode = "update" ->
             IF table[u] = None \/ Differing(r, u) = {}
             THEN {table[u]}
             ELSE {ContentOf(job[r].items[i]) : i \in Differing(r, u)}
      [] job[r].mode = "delete" ->
             IF ItemsFor(r, u) # {} THEN {None} ELSE {table[u]}

NewTables(r) ==
    {f \in [Title -> UNION {Outcomes(r, u) : u \in Title}] :
        \A u \in Title : f[u] \in Outcomes(r, u)}

Change(r) ==
    /\ Stage(r, "change", "none")
    /\ table' \in NewTables(r)
    /\ Finish(r, "committed", verdict[r])
    /\ verdict' = [verdict EXCEPT ![r] = <<>>]
    /\ disturbed' = [s \in Request |->
                        IF s = r THEN FALSE
                        ELSE disturbed[s] \/ (stage[s] = "change" /\ table' # table)]

Fail(r) ==
    /\ FailStatement(r)
    /\ verdict' = [verdict EXCEPT ![r] = <<>>]
    /\ disturbed' = [disturbed EXCEPT ![r] = FALSE]

\* Without an index every statement locks the whole table, and two that run
\* at once can block each other: one is rolled back.
DeadlockVictim(r) == OthersRunning(r) # {} /\ Fail(r)

FailOnLoss(r) == outcome[r] = "error" /\ Fail(r)

RequestStep(r) ==
    \/ ServiceStep(r) /\ UNCHANGED <<stage, verdict, disturbed>>
    \/ Begin(r)
    \/ Report(r)
    \/ Change(r)
    \/ DeadlockVictim(r)
    \/ FailOnLoss(r)

Terminated ==
    /\ \A r \in Request : phase[r] \notin {"idle", "queued", "running"}
    /\ \A r \in Request : reply[r] # 0
    /\ UNCHANGED vars

Next == (\E r \in Request : RequestStep(r)) \/ Terminated

Spec == Init /\ [][Next]_vars

-----------------------------------------------------------------------------
(* Properties                                                              *)

TypeOK ==
    /\ StageTypeOK({"report", "change"})
    /\ verdict \in [Request -> Seq(SUBSET Message)]
    /\ disturbed \in [Request -> BOOLEAN]

\* What the statuses of r say is what r's statement does to the table.
Truthful(r) ==
    \A i \in Parsed(r) :
        LET t == TitleOf(r, i)
            before == Matching(table, t)
            after == Matching(table', t) IN
        /\ verdict[r][i] = {"done"} =>
              CASE job[r].mode = "insert" -> before = {} /\ after # {}
                [] job[r].mode = "update" ->
                       /\ after = before
                       /\ \A u \in before : table'[u] # table[u]
                [] job[r].mode = "delete" -> before # {} /\ after = {}
        /\ verdict[r][i] \subseteq {"exists", "not_found"} =>
              \A u \in Title : Fold[u] = Fold[t] => table'[u] = table[u]

\* A batch whose two statements no other change comes between reports what
\* it does: the race is the only way to a wrong report (of a batch that does
\* not name one title twice).
TruthfulUnlessDisturbed ==
    [][\A r \in Request :
          /\ stage[r] = "change"
          /\ phase'[r] = "committed"
          /\ ~disturbed[r]
          /\ \A i, k \in Items(r) : Fold[TitleOf(r, i)] = Fold[TitleOf(r, k)] => i = k
          => Truthful(r)]_vars

\* Nothing but the insert itself keeps a title single: there is no key, and
\* the status was computed in an earlier transaction.  Even so, two rows
\* whose titles differ in case only always came from one and the same batch.
TwinsFromOneBatch ==
    \A t, u \in Title :
        table[t] # None /\ table[u] # None /\ Fold[t] = Fold[u] /\ t # u =>
            \E r \in Request :
                /\ phase[r] = "committed"
                /\ job[r].mode = "insert"
                /\ {t, u} \subseteq {TitleOf(r, i) : i \in Items(r)}

\* What a batch has come to.
Fate(r) ==
    CASE phase[r] = "committed" -> "applied"
      [] phase[r] = "aborted" -> "failed"
      [] OTHER -> "open"

\* Whatever its statuses say, a batch changes the table once, in one step, by
\* the table as it then is, and not at all if it fails.
Store == INSTANCE StatementStore WITH
    fate <- [r \in Request |-> Fate(r)],
    skipped <- [r \in Request |-> {}],
    OddDate <- {}

ImplementsStatementStore == Store!Spec

=============================================================================
