-------------------------------- MODULE MsSqlCud --------------------------------
(***************************************************************************)
(* cud_bulk_json_newsfeed on SQL Server.  The changing statement notes the *)
(* titles it touched (OUTPUT ... INTO), and a later statement turns them   *)
(* into statuses.  The insert first looks which titles are missing and     *)
(* then inserts them, without holding what it looked at: the primary key   *)
(* stops a competitor's title from going in twice, with an error.          *)
(***************************************************************************)
EXTENDS StatementCud

CONSTANTS
    WideUrl,  \* image URLs the handler accepts but nvarchar(255) cannot hold
    LongUrl,  \* feed URLs the handler accepts but nvarchar(768) cannot hold
    OddDate   \* dates the handler accepts but TRY_CAST turns into NULL

ASSUME UnfitAssumption ==
    /\ WideUrl \subseteq ImageUrl
    /\ LongUrl \subseteq FeedUrl
    /\ OddDate \subseteq PublishDate

VARIABLES
    chosen,  \* chosen[r]: the items r's insert has found missing
    touched  \* touched[r]: the rows r's OUTPUT clause noted, kept for good

vars == <<job, phase, answer, outcome, reply, table, stage, chosen, touched>>

Init ==
    /\ ServiceInit
    /\ StageInit
    /\ chosen = [r \in Request |-> {}]
    /\ touched = [r \in Request |-> {}]

Begin(r) ==
    /\ Acquire(r)
    /\ stage' = [stage EXCEPT ![r] = "parse"]
    /\ UNCHANGED <<chosen, touched>>

Fail(r) ==
    /\ FailStatement(r)
    /\ chosen' = [chosen EXCEPT ![r] = {}]
    /\ UNCHANGED touched

TooWide(r) ==
    \E i \in Parsed(r) : \/ job[r].items[i].image_url \in WideUrl
                         \/ job[r].items[i].feed_url \in LongUrl

\* INSERT INTO @parsed.  A URL too long for its column is an error; a date
\* that TRY_CAST does not understand is a NULL in it.
Parse(r) ==
    /\ Stage(r, "parse", IF job[r].mode = "insert" THEN "probe" ELSE "change")
    /\ ~TooWide(r)
    /\ UNCHANGED <<job, phase, answer, outcome, reply, table, chosen, touched>>

FailParse(r) == stage[r] = "parse" /\ TooWide(r) /\ Fail(r)

\* WHERE NOT EXISTS: the read half of the insert.
Probe(r) ==
    /\ Stage(r, "probe", "change")
    /\ chosen' = [chosen EXCEPT ![r] =
                    {i \in Parsed(r) : Matching(table, TitleOf(r, i)) = {}}]
    /\ UNCHANGED <<job, phase, answer, outcome, reply, table, touched>>

\* Mutants of KeyViolation: a case-sensitive collation on the key, and no key.
KeyViolationExact(r) == \E i \in chosen[r] : table[TitleOf(r, i)] # None
KeyViolationNever(r) == FALSE

\* A chosen title is taken by now, or chosen twice: the primary key refuses
\* the statement.
KeyViolation(r) ==
    \E i \in chosen[r] :
        \/ Matching(table, TitleOf(r, i)) # {}
        \/ \E k \in chosen[r] \ {i} : Fold[TitleOf(r, k)] = Fold[TitleOf(r, i)]

Undated(r, i) == job[r].items[i].publish_date \in OddDate

Insert(r) ==
    /\ Stage(r, "change", "answer")
    /\ job[r].mode = "insert"
    /\ ~KeyViolation(r)
    /\ \A i \in chosen[r] : ~Undated(r, i)
    /\ table' = [t \in Title |->
                    IF \E i \in chosen[r] : TitleOf(r, i) = t
                    THEN ContentOf(job[r].items[CHOOSE i \in chosen[r] :
                                                   TitleOf(r, i) = t])
                    ELSE table[t]]
    /\ touched' = [touched EXCEPT ![r] = {TitleOf(r, i) : i \in chosen[r]}]
    /\ chosen' = [chosen EXCEPT ![r] = {}]
    /\ UNCHANGED <<job, phase, answer, outcome, reply>>

\* The key, or the NOT NULL of publish_date, refuses the statement.
FailInsert(r) ==
    /\ stage[r] = "change"
    /\ job[r].mode = "insert"
    /\ KeyViolation(r) \/ \E i \in chosen[r] : Undated(r, i)
    /\ Fail(r)

\* NOT (... AND ...) over comparisons that are unknown when one side is NULL:
\* a URL that appears or disappears does not make a row different, nor does
\* a date that became NULL.
Differs(row, item) ==
    \/ row.feed_url # item.feed_url
    \/ item.publish_date \notin OddDate /\ row.publish_date # item.publish_date
    \/ None \notin {row.image_url, item.image_url} /\ row.image_url # item.image_url

DifferingItems(r, t) ==
    {i \in ItemsFor(r, t) : table[t] # None /\ Differs(table[t], job[r].items[i])}

\* The update; where several items match one row, any of them that has a
\* date to store.
Update(r) ==
    /\ Stage(r, "change", "answer")
    /\ job[r].mode = "update"
    /\ LET rows == {t \in Title : DifferingItems(r, t) # {}} IN
       /\ \E pick \in [rows -> Items(r)] :
              /\ \A t \in rows : pick[t] \in DifferingItems(r, t) /\ ~Undated(r, pick[t])
              /\ table' = [t \in Title |-> IF t \in rows
                                           THEN ContentOf(job[r].items[pick[t]])
                                           ELSE table[t]]
       /\ touched' = [touched EXCEPT ![r] = rows]
    /\ UNCHANGED <<job, phase, answer, outcome, reply, chosen>>

\* publish_date is NOT NULL: taking an item without one fails the statement.
FailUpdate(r) ==
    /\ stage[r] = "change"
    /\ job[r].mode = "update"
    /\ \E t \in Title : \E i \in DifferingItems(r, t) : Undated(r, i)
    /\ Fail(r)

\* Mutant of Delete: the titles asked for are noted, not those deleted.
DeleteNotingAll(r) ==
    /\ Stage(r, "change", "answer")
    /\ job[r].mode = "delete"
    /\ LET rows == UNION {Matching(table, TitleOf(r, i)) : i \in Parsed(r)} IN
       /\ table' = [t \in Title |-> IF t \in rows THEN None ELSE table[t]]
       /\ touched' = [touched EXCEPT ![r] = {TitleOf(r, i) : i \in Parsed(r)}]
    /\ UNCHANGED <<job, phase, answer, outcome, reply, chosen>>

Delete(r) ==
    /\ Stage(r, "change", "answer")
    /\ job[r].mode = "delete"
    /\ LET rows == UNION {Matching(table, TitleOf(r, i)) : i \in Parsed(r)} IN
       /\ table' = [t \in Title |-> IF t \in rows THEN None ELSE table[t]]
       /\ touched' = [touched EXCEPT ![r] = rows]
    /\ UNCHANGED <<job, phase, answer, outcome, reply, chosen>>

\* The statuses, from what was touched and, for an update, from the table as
\* it is by now.
AnswerTo(r) ==
    [i \in Items(r) |->
        IF i \notin Parsed(r) THEN {}
        ELSE IF \E t \in touched[r] : Fold[t] = Fold[TitleOf(r, i)] THEN {"done"}
        ELSE IF job[r].mode = "insert" THEN {"exists"}
        ELSE IF job[r].mode = "update" /\ Matching(table, TitleOf(r, i)) # {}
             THEN {"exists"}
        ELSE {"not_found"}]

Answer(r) ==
    /\ Stage(r, "answer", "none")
    /\ Finish(r, "committed", AnswerTo(r))
    /\ UNCHANGED <<table, chosen, touched>>

\* Statements that lock several rows can block each other.
DeadlockVictim(r) ==
    /\ stage[r] = "change"
    /\ Cardinality(Parsed(r)) > 1
    /\ \E s \in OthersRunning(r) : stage[s] = "change" /\ Cardinality(Parsed(s)) > 1
    /\ Fail(r)

FailOnLoss(r) == outcome[r] = "error" /\ Fail(r)

RequestStep(r) ==
    \/ ServiceStep(r) /\ UNCHANGED <<stage, chosen, touched>>
    \/ Begin(r) \/ Parse(r) \/ FailParse(r) \/ Probe(r)
    \/ Insert(r) \/ FailInsert(r) \/ Update(r) \/ FailUpdate(r) \/ Delete(r)
    \/ Answer(r) \/ DeadlockVictim(r) \/ FailOnLoss(r)

Terminated ==
    /\ \A r \in Request : phase[r] \notin {"idle", "queued", "running"}
    /\ \A r \in Request : reply[r] # 0
    /\ UNCHANGED vars

Next == (\E r \in Request : RequestStep(r)) \/ Terminated

Spec == Init /\ [][Next]_vars

TypeOK ==
    /\ StageTypeOK({"parse", "probe", "change", "answer"})
    /\ chosen \in [Request -> SUBSET Nat]
    /\ touched \in [Request -> SUBSET Title]

Touched(r, mode, k) ==
    /\ job[r] # None
    /\ job[r].mode = mode
    /\ \E t \in touched[r] : Fold[t] = k

\* The changes add up, and no request reports one it has not made.  (One it
\* made may go unreported: the connection can be lost before the answer.)
TouchAccounting ==
    \A k \in {Fold[t] : t \in Title} :
        /\ Balanced(Touched, k)
        /\ \A r \in Request, mode \in Mode : Reported(r, mode, k) => Touched(r, mode, k)

\* What a batch has come to, and the items its insert has found taken.
Fate(r) ==
    CASE phase[r] = "committed" \/ stage[r] = "answer" -> "applied"
      [] phase[r] = "aborted" -> "failed"
      [] OTHER -> "open"

FoundTaken(r) ==
    IF stage[r] = "change" /\ job[r].mode = "insert" THEN Parsed(r) \ chosen[r] ELSE {}

\* A batch changes the table once, in one step, by the table as it then is; a
\* row inserted since the probe makes it fail.  The change of one that fails
\* between it and its answer stays.
Store == INSTANCE StatementStore WITH
    fate <- [r \in Request |-> Fate(r)],
    skipped <- [r \in Request |-> FoundTaken(r)]

ImplementsStatementStore == Store!Spec

=============================================================================
