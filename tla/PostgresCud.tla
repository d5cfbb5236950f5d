------------------------------ MODULE PostgresCud ------------------------------
(***************************************************************************)
(* cud_bulk_json_newsfeed on PostgreSQL: one data-modifying statement per  *)
(* call, under READ COMMITTED, committed when the CALL ends.  The          *)
(* statement is not atomic for its competitors: it finds its rows in the   *)
(* snapshot it starts with, then locks and writes them one after another,  *)
(* waiting for whoever holds a row, and a cycle of waits is broken by      *)
(* aborting one of the batches.                                            *)
(*                                                                         *)
(* title is a citext primary key, so an insert collides with any title     *)
(* that differs in case only.  The joins of the update and the delete      *)
(* compare citext with text, and that comparison respects case.            *)
(***************************************************************************)
EXTENDS CudService

VARIABLES
    todo,   \* todo[r]: the items whose row the statement has not tried yet
    seen,   \* seen[r]: the items whose title the statement's snapshot holds
    write   \* write[r][t]: what r has uncommitted for title t, or Untouched

CONSTANT Untouched

ASSUME UntouchedAssumption == Untouched \notin Content \cup {None}

vars == <<job, phase, answer, outcome, reply, table, todo, seen, write>>

NoWrite == [t \in Title |-> Untouched]

Init ==
    /\ ServiceInit
    /\ todo = [r \in Request |-> {}]
    /\ seen = [r \in Request |-> {}]
    /\ write = [r \in Request |-> NoWrite]

RowExists(t) == table[t] # None

\* The lock a write of title t takes: the index entry, or the row it leads
\* to.  Both are one for all the titles that differ from t in case only.
Holds(r, k) ==
    phase[r] = "running" /\ \E t \in Title : Fold[t] = k /\ write[r][t] # Untouched

\* Mutant of Blocker: titles are locked by their exact spelling.
BlockerExact(r, i) ==
    {s \in Request \ {r} : phase[s] = "running" /\ write[s][TitleOf(r, i)] # Untouched}

Blocker(r, i) == {s \in Request \ {r} : Holds(s, Fold[TitleOf(r, i)])}

\* An insert takes the items as they come; the other two statements follow
\* the plan of a join, so any order is possible.
NextItems(r) ==
    IF job[r].mode = "insert"
    THEN {i \in todo[r] : \A k \in todo[r] : i <= k}
    ELSE todo[r]

-----------------------------------------------------------------------------

\* The rows a statement will try.  For an update the snapshot decides which
\* rows exist and differ (IS DISTINCT FROM), for a delete which exist.
Targets(r) ==
    {i \in Items(r) :
        LET t == TitleOf(r, i) IN
        CASE job[r].mode = "insert" -> TRUE
          [] job[r].mode = "update" ->
                 RowExists(t) /\ table[t] # ContentOf(job[r].items[i])
          [] job[r].mode = "delete" -> RowExists(t)}

Begin(r) ==
    /\ Acquire(r)
    /\ todo' = [todo EXCEPT ![r] = Targets(r)]
    /\ seen' = [seen EXCEPT ![r] = {i \in Items(r) : RowExists(TitleOf(r, i))}]
    /\ UNCHANGED write

Put(r, i, row) ==
    write' = [write EXCEPT ![r] = [@ EXCEPT ![TitleOf(r, i)] = row]]

\* Mutants of InsertConflict: a key on text instead of citext, and a check
\* made once, against the table before the statement.
InsertConflictExact(r, i) ==
    RowExists(TitleOf(r, i)) \/ write[r][TitleOf(r, i)] # Untouched
InsertConflictBefore(r, i) ==
    \E t \in Title : Fold[t] = Fold[TitleOf(r, i)] /\ RowExists(t)

\* ON CONFLICT (title) DO NOTHING: a committed row, or an earlier item of
\* the same batch, whose title differs in case at most.
InsertConflict(r, i) ==
    \E t \in Title :
        /\ Fold[t] = Fold[TitleOf(r, i)]
        /\ RowExists(t) \/ write[r][t] # Untouched

InsertItem(r, i) ==
    /\ job[r].mode = "insert"
    /\ IF InsertConflict(r, i)
       THEN UNCHANGED write
       ELSE Put(r, i, ContentOf(job[r].items[i]))

\* Mutant of UpdateItem: feedurl is nullable.
UpdateItemNullable(r, i) ==
    LET t == TitleOf(r, i)
        row == ContentOf(job[r].items[i]) IN
    /\ job[r].mode = "update"
    /\ IF RowExists(t) /\ table[t] # row THEN Put(r, i, row) ELSE UNCHANGED write

\* The lock obtained, the condition is evaluated again on the row as it is
\* now.  feedurl is NOT NULL: AbortOnNull has the other case.
UpdateItem(r, i) ==
    LET t == TitleOf(r, i)
        row == ContentOf(job[r].items[i]) IN
    /\ job[r].mode = "update"
    /\ IF RowExists(t) /\ table[t] # row
       THEN row.feed_url # None /\ Put(r, i, row)
       ELSE UNCHANGED write

DeleteItem(r, i) ==
    /\ job[r].mode = "delete"
    /\ IF RowExists(TitleOf(r, i)) THEN Put(r, i, None) ELSE UNCHANGED write

Execute(r) ==
    /\ phase[r] = "running"
    /\ \E i \in NextItems(r) :
           /\ Blocker(r, i) = {}
           /\ InsertItem(r, i) \/ UpdateItem(r, i) \/ DeleteItem(r, i)
           /\ todo' = [todo EXCEPT ![r] = @ \ {i}]
    /\ UNCHANGED <<job, phase, answer, outcome, reply, table, seen>>

-----------------------------------------------------------------------------
(* The end of the statement.                                               *)

Written(r, i) == write[r][TitleOf(r, i)] # Untouched

\* Mutant of AnswerTo: the batch's commit is every item's success.
AnswerToLegacy(r) == [i \in Items(r) |-> {"done"}]

\* The CASE expressions over the joins with inserted, updated and deleted.
AnswerTo(r) ==
    [i \in Items(r) |->
        {IF Written(r, i) THEN "done"
         ELSE IF job[r].mode = "insert" THEN "exists"
         ELSE IF job[r].mode = "update" /\ i \in seen[r] THEN "exists"
         ELSE "not_found"}]

Forget(r) ==
    /\ write' = [write EXCEPT ![r] = NoWrite]
    /\ seen' = [seen EXCEPT ![r] = {}]

\* A statement still after a row that this commit deletes finds its row
\* version gone and passes over it, whoever inserts the title again.
Orphaned(r, s) ==
    {i \in todo[s] : job[s].mode # "insert" /\ write[r][TitleOf(s, i)] = None}

Commit(r) ==
    /\ phase[r] = "running"
    /\ todo[r] = {}
    /\ table' = [t \in Title |->
                    IF write[r][t] = Untouched THEN table[t] ELSE write[r][t]]
    /\ Finish(r, "committed", AnswerTo(r))
    /\ todo' = [s \in Request |-> todo[s] \ Orphaned(r, s)]
    /\ Forget(r)

\* Mutant of Abort: what was written before the error stays.
AbortPartly(r) ==
    /\ phase[r] = "running"
    /\ table' = [t \in Title |->
                    IF write[r][t] = Untouched THEN table[t] ELSE write[r][t]]
    /\ Finish(r, "aborted", <<>>)
    /\ todo' = [todo EXCEPT ![r] = {}]
    /\ Forget(r)

\* An error in the procedure undoes the whole call.
Abort(r) ==
    /\ phase[r] = "running"
    /\ Finish(r, "aborted", <<>>)
    /\ todo' = [todo EXCEPT ![r] = {}]
    /\ Forget(r)
    /\ UNCHANGED table

\* An update without feed_url, which the handler lets through, meets the
\* NOT NULL column as soon as it has a row to change.
AbortOnNull(r) ==
    /\ phase[r] = "running"
    /\ \E i \in NextItems(r) :
           /\ job[r].mode = "update"
           /\ job[r].items[i].feed_url = None
           /\ Blocker(r, i) = {}
           /\ RowExists(TitleOf(r, i))
    /\ Abort(r)

\* r waits for s: it has an item to try whose lock s holds.
WaitsFor(r, s) == \E i \in NextItems(r) : s \in Blocker(r, i)

\* Mutant of Deadlocked: nobody looks for cycles.
DeadlockedNever(S) == FALSE

\* A set of batches each of which waits for another of the set.
Deadlocked(S) ==
    \A r \in S : /\ \E s \in S : WaitsFor(r, s)
                 /\ \E s \in S : WaitsFor(s, r)

InCycle(r) ==
    \E S \in SUBSET {s \in Request : phase[s] = "running"} : r \in S /\ Deadlocked(S)

\* The database breaks a cycle of waits by aborting a member of it.
AbortOnDeadlock(r) == InCycle(r) /\ Abort(r)

\* The backend dies with the connection.
AbortOnLoss(r) ==
    /\ outcome[r] = "error"
    /\ Abort(r)

-----------------------------------------------------------------------------

EngineStep(r) ==
    Begin(r) \/ Execute(r) \/ Commit(r) \/ AbortOnNull(r) \/ AbortOnDeadlock(r)

RequestStep(r) ==
    \/ ServiceStep(r) /\ UNCHANGED <<todo, seen, write>>
    \/ EngineStep(r)
    \/ AbortOnLoss(r)

\* Every request is over: the system rests.
Terminated ==
    /\ \A r \in Request : phase[r] \notin {"idle", "queued", "running"}
    /\ \A r \in Request : reply[r] # 0
    /\ UNCHANGED vars

Next == (\E r \in Request : RequestStep(r)) \/ Terminated

Spec == Init /\ [][Next]_vars

\* The database keeps working on what it was given and a free connection is
\* handed to a waiting request; nothing is promised about clients.
Answering(r) == Respond(r) /\ UNCHANGED <<todo, seen, write>>

FairSpec ==
    /\ Spec
    /\ \A r \in Request : WF_vars(EngineStep(r)) /\ WF_vars(Answering(r))

-----------------------------------------------------------------------------
(* Properties                                                              *)

TypeOK ==
    /\ ServiceTypeOK
    /\ todo \in [Request -> SUBSET Nat]
    /\ seen \in [Request -> SUBSET Nat]
    /\ write \in [Request -> [Title -> Content \cup {None, Untouched}]]

\* Two batches never hold uncommitted writes of titles that collide.
LocksExclude ==
    \A r, s \in Request, k \in Title : Holds(r, k) /\ Holds(s, k) => r = s

\* What a batch has written and not committed still fits the committed
\* table: an insert's title is free of any collision, and the row an update
\* or delete has locked is still there.
WritesFitTable ==
    \A r \in Request, t \in Title :
        write[r][t] # Untouched =>
            /\ phase[r] = "running"
            /\ IF job[r].mode = "insert"
               THEN /\ write[r][t] # None
                    /\ \A u \in Title : Fold[u] = Fold[t] =>
                          /\ table[u] = None
                          /\ write[r][u] # Untouched => u = t
               ELSE table[t] \notin {None, write[r][t]}

\* What a batch has come to, and the items it has passed over.
Fate(r) ==
    CASE phase[r] = "committed" -> "applied"
      [] phase[r] = "aborted" -> "failed"
      [] OTHER -> "open"

PassedOver(r) ==
    CASE phase[r] = "running" -> {i \in Items(r) \ todo[r] : ~Written(r, i)}
      [] phase[r] = "committed" -> {i \in Items(r) : answer[r][i] # {"done"}}
      [] OTHER -> {}

\* Every batch behaves as FeedStore promises.
Store == INSTANCE FeedStore WITH
    fate <- [r \in Request |-> Fate(r)],
    skipped <- [r \in Request |-> PassedOver(r)]

ImplementsFeedStore == Store!Spec

\* No batch holds its locks, or its connection, for ever: the waits of one
\* batch for another always end.
StatementsEnd == \A r \in Request : phase[r] = "running" ~> phase[r] # "running"

\* A request that waits for a connection is eventually served or told why
\* not.
QueuedAreAnswered == \A r \in Request : phase[r] = "queued" ~> reply[r] # 0

=============================================================================
