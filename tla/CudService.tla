------------------------------ MODULE CudService ------------------------------
(***************************************************************************)
(* The life of create, update and delete requests between the client and   *)
(* the database: validation, the wait for a pooled connection, the single  *)
(* procedure call, the answer, and the 60-second timeout that answers 408  *)
(* while the call goes on.  What happens between taking the connection and *)
(* the end of the procedure is an engine's business: the modules           *)
(* PostgresCud, MariaDbCud and MsSqlCud extend this one with it.           *)
(***************************************************************************)
EXTENDS FeedBatch

CONSTANTS
    Request,      \* request identities; each is used for one request
    PoolSize,     \* db_pool_max
    InitialTable  \* the rows present at the start

VARIABLES
    job,      \* job[r]: what request r asks for, None before it arrives
    phase,    \* where r stands on the database side
    answer,   \* answer[r][i]: the messages the procedure gives item i
    outcome,  \* what cud_feed has handed to the handler of r
    reply,    \* the HTTP status r was answered with, 0 while unanswered
    table     \* table[t]: the committed row titled t, or None

serviceVars == <<job, phase, answer, outcome, reply, table>>

\* "gone" is a request that never reached, and never will reach, a procedure.
Phase == {"idle", "queued", "running", "committed", "aborted", "gone"}

ASSUME PoolAssumption == PoolSize \in Nat \ {0}

\* Two present titles never differ in case only.
UniqueIn(tbl) ==
    \A t, u \in Title :
        tbl[t] # None /\ tbl[u] # None /\ Fold[t] = Fold[u] => t = u

ASSUME InitialTableAssumption ==
    /\ InitialTable \in [Title -> Content \cup {None}]
    /\ UniqueIn(InitialTable)

Items(r) == DOMAIN job[r].items
TitleOf(r, i) == job[r].items[i].title

ServiceInit ==
    /\ job = [r \in Request |-> None]
    /\ phase = [r \in Request |-> "idle"]
    /\ answer = [r \in Request |-> <<>>]
    /\ outcome = [r \in Request |-> "none"]
    /\ reply = [r \in Request |-> 0]
    /\ table = InitialTable

-----------------------------------------------------------------------------

\* Mutant of Receive: a refused request is answered and called all the same.
ReceiveWithoutReturn(r, j) ==
    /\ phase[r] = "idle"
    /\ job' = [job EXCEPT ![r] = j]
    /\ phase' = [phase EXCEPT ![r] = "queued"]
    /\ reply' = [reply EXCEPT ![r] = IF Accepted(j) THEN 0 ELSE Rejection(j)]
    /\ UNCHANGED <<answer, outcome, table>>

\* A request arrives: it is refused on the spot, or it waits for a connection.
Receive(r, j) ==
    /\ phase[r] = "idle"
    /\ job' = [job EXCEPT ![r] = j]
    /\ \/ /\ Accepted(j)
          /\ phase' = [phase EXCEPT ![r] = "queued"]
          /\ UNCHANGED reply
       \/ /\ ~Accepted(j)
          /\ phase' = [phase EXCEPT ![r] = "gone"]
          /\ reply' = [reply EXCEPT ![r] = Rejection(j)]
    /\ UNCHANGED <<answer, outcome, table>>

\* Mutant of InUse: the connection of a failed procedure is never returned.
InUseLeaky == {s \in Request : phase[s] \in {"running", "aborted"}}

\* Connections in use.  One lost to an error has left the pool; one whose
\* request was answered 408 stays busy until its statement ends.
InUse == {s \in Request : phase[s] = "running" /\ outcome[s] = "none"}

PoolFull == Cardinality(InUse) >= PoolSize

\* The common part of an engine's first step: a connection is taken.
Acquire(r) ==
    /\ phase[r] = "queued"
    /\ ~PoolFull
    /\ phase' = [phase EXCEPT ![r] = "running"]
    /\ UNCHANGED <<job, answer, outcome, reply, table>>

\* ACQUIRE_TIMEOUT_SECS pass with every connection busy.
AcquireTimeout(r) ==
    /\ phase[r] = "queued"
    /\ PoolFull
    /\ phase' = [phase EXCEPT ![r] = "gone"]
    /\ outcome' = [outcome EXCEPT ![r] = "error"]
    /\ UNCHANGED <<job, answer, reply, table>>

\* The connection breaks under the call: the driver reports an error, while
\* the database may still finish the procedure.
LoseConnection(r) ==
    /\ phase[r] = "running"
    /\ outcome[r] = "none"
    /\ outcome' = [outcome EXCEPT ![r] = "error"]
    /\ UNCHANGED <<job, phase, answer, reply, table>>

\* The common part of an engine's last step: the procedure ends.
Finish(r, end, messages) ==
    /\ phase' = [phase EXCEPT ![r] = end]
    /\ answer' = [answer EXCEPT ![r] = messages]
    /\ outcome' = [outcome EXCEPT ![r] =
                     IF end = "aborted" \/ outcome[r] = "error"
                     THEN "error" ELSE "rows"]
    /\ UNCHANGED <<job, reply>>

\* The handler answers from what cud_feed returned.
Respond(r) ==
    /\ reply[r] = 0
    /\ outcome[r] # "none"
    /\ reply' = [reply EXCEPT ![r] =
                   IF outcome[r] = "error" THEN 500
                   ELSE HttpStatus(job[r].mode, Statuses(answer[r]))]
    /\ UNCHANGED <<job, phase, answer, outcome, table>>

\* The CUD timeout answers 408 and drops the handler.  A request still
\* waiting for a connection is thereby forgotten; a procedure that has been
\* called goes on in the database.
CudTimeout(r) ==
    /\ reply[r] = 0
    /\ phase[r] # "idle"
    /\ reply' = [reply EXCEPT ![r] = 408]
    /\ phase' = [phase EXCEPT ![r] = IF @ = "queued" THEN "gone" ELSE @]
    /\ UNCHANGED <<job, answer, outcome, table>>

ServiceStep(r) ==
    \/ \E j \in Job : Receive(r, j)
    \/ AcquireTimeout(r)
    \/ LoseConnection(r)
    \/ Respond(r)
    \/ CudTimeout(r)

-----------------------------------------------------------------------------
(* Properties every engine is held against.                                *)

ServiceTypeOK ==
    /\ job \in [Request -> Job \cup {None}]
    /\ phase \in [Request -> Phase]
    /\ answer \in [Request -> Seq(SUBSET Message)]
    /\ outcome \in [Request -> {"none", "rows", "error"}]
    /\ reply \in [Request -> {0, 200, 201, 400, 408, 415, 422, 500}]
    /\ table \in [Title -> Content \cup {None}]

\* The table never holds two rows whose titles differ in case only.
UniqueTitle == UniqueIn(table)

Reported(r, mode, k) ==
    /\ job[r] # None
    /\ job[r].mode = mode
    /\ \E i \in DOMAIN answer[r] :
           "done" \in answer[r][i] /\ Fold[TitleOf(r, i)] = k

Present(tbl, k) == IF \E t \in Title : Fold[t] = k /\ tbl[t] # None THEN 1 ELSE 0

\* The books balance on title k when the requests that inserted it outnumber
\* those that deleted it by exactly what the table gained.
Balanced(Did(_, _, _), k) ==
    Cardinality({r \in Request : Did(r, "insert", k)}) + Present(InitialTable, k)
    = Cardinality({r \in Request : Did(r, "delete", k)}) + Present(table, k)

\* The reports add up: however requests interleave, time out or lose their
\* connection, the inserts of a title that reported Success outnumber the
\* deletes that did by exactly what the table gained.  So of any number of
\* inserts racing for one title exactly one reports Success.
Accounting == \A k \in {Fold[t] : t \in Title} : Balanced(Reported, k)

\* 201 Created is only answered when the batch did insert a row, and a 2xx
\* only when the procedure ran to its commit.
CreatedMeansInserted ==
    \A r \in Request :
        /\ reply[r] = 201 =>
               /\ job[r].mode = "insert"
               /\ \E i \in DOMAIN answer[r] : answer[r][i] = {"done"}
        /\ reply[r] \in {200, 201} => phase[r] = "committed"

\* A client that was told 2xx or 4xx (other than 408) has seen the last of
\* its request: only one unanswered, timed out (408) or failed (500) can
\* still be at work in the database.
SettledStaysSettled ==
    [][\A r \in Request :
          reply[r] \notin {0, 408, 500} =>
              phase'[r] = phase[r] /\ answer'[r] = answer[r]]_serviceVars

=============================================================================
