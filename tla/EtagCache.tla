------------------------------- MODULE EtagCache -------------------------------
(***************************************************************************)
(* GET /api/v1/newsfeed with If-None-Match, next to batches that change    *)
(* the table.  The handler makes its ETag from MAX(modified_date) and the  *)
(* query, in one statement; runs the query in another; and falls back to a *)
(* hash of the body when the first gave it nothing.  A batch stamps its    *)
(* rows with the time at which its transaction or statement began, and     *)
(* they appear when it commits.  Hashes are taken to be free of collisions *)
(* and a query to be a filter on titles: limit and order pick from the     *)
(* same rows, and are part of the query in the ETag.                       *)
(***************************************************************************)
EXTENDS Integers, FiniteSets

CONSTANTS
    Client, Writer, Title, Content,
    Query,     \* Query: the sets of titles a filter can match
    None,
    InitialTable,
    MaxClock   \* bound: the last tick of the database's clock

Stamp == 0..MaxClock
Row == [content : Content, stamp : Stamp]
Body == UNION {[T -> Content] : T \in SUBSET Title}

DateTags == [date : Stamp, query : Query]
BodyTags == [body : Body]

\* What a client asks for, and the copy it may hold.
Asked == [query : Query, tag : DateTags \cup BodyTags \cup {None}]
Copy == [tag : DateTags \cup BodyTags, query : Query, body : Body]

ASSUME EtagAssumption ==
    /\ MaxClock \in Nat
    /\ Query \subseteq SUBSET Title
    /\ None \notin Row \cup Stamp \cup DateTags \cup BodyTags
    /\ None \notin Asked /\ None \notin Copy
    /\ InitialTable \in [Title -> Row \cup {None}]

VARIABLES
    clock,    \* the database's clock, in steps as coarse as its timestamps
    table,    \* table[t]: the content and modified_date of the row, or None
    started,  \* started[w]: CURRENT_TIMESTAMP for the batch of w, or None
    asked,    \* asked[c]: the query and the If-None-Match of c's request
    tag,      \* tag[c]: db_etag of the handler of c's request
    phase,    \* where that handler stands
    reply,    \* the status of c's latest answer, 0 while there is none
    cache,    \* cache[c]: the ETag and body of the latest 200 c was sent
    peak,     \* history: the newest modified_date there ever was
    blind     \* history: the dates some change left or put at the maximum
              \* although the maximum had been there, or higher, before

dbVars == <<clock, table, started, peak, blind>>
vars == <<clock, table, started, asked, tag, phase, reply, cache, peak, blind>>

Present(tbl) == {t \in Title : tbl[t] # None}

\* Mutant of Latest: the NULL of an empty table is taken for a date.
LatestCoalesced(tbl) ==
    IF Present(tbl) = {} THEN -1
    ELSE CHOOSE s \in {tbl[t].stamp : t \in Present(tbl)} :
             \A t \in Present(tbl) : tbl[t].stamp <= s

\* SELECT MAX(modified_date): None, SQL's NULL, on an empty table.
Latest(tbl) ==
    IF Present(tbl) = {} THEN None
    ELSE CHOOSE s \in {tbl[t].stamp : t \in Present(tbl)} :
             \A t \in Present(tbl) : tbl[t].stamp <= s

\* The rows a query gives.  modified_date is not among the columns.
View(q, tbl) == [t \in q \cap Present(tbl) |-> tbl[t].content]

\* The same as a number, -1 before every date.
Newest(tbl) == IF Latest(tbl) = None THEN -1 ELSE Latest(tbl)

\* Mutant of DateTag: the query is not hashed.
DateTagWithoutQuery(date, q) == [date |-> date, query |-> CHOOSE p \in Query : TRUE]

DateTag(date, q) == [date |-> date, query |-> q]
BodyTag(b) == [body |-> b]

Init ==
    /\ clock = 0
    /\ table = InitialTable
    /\ started = [w \in Writer |-> None]
    /\ asked = [c \in Client |-> None]
    /\ tag = [c \in Client |-> None]
    /\ phase = [c \in Client |-> "idle"]
    /\ reply = [c \in Client |-> 0]
    /\ cache = [c \in Client |-> None]
    /\ peak = Newest(InitialTable)
    /\ blind = {}

-----------------------------------------------------------------------------
(* The database, and the batches that change it                            *)

Tick ==
    /\ clock < MaxClock
    /\ clock' = clock + 1
    /\ UNCHANGED <<table, started, asked, tag, phase, reply, cache, peak, blind>>

BatchBegins(w) ==
    /\ started[w] = None
    /\ started' = [started EXCEPT ![w] = clock]
    /\ UNCHANGED <<clock, table, asked, tag, phase, reply, cache, peak, blind>>

\* What one batch can make of the table: it inserts, updates or deletes.  A
\* row whose content stays is not updated, and keeps its modified_date.
Inserted(s, contents) ==
    [t \in Title |-> IF t \in DOMAIN contents \ Present(table)
                     THEN [content |-> contents[t], stamp |-> s] ELSE table[t]]

\* Mutant of Updated: the row keeps its modified_date.
UpdatedUnstamped(s, contents) ==
    [t \in Title |-> IF t \in DOMAIN contents \cap Present(table)
                     THEN [table[t] EXCEPT !.content = contents[t]] ELSE table[t]]

Updated(s, contents) ==
    [t \in Title |-> IF /\ t \in DOMAIN contents \cap Present(table)
                        /\ table[t].content # contents[t]
                     THEN [content |-> contents[t], stamp |-> s] ELSE table[t]]
Deleted(titles) == [t \in Title |-> IF t \in titles THEN None ELSE table[t]]

Commit(w) ==
    /\ started[w] # None
    /\ started' = [started EXCEPT ![w] = None]
    /\ \E contents \in Body :
          table' \in {Inserted(started[w], contents), Updated(started[w], contents),
                      Deleted(DOMAIN contents)}
    /\ LET date == Newest(table') IN
       /\ peak' = IF date > peak THEN date ELSE peak
       /\ blind' = IF table' # table /\ date <= peak THEN blind \cup {date} ELSE blind
    /\ UNCHANGED <<clock, asked, tag, phase, reply, cache>>

-----------------------------------------------------------------------------
(* The handler                                                             *)

\* A client may send the ETag it was given last, whatever it asks for now.
IfNoneMatch(c) == {None} \cup (IF cache[c] = None THEN {} ELSE {cache[c].tag})

Get(c) ==
    /\ phase[c] = "idle"
    /\ \E q \in Query, t \in IfNoneMatch(c) :
          asked' = [asked EXCEPT ![c] = [query |-> q, tag |-> t]]
    /\ phase' = [phase EXCEPT ![c] = "called"]
    /\ reply' = [reply EXCEPT ![c] = 0]
    /\ UNCHANGED <<dbVars, tag, cache>>

Respond(c, status) ==
    /\ phase' = [phase EXCEPT ![c] = "idle"]
    /\ reply' = [reply EXCEPT ![c] = status]
    /\ asked' = [asked EXCEPT ![c] = None]
    /\ tag' = [tag EXCEPT ![c] = None]

\* validate_headers refuses the Accept header.
RefuseHeaders(c) ==
    /\ phase[c] = "called"
    /\ Respond(c, 400)
    /\ UNCHANGED <<dbVars, cache>>

\* max_modified_date answers: 304 at once, or go on with this ETag.
ReadDate(c) ==
    /\ phase[c] = "called"
    /\ Latest(table) # None
    /\ LET fresh == DateTag(Latest(table), asked[c].query) IN
       \/ /\ asked[c].tag = fresh
          /\ Respond(c, 304)
       \/ /\ asked[c].tag # fresh
          /\ tag' = [tag EXCEPT ![c] = fresh]
          /\ phase' = [phase EXCEPT ![c] = "extract"]
          /\ UNCHANGED <<asked, reply>>
    /\ UNCHANGED <<dbVars, cache>>

\* max_modified_date fails, or the table is empty: db_etag stays None.
NoDate(c) ==
    /\ phase[c] = "called"
    /\ phase' = [phase EXCEPT ![c] = "extract"]
    /\ UNCHANGED <<dbVars, asked, tag, reply, cache>>

\* extract_feed answers.
Extract(c) ==
    /\ phase[c] = "extract"
    /\ LET body == View(asked[c].query, table)
           etag == IF tag[c] = None THEN BodyTag(body) ELSE tag[c] IN
       \/ /\ asked[c].tag = etag
          /\ Respond(c, 304)
          /\ UNCHANGED cache
       \/ /\ asked[c].tag # etag
          /\ Respond(c, 200)
          /\ cache' = [cache EXCEPT ![c] =
                          [tag |-> etag, query |-> asked[c].query, body |-> body]]
    /\ UNCHANGED dbVars

\* extract_feed fails.
ExtractFails(c) ==
    /\ phase[c] = "extract"
    /\ Respond(c, 500)
    /\ UNCHANGED <<dbVars, cache>>

\* TimeoutLayer drops the handler.
TimeOut(c) ==
    /\ phase[c] # "idle"
    /\ Respond(c, 408)
    /\ UNCHANGED <<dbVars, cache>>

ClientStep(c) ==
    \/ Get(c)
    \/ RefuseHeaders(c)
    \/ ReadDate(c)
    \/ NoDate(c)
    \/ Extract(c)
    \/ ExtractFails(c)
    \/ TimeOut(c)

WriterStep(w) == BatchBegins(w) \/ Commit(w)

Next ==
    \/ Tick
    \/ \E w \in Writer : WriterStep(w)
    \/ \E c \in Client : ClientStep(c)

Spec == Init /\ [][Next]_vars

-----------------------------------------------------------------------------
(* Properties                                                              *)

TypeOK ==
    /\ clock \in Stamp
    /\ table \in [Title -> Row \cup {None}]
    /\ started \in [Writer -> Stamp \cup {None}]
    /\ asked \in [Client -> Asked \cup {None}]
    /\ tag \in [Client -> DateTags \cup {None}]
    /\ phase \in [Client -> {"idle", "called", "extract"}]
    /\ reply \in [Client -> {0, 200, 304, 400, 408, 500}]
    /\ cache \in [Client -> Copy \cup {None}]
    /\ peak \in Stamp \cup {-1}
    /\ blind \subseteq Stamp \cup {-1}

Answered(c, status) == phase[c] # "idle" /\ phase'[c] = "idle" /\ reply'[c] = status

\* Whoever gets a 304 holds the body a 200 would have carried, unless the
\* newest date is a blind one: a change was committed that did not push it
\* past every date before (a delete of any row, a batch that began before
\* the newest one, a second batch of the same tick).  In all other cases no
\* order of the handler's two reads and the commits goes wrong: the body may
\* be newer than the ETag it is sent with, never older.
NotModifiedIsTrue ==
    [][\A c \in Client : Answered(c, 304) =>
          \/ cache[c].body = View(asked[c].query, table)
          \/ Latest(table) \in blind]_vars

\* And a change is never blind when it comes from a batch that began after
\* the newest date there ever was and deletes nothing.
FreshChangeIsSeen ==
    [][\A w \in Writer :
          /\ started[w] # None
          /\ started'[w] = None
          /\ started[w] > peak
          /\ Present(table) \subseteq Present(table')
          => blind' = blind]_vars

\* While nothing is written, a client that asks again for what it holds and
\* sends the ETag it came with is not sent it again.
RepeatIsNotModified ==
    [][\A c \in Client :
          /\ Writer = {}
          /\ Answered(c, 200)
          /\ asked[c].tag # None
          => asked[c].query # cache[c].query]_vars

=============================================================================
