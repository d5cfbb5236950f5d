--------------------------- MODULE EtagCache_proofs ---------------------------
(***************************************************************************)
(* Proofs about EtagCache for any clients, batches, titles, queries and    *)
(* clock.                                                                  *)
(*                                                                         *)
(* That a 304 is true needs what an ETag says of a copy: as long as its    *)
(* date is the newest and not blind, the copy is what the table holds      *)
(* (CopyIsTrue).  A commit keeps that because no date a client holds, or a *)
(* handler is about to send, is beyond the peak.                           *)
(***************************************************************************)
EXTENDS EtagCache, WellFoundedInduction, TLAPS

-----------------------------------------------------------------------------
(* Dates                                                                   *)

\* Every set of dates that is not empty has a newest one.
LEMMA NewestExists ==
    ASSUME NEW S, S \subseteq Stamp, S # {}
    PROVE  \E s \in S : \A n \in S : n <= s
<1> USE EtagAssumption DEF Stamp
<1> DEFINE R == OpToRel(<, Nat)
           Mirror == {MaxClock - s : s \in S}
<1>1. IsWellFoundedOn(R, Nat)
    BY NatLessThanWellFounded
<1>2. \A x, y \in Nat : x < y => <<x, y>> \in R
    BY DEF OpToRel
<1>3. Mirror \subseteq Nat /\ Mirror # {}
    <2>1. \A s \in S : MaxClock - s \in Nat
        OBVIOUS
    <2>2. PICK s \in S : TRUE
        OBVIOUS
    <2>3. MaxClock - s \in Mirror
        OBVIOUS
    <2> QED
        BY <2>1, <2>3
<1>4. \A s \in S : MaxClock - s \in Mirror
    OBVIOUS
<1>5. \A m \in Mirror : \E s \in S : m = MaxClock - s
    OBVIOUS
<1> HIDE DEF R, Mirror
<1>6. PICK m \in Mirror : \A n \in Mirror : ~(<<n, m>> \in R)
    BY <1>1, <1>3, WFMin
<1>7. PICK s \in S : m = MaxClock - s
    BY <1>5
<1>8. \A n \in S : ~(MaxClock - n < MaxClock - s)
    BY <1>2, <1>3, <1>4, <1>6, <1>7
<1>9. \A n \in S : n <= s
    BY <1>8
<1> QED
    BY <1>9

Tables == [Title -> Row \cup {None}]

\* MAX(modified_date) is the date of a row, and no row has a later one.
LEMMA LatestIsNewest ==
    ASSUME NEW tbl \in Tables
    PROVE  /\ Present(tbl) = {} => Latest(tbl) = None /\ Newest(tbl) = -1
           /\ Present(tbl) # {} => /\ Latest(tbl) \in Stamp
                                   /\ Latest(tbl) # None
                                   /\ Newest(tbl) = Latest(tbl)
           /\ \A t \in Present(tbl) : tbl[t].stamp \in Stamp /\ tbl[t].stamp <= Newest(tbl)
<1> DEFINE S == {tbl[t].stamp : t \in Present(tbl)}
<1>1. \A t \in Present(tbl) : tbl[t] \in Row /\ tbl[t].stamp \in Stamp
    BY DEF Tables, Present, Row
<1>2. CASE Present(tbl) = {}
    BY <1>2 DEF Latest, Newest
<1>3. CASE Present(tbl) # {}
    <2>1. S \subseteq Stamp /\ S # {}
        BY <1>1, <1>3
    <2>2. PICK s \in S : \A n \in S : n <= s
        BY <2>1, NewestExists
    <2>3. \E x \in S : \A t \in Present(tbl) : tbl[t].stamp <= x
        BY <2>2
    <2>4. /\ Latest(tbl) \in S
          /\ \A t \in Present(tbl) : tbl[t].stamp <= Latest(tbl)
        BY <1>3, <2>3 DEF Latest
    <2>5. Latest(tbl) # None
        BY <2>1, <2>4, EtagAssumption
    <2> QED
        BY <1>1, <1>3, <2>1, <2>4, <2>5 DEF Newest
<1> QED
    BY <1>2, <1>3

-----------------------------------------------------------------------------
(* The invariant                                                           *)

\* What the ETag of c's copy says of it.
CopyIsTrue(c) ==
    cache[c] # None =>
        /\ \A b \in Body : cache[c].tag = BodyTag(b) => cache[c].body = b
        /\ \A d \in Stamp, q \in Query : cache[c].tag = DateTag(d, q) =>
              /\ cache[c].query = q
              /\ d <= peak
              /\ d = Newest(table) /\ d \notin blind => cache[c].body = View(q, table)

\* What the handler of c's request has in hand.
HandlerInOrder(c) ==
    /\ phase[c] # "idle" => asked[c] # None
    /\ phase[c] # "idle" /\ asked[c].tag # None =>
          cache[c] # None /\ asked[c].tag = cache[c].tag
    /\ phase[c] # "extract" => tag[c] = None
    /\ tag[c] # None => /\ tag[c] # asked[c].tag
                        /\ tag[c].query = asked[c].query
                        /\ tag[c].date <= peak

IInv ==
    /\ TypeOK
    /\ Newest(table) <= peak
    /\ \A c \in Client : CopyIsTrue(c) /\ HandlerInOrder(c)

\* At the start nobody holds or asks for anything.
LEMMA InitInv == Init => IInv
<1> SUFFICES ASSUME Init PROVE IInv
    OBVIOUS
<1> USE DEF Init
<1>1. table \in Tables
    BY EtagAssumption DEF Tables
<1>2. Newest(table) \in Stamp \cup {-1}
    BY <1>1, LatestIsNewest
<1>3. 0 \in Stamp
    BY EtagAssumption DEF Stamp
<1>4. TypeOK
    BY <1>1, <1>2, <1>3 DEF TypeOK, Tables
<1>5. Newest(table) <= peak
    BY <1>2, EtagAssumption DEF Stamp
<1>6. ASSUME NEW c \in Client PROVE CopyIsTrue(c) /\ HandlerInOrder(c)
    BY DEF CopyIsTrue, HandlerInOrder
<1> QED
    BY <1>4, <1>5, <1>6 DEF IInv

\* What a query gives is a body.
LEMMA ViewIsBody ==
    ASSUME NEW tbl \in Tables, NEW q \in Query
    PROVE  View(q, tbl) \in Body
<1>1. \A t \in q \cap Present(tbl) : tbl[t].content \in Content
    BY DEF Tables, Present, Row
<1>2. q \cap Present(tbl) \in SUBSET Title
    BY EtagAssumption
<1>3. View(q, tbl) \in [q \cap Present(tbl) -> Content]
    BY <1>1 DEF View
<1> QED
    BY <1>2, <1>3 DEF Body

-----------------------------------------------------------------------------
(* Commits                                                                 *)

\* A batch leaves a table, and what it leaves in a changed row bears its date.
LEMMA CommitShape ==
    ASSUME TypeOK, NEW w \in Writer, Commit(w)
    PROVE  /\ started[w] \in Stamp
           /\ table' \in Tables
           /\ started' \in [Writer -> Stamp \cup {None}]
           /\ Newest(table') \in Stamp \cup {-1}
           /\ \A t \in Title : table'[t] # table[t] =>
                 \/ table'[t] = None /\ table[t] # None
                 \/ table'[t] # None /\ table'[t].stamp = started[w]
<1> USE DEF TypeOK
<1>1. started[w] \in Stamp /\ started' \in [Writer -> Stamp \cup {None}]
    BY DEF Commit
<1>2. PICK contents \in Body :
          table' \in {Inserted(started[w], contents), Updated(started[w], contents),
                      Deleted(DOMAIN contents)}
    BY DEF Commit
<1>3. \A t \in DOMAIN contents :
          /\ [content |-> contents[t], stamp |-> started[w]] \in Row
          /\ [content |-> contents[t], stamp |-> started[w]] # None
    BY <1>1, EtagAssumption DEF Body, Row
<1>4. CASE table' = Inserted(started[w], contents)
    BY <1>1, <1>3, <1>4, LatestIsNewest DEF Inserted, Tables, Present
<1>5. CASE table' = Updated(started[w], contents)
    BY <1>1, <1>3, <1>5, LatestIsNewest DEF Updated, Tables, Present
<1>6. CASE table' = Deleted(DOMAIN contents)
    BY <1>1, <1>6, LatestIsNewest DEF Deleted, Tables
<1> QED
    BY <1>2, <1>4, <1>5, <1>6

\* A commit keeps the invariant: a changed table has a blind newest date, or
\* one that is newer than every copy.
LEMMA CommitKeepsInv ==
    ASSUME IInv, NEW w \in Writer, Commit(w)
    PROVE  IInv'
<1> USE DEF IInv
<1>1. /\ table' \in Tables
      /\ started' \in [Writer -> Stamp \cup {None}]
      /\ Newest(table') \in Stamp \cup {-1}
    BY CommitShape
<1>2. /\ peak' = IF Newest(table') > peak THEN Newest(table') ELSE peak
      /\ blind' = IF table' # table /\ Newest(table') <= peak
                  THEN blind \cup {Newest(table')} ELSE blind
      /\ UNCHANGED <<clock, asked, tag, phase, reply, cache>>
    BY DEF Commit
<1>3. TypeOK'
    BY <1>1, <1>2 DEF TypeOK, Tables
<1>4. peak \in Int /\ peak' \in Int /\ peak <= peak' /\ Newest(table') <= peak'
    BY <1>1, <1>2, EtagAssumption DEF TypeOK, Stamp
<1>5. ASSUME NEW c \in Client PROVE HandlerInOrder(c)'
    <2>1. HandlerInOrder(c) /\ (tag[c] # None => tag[c].date \in Int)
        BY EtagAssumption DEF TypeOK, DateTags, Stamp
    <2> QED
        BY <1>2, <1>4, <2>1 DEF HandlerInOrder
<1>6. ASSUME NEW c \in Client PROVE CopyIsTrue(c)'
    <2> SUFFICES ASSUME cache[c] # None, NEW d \in Stamp, NEW q \in Query,
                        cache[c].tag = DateTag(d, q)
                 PROVE  /\ cache[c].query = q
                        /\ d <= peak'
                        /\ d = Newest(table') /\ d \notin blind' =>
                              cache[c].body = View(q, table')
        BY <1>2 DEF CopyIsTrue
    <2>1. /\ cache[c].query = q
          /\ d <= peak
          /\ d = Newest(table) /\ d \notin blind => cache[c].body = View(q, table)
        BY DEF CopyIsTrue
    <2>2. d \in Int
        BY EtagAssumption DEF Stamp
    <2>3. CASE table' = table
        BY <1>2, <1>4, <2>1, <2>2, <2>3
    <2>4. CASE table' # table
        BY <1>1, <1>2, <1>4, <2>1, <2>2, <2>4
    <2> QED
        BY <2>3, <2>4
<1> QED
    BY <1>3, <1>4, <1>5, <1>6

-----------------------------------------------------------------------------
(* Requests                                                                *)

\* A step of one client leaves the others as they are.
LEMMA OthersKeep ==
    ASSUME IInv, NEW c \in Client, NEW e \in Client, e # c,
           UNCHANGED dbVars,
           asked'[e] = asked[e], tag'[e] = tag[e], phase'[e] = phase[e],
           cache'[e] = cache[e]
    PROVE  CopyIsTrue(e)' /\ HandlerInOrder(e)'
BY DEF IInv, CopyIsTrue, HandlerInOrder, dbVars

\* A step of one client keeps the types.
LEMMA ClientTypes ==
    ASSUME IInv, NEW c \in Client, ClientStep(c)
    PROVE  TypeOK' /\ UNCHANGED dbVars
<1> USE DEF IInv, TypeOK
<1>0. phase[c] # "idle" => asked[c] \in Asked
    BY DEF HandlerInOrder
<1>1. UNCHANGED dbVars
    BY DEF ClientStep, Get, RefuseHeaders, ReadDate, NoDate, Extract, ExtractFails, TimeOut
<1>2. ASSUME NEW status \in {200, 304, 400, 408, 500}, Respond(c, status)
      PROVE  /\ asked' \in [Client -> Asked \cup {None}]
             /\ tag' \in [Client -> DateTags \cup {None}]
             /\ phase' \in [Client -> {"idle", "called", "extract"}]
             /\ reply' \in [Client -> {0, 200, 304, 400, 408, 500}]
    BY <1>2 DEF Respond
<1>3. CASE Get(c)
    <2>1. \A q \in Query, t \in IfNoneMatch(c) : [query |-> q, tag |-> t] \in Asked
        <3>1. \A t \in IfNoneMatch(c) : t \in DateTags \cup BodyTags \cup {None}
            BY DEF IfNoneMatch, Copy
        <3> QED
            BY <3>1 DEF Asked
    <2>2. asked' \in [Client -> Asked \cup {None}]
        BY <1>3, <2>1 DEF Get
    <2> QED
        BY <1>3, <2>2 DEF Get, dbVars
<1>4. CASE RefuseHeaders(c) \/ ExtractFails(c) \/ TimeOut(c)
    BY <1>2, <1>4 DEF RefuseHeaders, ExtractFails, TimeOut, dbVars
<1>5. CASE NoDate(c)
    BY <1>5 DEF NoDate, dbVars
<1>6. CASE ReadDate(c)
    <2>1. Latest(table) \in Stamp
        BY <1>6, LatestIsNewest DEF ReadDate, Tables
    <2>2. DateTag(Latest(table), asked[c].query) \in DateTags
        BY <1>0, <1>6, <2>1 DEF ReadDate, DateTag, DateTags, Asked
    <2> HIDE DEF TypeOK
    <2>3. CASE Respond(c, 304)
        BY <1>2, <1>6, <2>3 DEF ReadDate, dbVars, TypeOK
    <2>4. CASE ~Respond(c, 304)
        BY <1>6, <2>2, <2>4 DEF ReadDate, dbVars, TypeOK
    <2> QED
        BY <2>3, <2>4
<1>7. CASE Extract(c)
    <2> DEFINE body == View(asked[c].query, table)
               etag == IF tag[c] = None THEN BodyTag(body) ELSE tag[c]
    <2>1. asked[c] \in Asked
        BY <1>0, <1>7 DEF Extract
    <2>2. body \in Body
        BY <2>1, ViewIsBody DEF Asked, Tables
    <2>3. etag \in DateTags \cup BodyTags
        BY <2>2 DEF BodyTag, BodyTags
    <2>4. [tag |-> etag, query |-> asked[c].query, body |-> body] \in Copy
        BY <2>1, <2>2, <2>3 DEF Copy, Asked
    <2> HIDE DEF body, etag, TypeOK
    <2>5. /\ Respond(c, 304) \/ Respond(c, 200)
          /\ \/ UNCHANGED cache
             \/ cache' = [cache EXCEPT ![c] =
                             [tag |-> etag, query |-> asked[c].query, body |-> body]]
        BY <1>7 DEF Extract, body, etag
    <2>6. cache' \in [Client -> Copy \cup {None}]
        BY <2>4, <2>5 DEF TypeOK
    <2> QED
        BY <1>1, <1>2, <2>5, <2>6 DEF TypeOK, dbVars
<1> QED
    BY <1>1, <1>3, <1>4, <1>5, <1>6, <1>7 DEF ClientStep

\* An ETag made from a date is none made from a body.
LEMMA TagsDiffer ==
    ASSUME NEW d, NEW q, NEW b
    PROVE  DateTag(d, q) # BodyTag(b)
<1> SUFFICES ASSUME DateTag(d, q) = BodyTag(b) PROVE FALSE
    OBVIOUS
<1>1. DOMAIN DateTag(d, q) = {"date", "query"} /\ DOMAIN BodyTag(b) = {"body"}
    BY DEF DateTag, BodyTag
<1> QED
    BY <1>1

\* A step of a client keeps what its copy and its handler are promised.
LEMMA ClientKeepsOwn ==
    ASSUME IInv, NEW c \in Client, ClientStep(c)
    PROVE  CopyIsTrue(c)' /\ HandlerInOrder(c)'
<1> USE DEF IInv
<1>1. UNCHANGED dbVars
    BY ClientTypes
<1>2. CopyIsTrue(c) /\ HandlerInOrder(c)
    OBVIOUS
<1>3. UNCHANGED cache => CopyIsTrue(c)'
    BY <1>1, <1>2 DEF CopyIsTrue, dbVars
<1>4. ASSUME NEW status, Respond(c, status) PROVE HandlerInOrder(c)'
    <2>1. phase'[c] = "idle" /\ tag'[c] = None
        BY <1>4 DEF Respond, TypeOK
    <2> QED
        BY <2>1 DEF HandlerInOrder
<1>5. CASE Get(c)
    <2>1. PICK q \in Query, t \in IfNoneMatch(c) :
              asked' = [asked EXCEPT ![c] = [query |-> q, tag |-> t]]
        BY <1>5 DEF Get
    <2>2. /\ asked'[c] = [query |-> q, tag |-> t]
          /\ phase'[c] = "called" /\ tag'[c] = tag[c] /\ UNCHANGED cache
        BY <1>5, <2>1 DEF Get, TypeOK
    <2>3. tag[c] = None
        BY <1>2, <1>5 DEF HandlerInOrder, Get
    <2>4. t # None => cache[c] # None /\ t = cache[c].tag
        BY DEF IfNoneMatch
    <2>5. t \in DateTags \cup BodyTags \cup {None}
        BY <2>4 DEF IfNoneMatch, TypeOK, Copy
    <2>6. asked'[c] # None
        BY <2>2, <2>5, EtagAssumption DEF Asked
    <2> QED
        BY <1>3, <2>2, <2>3, <2>4, <2>6 DEF HandlerInOrder
<1>6. CASE RefuseHeaders(c) \/ ExtractFails(c) \/ TimeOut(c)
    BY <1>3, <1>4, <1>6 DEF RefuseHeaders, ExtractFails, TimeOut
<1>7. CASE ReadDate(c)
    <2> DEFINE fresh == DateTag(Latest(table), asked[c].query)
    <2>1. UNCHANGED cache
        BY <1>7 DEF ReadDate
    <2>2. CASE asked[c].tag = fresh
        BY <1>3, <1>4, <1>7, <2>1, <2>2 DEF ReadDate
    <2>3. CASE asked[c].tag # fresh
        <3>1. /\ tag'[c] = fresh /\ phase'[c] = "extract"
              /\ UNCHANGED asked /\ phase[c] = "called"
            BY <1>7, <2>3 DEF ReadDate, TypeOK
        <3>2. fresh.query = asked[c].query /\ fresh.date = Latest(table)
            BY DEF DateTag
        <3>3. Latest(table) <= peak
            BY <1>7, LatestIsNewest DEF ReadDate, TypeOK, Tables
        <3> QED
            BY <1>1, <1>2, <1>3, <2>1, <2>3, <3>1, <3>2, <3>3 DEF HandlerInOrder, dbVars
    <2> QED
        BY <2>2, <2>3
<1>8. CASE NoDate(c)
    <2>1. /\ phase[c] = "called" /\ phase'[c] = "extract"
          /\ UNCHANGED <<asked, tag, cache>>
        BY <1>8 DEF NoDate, TypeOK
    <2> QED
        BY <1>1, <1>2, <1>3, <2>1 DEF HandlerInOrder, dbVars
<1>9. CASE Extract(c)
    <2> DEFINE body == View(asked[c].query, table)
               etag == IF tag[c] = None THEN BodyTag(body) ELSE tag[c]
    <2>1. CASE asked[c].tag = etag
        BY <1>3, <1>4, <1>9, <2>1 DEF Extract
    <2>2. CASE asked[c].tag # etag
        <3>1. /\ HandlerInOrder(c)'
              /\ cache' = [cache EXCEPT ![c] =
                              [tag |-> etag, query |-> asked[c].query, body |-> body]]
            BY <1>4, <1>9, <2>2 DEF Extract
        <3>2. cache'[c] = [tag |-> etag, query |-> asked[c].query, body |-> body]
            BY <3>1 DEF TypeOK
        <3>3. asked[c].query \in Query
            BY <1>2, <1>9 DEF HandlerInOrder, Extract, TypeOK, Asked
        <3>4. ASSUME NEW b \in Body, etag = BodyTag(b) PROVE body = b
            <4>1. tag[c] = None
                <5> SUFFICES ASSUME tag[c] # None PROVE FALSE
                    OBVIOUS
                <5>1. tag[c] = DateTag(tag[c].date, tag[c].query)
                    BY DEF TypeOK, DateTags, DateTag
                <5> QED
                    BY <3>4, <5>1, TagsDiffer
            <4>2. BodyTag(body) = BodyTag(b)
                BY <3>4, <4>1
            <4> QED
                BY <4>2 DEF BodyTag
        <3>5. ASSUME NEW d \in Stamp, NEW q \in Query, etag = DateTag(d, q)
              PROVE  /\ asked[c].query = q
                     /\ d <= peak
                     /\ body = View(q, table)
            <4>1. tag[c] # None /\ tag[c] = DateTag(d, q)
                BY <3>5, TagsDiffer
            <4>2. tag[c].query = q /\ tag[c].date = d
                BY <4>1 DEF DateTag
            <4> QED
                BY <1>2, <4>1, <4>2 DEF HandlerInOrder
        <3> HIDE DEF body, etag
        <3> QED
            BY <1>1, <3>1, <3>2, <3>4, <3>5 DEF CopyIsTrue, dbVars
    <2> QED
        BY <2>1, <2>2
<1> QED
    BY <1>5, <1>6, <1>7, <1>8, <1>9 DEF ClientStep

\* What a client does not do to another.
LEMMA OnlyItsOwn ==
    ASSUME NEW c \in Client, NEW e \in Client, e # c, TypeOK, ClientStep(c)
    PROVE  /\ asked'[e] = asked[e] /\ tag'[e] = tag[e] /\ phase'[e] = phase[e]
           /\ cache'[e] = cache[e]
<1>1. ASSUME NEW status, Respond(c, status)
      PROVE  asked'[e] = asked[e] /\ tag'[e] = tag[e] /\ phase'[e] = phase[e]
    BY <1>1 DEF Respond, TypeOK
<1>2. CASE Get(c) \/ NoDate(c)
    BY <1>2 DEF Get, NoDate, TypeOK
<1>3. CASE RefuseHeaders(c) \/ ExtractFails(c) \/ TimeOut(c)
    BY <1>1, <1>3 DEF RefuseHeaders, ExtractFails, TimeOut
<1>4. CASE ReadDate(c)
    <2>1. CASE Respond(c, 304)
        BY <1>1, <1>4, <2>1 DEF ReadDate
    <2>2. CASE ~Respond(c, 304)
        BY <1>4, <2>2 DEF ReadDate, TypeOK
    <2> QED
        BY <2>1, <2>2
<1>5. CASE Extract(c)
    <2>1. asked'[e] = asked[e] /\ tag'[e] = tag[e] /\ phase'[e] = phase[e]
        BY <1>1, <1>5 DEF Extract
    <2>2. cache'[e] = cache[e]
        BY <1>5 DEF Extract, TypeOK
    <2> QED
        BY <2>1, <2>2
<1> QED
    BY <1>2, <1>3, <1>4, <1>5 DEF ClientStep

\* Every step keeps the invariant.
LEMMA StepInv == IInv /\ [Next]_vars => IInv'
<1> SUFFICES ASSUME IInv, [Next]_vars PROVE IInv'
    OBVIOUS
<1> USE DEF IInv
<1>1. CASE Tick
    <2>1. clock' \in Stamp /\ UNCHANGED <<table, started, asked, tag, phase, reply, cache, peak, blind>>
        BY <1>1, EtagAssumption DEF Tick, TypeOK, Stamp
    <2> QED
        BY <2>1 DEF TypeOK, CopyIsTrue, HandlerInOrder
<1>2. ASSUME NEW w \in Writer, BatchBegins(w) PROVE IInv'
    <2>1. /\ started' \in [Writer -> Stamp \cup {None}]
          /\ UNCHANGED <<clock, table, asked, tag, phase, reply, cache, peak, blind>>
        BY <1>2 DEF BatchBegins, TypeOK
    <2> QED
        BY <2>1 DEF TypeOK, CopyIsTrue, HandlerInOrder
<1>3. ASSUME NEW w \in Writer, Commit(w) PROVE IInv'
    BY <1>3, CommitKeepsInv
<1>4. ASSUME NEW c \in Client, ClientStep(c) PROVE IInv'
    <2>1. TypeOK' /\ UNCHANGED dbVars
        BY <1>4, ClientTypes
    <2>2. CopyIsTrue(c)' /\ HandlerInOrder(c)'
        BY <1>4, ClientKeepsOwn
    <2>3. ASSUME NEW e \in Client, e # c PROVE CopyIsTrue(e)' /\ HandlerInOrder(e)'
        BY <1>4, <2>1, <2>3, OnlyItsOwn, OthersKeep
    <2>4. (Newest(table) <= peak)'
        BY <2>1 DEF dbVars
    <2> QED
        BY <2>1, <2>2, <2>3, <2>4
<1>5. CASE UNCHANGED vars
    BY <1>5 DEF vars, TypeOK, CopyIsTrue, HandlerInOrder
<1> QED
    BY <1>1, <1>2, <1>3, <1>4, <1>5 DEF Next, WriterStep

-----------------------------------------------------------------------------
(* Theorems                                                                *)

\* In every reachable state a copy is what its ETag says of it.
THEOREM Invariant == Spec => []IInv
<1>1. Init => IInv
    BY InitInv
<1>2. IInv /\ [Next]_vars => IInv'
    BY StepInv
<1> QED
    BY <1>1, <1>2, PTL DEF Spec

\* Requests, copies, rows and dates keep their types.
THEOREM TypeCorrect == Spec => []TypeOK
<1>1. IInv => TypeOK
    BY DEF IInv
<1> QED
    BY <1>1, Invariant, PTL

\* When a step of c answers 304 the ETag c sent is the one its handler made,
\* of the date or of the body.
LEMMA NotModifiedCause ==
    ASSUME IInv, NEW c \in Client, [Next]_vars, Answered(c, 304)
    PROVE  \/ /\ Latest(table) # None
              /\ asked[c].tag = DateTag(Latest(table), asked[c].query)
           \/ /\ tag[c] = None
              /\ asked[c].tag = BodyTag(View(asked[c].query, table))
<1> USE DEF IInv
<1>1. phase[c] # "idle" /\ phase'[c] = "idle" /\ reply'[c] = 304
    BY DEF Answered
<1>2. ASSUME NEW status, Respond(c, status) PROVE status = 304
    BY <1>1, <1>2 DEF Respond, TypeOK
<1>3. ClientStep(c)
    <2>1. ~UNCHANGED vars
        BY <1>1 DEF vars
    <2>2. phase' # phase
        BY <1>1
    <2>3. PICK e \in Client : ClientStep(e)
        BY <2>1, <2>2 DEF Next, Tick, WriterStep, BatchBegins, Commit
    <2>4. e = c
        BY <1>1, <2>3, OnlyItsOwn
    <2> QED
        BY <2>3, <2>4
<1>4. CASE ReadDate(c)
    <2> DEFINE fresh == DateTag(Latest(table), asked[c].query)
    <2>1. Latest(table) # None
        BY <1>4 DEF ReadDate
    <2>2. asked[c].tag = fresh
        <3> SUFFICES ASSUME asked[c].tag # fresh PROVE FALSE
            OBVIOUS
        <3>1. phase' = [phase EXCEPT ![c] = "extract"]
            BY <1>4 DEF ReadDate
        <3> QED
            BY <1>1, <3>1 DEF TypeOK
    <2> QED
        BY <2>1, <2>2
<1>5. CASE Extract(c)
    <2> DEFINE body == View(asked[c].query, table)
               etag == IF tag[c] = None THEN BodyTag(body) ELSE tag[c]
    <2>1. asked[c].tag = etag
        <3> SUFFICES ASSUME asked[c].tag # etag PROVE FALSE
            OBVIOUS
        <3>1. Respond(c, 200)
            BY <1>5 DEF Extract
        <3> QED
            BY <1>2, <3>1
    <2>2. tag[c] = None
        BY <2>1 DEF HandlerInOrder
    <2> QED
        BY <2>1, <2>2
<1>6. ~(RefuseHeaders(c) \/ ExtractFails(c) \/ TimeOut(c))
    BY <1>2 DEF RefuseHeaders, ExtractFails, TimeOut
<1>7. ~(Get(c) \/ NoDate(c))
    BY <1>1 DEF Get, NoDate, TypeOK
<1> QED
    BY <1>3, <1>4, <1>5, <1>6, <1>7 DEF ClientStep

\* Whoever gets a 304 holds the body a 200 would have carried, unless the
\* newest date is a blind one.
THEOREM NotModifiedIsRight == Spec => NotModifiedIsTrue
<1>1. ASSUME IInv, NEW c \in Client, [Next]_vars, Answered(c, 304)
      PROVE  \/ cache[c].body = View(asked[c].query, table)
             \/ Latest(table) \in blind
    <2> USE DEF IInv
    <2>1. phase[c] # "idle" /\ asked[c] \in Asked /\ table \in Tables
        BY <1>1 DEF Answered, HandlerInOrder, TypeOK, Tables
    <2>2. asked[c].query \in Query /\ View(asked[c].query, table) \in Body
        BY <2>1, ViewIsBody DEF Asked
    <2>3. ASSUME asked[c].tag # None PROVE cache[c] # None /\ asked[c].tag = cache[c].tag
        BY <2>1, <2>3, <1>1 DEF HandlerInOrder
    <2>4. CASE /\ Latest(table) # None
               /\ asked[c].tag = DateTag(Latest(table), asked[c].query)
        <3>1. Latest(table) \in Stamp /\ Latest(table) = Newest(table)
            BY <2>1, <2>4, LatestIsNewest
        <3>2. DateTag(Latest(table), asked[c].query) \in DateTags
            BY <2>2, <3>1 DEF DateTag, DateTags
        <3>3. asked[c].tag # None
            BY <2>4, <3>2, EtagAssumption
        <3> QED
            BY <1>1, <2>2, <2>3, <2>4, <3>1, <3>3 DEF CopyIsTrue
    <2>5. CASE /\ tag[c] = None
               /\ asked[c].tag = BodyTag(View(asked[c].query, table))
        <3>1. BodyTag(View(asked[c].query, table)) \in BodyTags
            BY <2>2 DEF BodyTag, BodyTags
        <3>2. asked[c].tag # None
            BY <2>5, <3>1, EtagAssumption
        <3> QED
            BY <1>1, <2>2, <2>3, <2>5, <3>2 DEF CopyIsTrue
    <2> QED
        BY <1>1, <2>4, <2>5, NotModifiedCause
<1>2. IInv /\ [Next]_vars =>
          [\A c \in Client : Answered(c, 304) =>
              \/ cache[c].body = View(asked[c].query, table)
              \/ Latest(table) \in blind]_vars
    BY <1>1
<1> QED
    BY <1>2, Invariant, PTL DEF Spec, NotModifiedIsTrue

\* A batch that began after the newest date there ever was and deletes
\* nothing leaves no blind date.
THEOREM FreshChangesAreSeen == Spec => FreshChangeIsSeen
<1>1. ASSUME IInv, [Next]_vars, NEW w \in Writer,
             started[w] # None, started'[w] = None, started[w] > peak,
             Present(table) \subseteq Present(table')
      PROVE  blind' = blind
    <2> USE DEF IInv
    <2>1. Commit(w)
        <3>1. started' # started
            BY <1>1
        <3>2. PICK v \in Writer : BatchBegins(v) \/ Commit(v)
            <4>1. ASSUME NEW c \in Client, ClientStep(c) PROVE UNCHANGED started
                BY <1>1, <4>1, ClientTypes DEF dbVars
            <4> QED
                BY <1>1, <3>1, <4>1 DEF Next, Tick, WriterStep, vars
        <3>3. CASE BatchBegins(v)
            <4>1. v # w /\ started'[w] = started[w]
                BY <1>1, <3>3 DEF BatchBegins, TypeOK
            <4> QED
                BY <1>1, <4>1
        <3>4. CASE Commit(v)
            <4>1. started' = [started EXCEPT ![v] = None]
                BY <3>4 DEF Commit
            <4>2. v = w
                BY <1>1, <4>1 DEF TypeOK
            <4> QED
                BY <3>4, <4>2
        <3> QED
            BY <3>2, <3>3, <3>4
    <2>2. /\ started[w] \in Stamp
          /\ table' \in Tables
          /\ \A t \in Title : table'[t] # table[t] =>
                \/ table'[t] = None /\ table[t] # None
                \/ table'[t] # None /\ table'[t].stamp = started[w]
        BY <1>1, <2>1, CommitShape
    <2>3. /\ peak \in Int /\ started[w] \in Int
          /\ Newest(table') \in Int
        BY <1>1, <2>1, <2>2, CommitShape, EtagAssumption DEF TypeOK, Stamp
    <2>4. blind' = IF table' # table /\ Newest(table') <= peak
                   THEN blind \cup {Newest(table')} ELSE blind
        BY <2>1 DEF Commit
    <2>5. ASSUME table' # table PROVE Newest(table') > peak
        <3>1. PICK t \in Title : table'[t] # table[t]
            BY <2>2, <2>5, <1>1 DEF TypeOK, Tables
        <3>2. t \in Present(table') /\ table'[t].stamp = started[w]
            BY <1>1, <2>2, <3>1 DEF Present
        <3>3. started[w] <= Newest(table')
            BY <2>2, <3>2, LatestIsNewest
        <3> QED
            BY <1>1, <2>3, <3>3
    <2> QED
        BY <2>3, <2>4, <2>5
<1>2. IInv /\ [Next]_vars =>
          [\A w \in Writer :
              /\ started[w] # None
              /\ started'[w] = None
              /\ started[w] > peak
              /\ Present(table) \subseteq Present(table')
              => blind' = blind]_vars
    BY <1>1
<1> QED
    BY <1>2, Invariant, PTL DEF Spec, FreshChangeIsSeen

=============================================================================
