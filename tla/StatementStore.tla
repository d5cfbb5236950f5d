----------------------------- MODULE StatementStore -----------------------------
(***************************************************************************)
(* What a bulk request promises where its procedure is a series of         *)
(* statements that commit one by one, as on MariaDB and SQL Server.  One   *)
(* of them changes the table, all items at once and by the table as it is  *)
(* at that moment; nothing else does.  A request that has failed has left  *)
(* the table alone, unless it failed after its change was made: then the   *)
(* change stays.  FeedStore promises more: there is no such failure there. *)
(***************************************************************************)
EXTENDS FeedBatch

CONSTANTS
    Request,
    InitialTable,
    OddDate  \* dates the database cannot store

VARIABLES
    job,      \* job[r]: what request r asks for
    fate,     \* fate[r]: open, applied or failed
    skipped,  \* skipped[r]: the items an insert has found taken
    table

storeVars == <<job, fate, skipped, table>>

Init ==
    /\ job = [r \in Request |-> None]
    /\ fate = [r \in Request |-> "open"]
    /\ skipped = [r \in Request |-> {}]
    /\ table = InitialTable

\* Items without feed_url or publish_date have no effect, whatever the mode.
Complete(r) ==
    {i \in DOMAIN job[r].items : /\ job[r].items[i].feed_url # None
                                 /\ job[r].items[i].publish_date # None}

Alike(t, u) == Fold[t] = Fold[u]

Taken(t) == \E u \in Title : Alike(t, u) /\ table[u] # None

\* The contents that the items naming the row ask for it to have.
Contents(S, r) == {ContentOf(job[r].items[i]) : i \in S}
Naming(r, u) == {i \in Complete(r) : Alike(job[r].items[i].title, u)}

Storable(rows) == {row \in rows : row.publish_date \notin OddDate}

\* A new row has the title exactly as one of the items not skipped spells
\* it, and no row with a title like it stood in its way.
Inserted(r, u) ==
    LET asked == Storable(Contents({i \in Complete(r) \ skipped[r] : job[r].items[i].title = u}, r))
    IN  IF asked = {} \/ Taken(u) THEN {table[u]} ELSE asked

\* No item asks for anything else than the row already has.  An optional URL
\* that appears or disappears need not count as a difference, and neither
\* does a date that cannot be stored.
Satisfied(r, u) ==
    \A row \in Contents(Naming(r, u), r) :
        /\ row.feed_url = table[u].feed_url
        /\ row.publish_date = table[u].publish_date \/ row.publish_date \in OddDate
        /\ row.image_url = table[u].image_url \/ None \in {row.image_url, table[u].image_url}

Updated(r, u) ==
    IF table[u] = None \/ Naming(r, u) = {} THEN {table[u]}
    ELSE Storable(Contents(Naming(r, u), r)) \cup (IF Satisfied(r, u) THEN {table[u]} ELSE {})

Deleted(r, u) == IF Naming(r, u) = {} THEN {table[u]} ELSE {None}

Effects(r, u) ==
    CASE job[r].mode = "insert" -> Inserted(r, u)
      [] job[r].mode = "update" -> Updated(r, u)
      [] job[r].mode = "delete" -> Deleted(r, u)

-----------------------------------------------------------------------------

Submit(r) ==
    /\ job[r] = None
    /\ \E j \in Job : job' = [job EXCEPT ![r] = j]
    /\ UNCHANGED <<fate, skipped, table>>

\* An insert may look for the titles that are taken before it inserts.
Skip(r) ==
    /\ job[r] # None
    /\ job[r].mode = "insert"
    /\ fate[r] = "open"
    /\ skipped' = [skipped EXCEPT ![r] =
                     {i \in Complete(r) : Taken(job[r].items[i].title)}]
    /\ UNCHANGED <<job, fate, table>>

Ends(r, end) ==
    /\ fate' = [fate EXCEPT ![r] = end]
    /\ skipped' = [skipped EXCEPT ![r] = {}]
    /\ UNCHANGED job

Apply(r) ==
    /\ job[r] # None
    /\ fate[r] = "open"
    /\ table' \in [Title -> Content \cup {None}]
    /\ \A u \in Title : table'[u] \in Effects(r, u)
    /\ Ends(r, "applied")

Fail(r) ==
    /\ job[r] # None
    /\ fate[r] \in {"open", "applied"}
    /\ Ends(r, "failed")
    /\ UNCHANGED table

Next == \E r \in Request : Submit(r) \/ Skip(r) \/ Apply(r) \/ Fail(r)

Spec == Init /\ [][Next]_storeVars

=============================================================================
