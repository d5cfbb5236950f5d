------------------------------- MODULE FeedStore -------------------------------
(***************************************************************************)
(* What a bulk request promises, without connections, snapshots or locks.  *)
(* A batch takes effect in one step or not at all.  Each item it reports   *)
(* as done was applicable in the very state the batch is applied to; each  *)
(* item it skips was inapplicable in some state between the request and    *)
(* its end.  Items of one batch may be judged in different states: batches *)
(* are atomic in what they write, not in what they pass over.              *)
(***************************************************************************)
EXTENDS FeedBatch

CONSTANTS Request, InitialTable

VARIABLES
    job,      \* job[r]: what request r asks for
    fate,     \* fate[r]: open, applied or failed
    skipped,  \* skipped[r]: the items found inapplicable so far
    table

storeVars == <<job, fate, skipped, table>>

Init ==
    /\ job = [r \in Request |-> None]
    /\ fate = [r \in Request |-> "open"]
    /\ skipped = [r \in Request |-> {}]
    /\ table = InitialTable

Indices(r) == IF job[r] = None THEN {} ELSE DOMAIN job[r].items

Collides(tbl, t) == \E u \in Title : Fold[u] = Fold[t] /\ tbl[u] # None

Applicable(tbl, mode, item) ==
    CASE mode = "insert" -> ~Collides(tbl, item.title)
      [] mode = "update" -> tbl[item.title] \notin {None, ContentOf(item)}
      [] mode = "delete" -> tbl[item.title] # None

\* An insert also yields to an earlier item of its own batch.
YieldsToMate(r, i) ==
    /\ job[r].mode = "insert"
    /\ \E k \in Indices(r) \ skipped[r] :
           k < i /\ Fold[job[r].items[k].title] = Fold[job[r].items[i].title]

MaySkip(tbl, r, i) ==
    \/ ~Applicable(tbl, job[r].mode, job[r].items[i])
    \/ YieldsToMate(r, i)

\* In this step the requests of S may find more of their items inapplicable
\* to tbl.
SkipMore(tbl, S) ==
    /\ DOMAIN skipped' = Request
    /\ \A r \in S : /\ skipped[r] \subseteq skipped'[r]
                    /\ skipped'[r] \subseteq Indices(r)
                    /\ \A i \in skipped'[r] \ skipped[r] : MaySkip(tbl, r, i)

Submit(r) ==
    /\ job[r] = None
    /\ \E j \in Job : job' = [job EXCEPT ![r] = j]
    /\ UNCHANGED <<fate, skipped, table>>

Skip ==
    /\ SkipMore(table, {r \in Request : fate[r] = "open"})
    /\ \A r \in Request : fate[r] # "open" => skipped'[r] = skipped[r]
    /\ UNCHANGED <<job, fate, table>>

\* Two items of an insert ask for titles that collide.
Mates(r, i, k) ==
    job[r].mode = "insert" /\ Fold[job[r].items[i].title] = Fold[job[r].items[k].title]

\* The new contents of the table when the items of r not skipped apply.
Applied(r) ==
    [t \in Title |->
        IF \E i \in Indices(r) \ skipped[r] : job[r].items[i].title = t
        THEN LET i == CHOOSE n \in Indices(r) \ skipped[r] :
                          job[r].items[n].title = t
             IN  IF job[r].mode = "delete" THEN None
                 ELSE ContentOf(job[r].items[i])
        ELSE table[t]]

Apply(r) ==
    /\ job[r] # None
    /\ fate[r] = "open"
    /\ fate' = [fate EXCEPT ![r] = "applied"]
    /\ \A i \in Indices(r) \ skipped[r] :
           Applicable(table, job[r].mode, job[r].items[i])
    /\ \A i, k \in Indices(r) \ skipped[r] : Mates(r, i, k) => i = k
    /\ table' = Applied(r)
    /\ skipped'[r] = skipped[r]
    /\ SkipMore(table', {s \in Request \ {r} : fate[s] = "open"})
    /\ \A s \in Request \ {r} : fate[s] # "open" => skipped'[s] = skipped[s]
    /\ UNCHANGED job

Fail(r) ==
    /\ job[r] # None
    /\ fate[r] = "open"
    /\ fate' = [fate EXCEPT ![r] = "failed"]
    /\ skipped' = [skipped EXCEPT ![r] = {}]
    /\ UNCHANGED <<job, table>>

Next == Skip \/ \E r \in Request : Submit(r) \/ Apply(r) \/ Fail(r)

Spec == Init /\ [][Next]_storeVars

=============================================================================
