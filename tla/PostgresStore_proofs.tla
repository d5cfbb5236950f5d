------------------------- MODULE PostgresStore_proofs -------------------------
(***************************************************************************)
(* That PostgresCud keeps what FeedStore promises, and that its reports    *)
(* add up.                                                                 *)
(*                                                                         *)
(* Both rest on StoreInv: what a batch has written is what one of the      *)
(* items it has tried asks for, and inserts take their items in turn.      *)
(* Titles are distinct as sent, so each write is the work of one item.     *)
(***************************************************************************)
EXTENDS PostgresCud_proofs

\* What item i of r makes of its title.
Result(r, i) == IF job[r].mode = "delete" THEN None ELSE ContentOf(job[r].items[i])

WritesFromItems ==
    \A r \in Request, t \in Title : write[r][t] # Untouched =>
        /\ \E i \in Items(r) \ todo[r] : TitleOf(r, i) = t /\ write[r][t] = Result(r, i)
        /\ write[r][t] = None => job[r].mode = "delete"

InsertsInTurn ==
    \A r \in Request : phase[r] = "running" /\ job[r].mode = "insert" =>
        \A i \in todo[r], k \in Items(r) \ todo[r] : k < i

\* There is no answer before the end.
AnswersInOrder ==
    \A r \in Request : phase[r] \in {"idle", "queued", "running"} => answer[r] = <<>>

StoreInv ==
    /\ WritesFromItems
    /\ InsertsInTurn
    /\ NothingBeforeArrival
    /\ AnswersInOrder

-----------------------------------------------------------------------------
(* Items                                                                   *)

\* The items of a batch in hand have distinct titles.
LEMMA DistinctTitles ==
    ASSUME JobsInOrder, NEW r \in Request, phase[r] \in {"queued", "running"},
           NEW i \in Items(r), NEW k \in Items(r), TitleOf(r, i) = TitleOf(r, k)
    PROVE  i = k
<1>1. job[r] \in Job /\ Accepted(job[r])
    BY DEF JobsInOrder
<1>2. ~DuplicateTitles(job[r].items)
    <2>1. Checks(job[r])[6]
        BY <1>1 DEF Accepted
    <2> QED
        BY <2>1 DEF Checks
<1>3. /\ job[r].items[i].title \in Title
      /\ i \in Nat /\ k \in Nat /\ i \in DOMAIN job[r].items /\ k \in DOMAIN job[r].items
    BY <1>1, JobShape, AcceptedItem DEF Items
<1>4. job[r].items[i].title # None
    BY <1>3, NoneAssumption
<1>5. ~(i < k) /\ ~(k < i)
    BY <1>2, <1>3, <1>4 DEF DuplicateTitles, TitleOf
<1> QED
    BY <1>3, <1>5

\* What Execute does: it passes over an item that is not applicable now, or
\* writes what the item asks for.
LEMMA ExecuteShape ==
    ASSUME IInv, NEW r \in Request, Execute(r)
    PROVE  \E i \in todo[r] :
              /\ i \in Items(r)
              /\ TitleOf(r, i) \in Title
              /\ job[r].mode \in Mode
              /\ todo' = [todo EXCEPT ![r] = todo[r] \ {i}]
              /\ job[r].mode = "insert" => \A k \in todo[r] : i <= k
              /\ \/ /\ write' = write
                    /\ job[r].mode = "insert" => InsertConflict(r, i)
                    /\ job[r].mode = "update" =>
                          table[TitleOf(r, i)] \in {None, ContentOf(job[r].items[i])}
                    /\ job[r].mode = "delete" => table[TitleOf(r, i)] = None
                 \/ /\ Result(r, i) \in IF job[r].mode = "delete" THEN {None} ELSE Content
                    /\ write' = [write EXCEPT ![r] =
                                    [@ EXCEPT ![TitleOf(r, i)] = Result(r, i)]]
                    /\ job[r].mode = "insert" => ~InsertConflict(r, i)
                    /\ job[r].mode = "update" => table[TitleOf(r, i)] # None
                    /\ job[r].mode = "delete" => table[TitleOf(r, i)] # None
<1>1. PICK i \in NextItems(r) :
          /\ InsertItem(r, i) \/ UpdateItem(r, i) \/ DeleteItem(r, i)
          /\ todo' = [todo EXCEPT ![r] = @ \ {i}]
    BY DEF Execute
<1>2. phase[r] = "running" /\ todo \in [Request -> SUBSET Nat]
    BY DEF Execute, IInv, TypeOK
<1>3. i \in todo[r] /\ (job[r].mode = "insert" => \A k \in todo[r] : i <= k)
    BY <1>1 DEF NextItems
<1>4. /\ job[r] \in Job /\ Accepted(job[r])
      /\ i \in Items(r) /\ i \in DOMAIN job[r].items
    BY <1>2, <1>3 DEF IInv, JobsInOrder, TodoInBatch, Items
<1>5. /\ TitleOf(r, i) \in Title /\ job[r].mode \in Mode
      /\ job[r].mode = "insert" => ContentOf(job[r].items[i]) \in Content
      /\ job[r].mode = "update" /\ job[r].items[i].feed_url # None
             => ContentOf(job[r].items[i]) \in Content
    BY <1>4, JobShape, AcceptedItem DEF TitleOf
<1>6. todo' = [todo EXCEPT ![r] = todo[r] \ {i}]
    BY <1>1, <1>2
<1>7. CASE InsertItem(r, i)
    BY <1>3, <1>4, <1>5, <1>6, <1>7 DEF InsertItem, Put, Result
<1>8. CASE UpdateItem(r, i)
    <2>1. ContentOf(job[r].items[i]).feed_url = job[r].items[i].feed_url
        BY DEF ContentOf
    <2> QED
        BY <1>3, <1>4, <1>5, <1>6, <1>8, <2>1 DEF UpdateItem, Put, Result, RowExists
<1>9. CASE DeleteItem(r, i)
    BY <1>3, <1>4, <1>5, <1>6, <1>9 DEF DeleteItem, Put, Result, RowExists
<1> QED
    BY <1>1, <1>7, <1>8, <1>9

-----------------------------------------------------------------------------
(* The invariant                                                           *)

\* The steps of the service.
LEMMA ServiceKeepsStoreInv ==
    ASSUME IInv, StoreInv, NEW r \in Request, ServiceStep(r),
           UNCHANGED <<todo, seen, write>>
    PROVE  StoreInv'
<1> USE DEF IInv, StoreInv
<1>1. ServiceTypeOK
    BY DEF TypeOK
<1>2. /\ UNCHANGED <<table, answer>>
      /\ \A s \in Request : phase[s] # "idle" => job'[s] = job[s]
      /\ \A s \in Request :
            phase'[s] # phase[s] => /\ phase[s] \in {"idle", "queued"}
                                    /\ phase'[s] \in {"queued", "gone"}
    BY <1>1, ServiceFrame
<1>3. \A s \in Request : job'[s] # job[s] => phase'[s] # "idle"
    BY <1>1 DEF ServiceTypeOK, ServiceStep, Receive, AcquireTimeout, LoseConnection, Respond,
                CudTimeout
<1>4. WritesFromItems'
    <2> SUFFICES ASSUME NEW s \in Request, NEW t \in Title, write[s][t] # Untouched
                 PROVE  /\ \E i \in Items(s)' \ todo[s] :
                               TitleOf(s, i)' = t /\ write[s][t] = Result(s, i)'
                        /\ write[s][t] = None => job'[s].mode = "delete"
        BY DEF WritesFromItems
    <2>1. phase[s] = "running"
        BY DEF WritesFitTable
    <2>2. job'[s] = job[s]
        BY <1>2, <2>1
    <2>3. PICK i \in Items(s) \ todo[s] : TitleOf(s, i) = t /\ write[s][t] = Result(s, i)
        BY DEF WritesFromItems
    <2> QED
        BY <2>2, <2>3 DEF WritesFromItems, Items, TitleOf, Result
<1>5. InsertsInTurn'
    BY <1>2 DEF InsertsInTurn, Items
<1>6. NothingBeforeArrival' /\ AnswersInOrder'
    BY <1>2, <1>3 DEF NothingBeforeArrival, AnswersInOrder
<1> QED
    BY <1>4, <1>5, <1>6

\* A batch begins with all its items to try, or with those its snapshot finds.
LEMMA BeginKeepsStoreInv ==
    ASSUME IInv, StoreInv, NEW r \in Request, Begin(r)
    PROVE  StoreInv'
<1> USE DEF IInv, StoreInv
<1>1. /\ phase[r] = "queued" /\ UNCHANGED <<job, answer, write>>
      /\ phase' = [phase EXCEPT ![r] = "running"]
      /\ todo' = [todo EXCEPT ![r] = Targets(r)]
    BY DEF Begin, Acquire
<1>2. /\ \A s \in Request \ {r} : phase'[s] = phase[s] /\ todo'[s] = todo[s]
      /\ phase'[r] = "running" /\ todo'[r] = Targets(r)
    BY <1>1 DEF TypeOK, ServiceTypeOK
<1>3. WritesFromItems'
    <2> SUFFICES ASSUME NEW s \in Request, NEW t \in Title, write[s][t] # Untouched
                 PROVE  /\ \E i \in Items(s) \ todo'[s] :
                               TitleOf(s, i) = t /\ write[s][t] = Result(s, i)
                        /\ write[s][t] = None => job[s].mode = "delete"
        BY <1>1 DEF WritesFromItems, Items, TitleOf, Result
    <2>1. s # r
        BY <1>1 DEF WritesFitTable
    <2> QED
        BY <1>2, <2>1 DEF WritesFromItems
<1>4. InsertsInTurn'
    <2>1. job[r].mode = "insert" => Targets(r) = Items(r)
        BY DEF Targets
    <2> QED
        BY <1>1, <1>2, <2>1 DEF InsertsInTurn, Items
<1>5. NothingBeforeArrival' /\ AnswersInOrder'
    BY <1>1, <1>2 DEF NothingBeforeArrival, AnswersInOrder
<1> QED
    BY <1>3, <1>4, <1>5

\* A write is the work of the item just tried, and of no other.
LEMMA ExecuteKeepsStoreInv ==
    ASSUME IInv, StoreInv, NEW r \in Request, Execute(r)
    PROVE  StoreInv'
<1> USE DEF IInv, StoreInv
<1>1. PICK i \in todo[r] :
          /\ i \in Items(r)
          /\ TitleOf(r, i) \in Title
          /\ todo' = [todo EXCEPT ![r] = todo[r] \ {i}]
          /\ job[r].mode = "insert" => \A k \in todo[r] : i <= k
          /\ \/ write' = write
             \/ /\ Result(r, i) \in IF job[r].mode = "delete" THEN {None} ELSE Content
                /\ write' = [write EXCEPT ![r] =
                                [@ EXCEPT ![TitleOf(r, i)] = Result(r, i)]]
    BY ExecuteShape
<1>2. phase[r] = "running" /\ UNCHANGED <<job, phase, answer>>
    BY DEF Execute
<1>3. /\ \A s \in Request \ {r} : todo'[s] = todo[s]
      /\ todo'[r] = todo[r] \ {i}
    BY <1>1 DEF TypeOK
<1>4. WritesFromItems'
    <2> SUFFICES ASSUME NEW s \in Request, NEW t \in Title, write'[s][t] # Untouched
                 PROVE  /\ \E n \in Items(s) \ todo'[s] :
                               TitleOf(s, n) = t /\ write'[s][t] = Result(s, n)
                        /\ write'[s][t] = None => job[s].mode = "delete"
        BY <1>2 DEF WritesFromItems, Items, TitleOf, Result
    <2>1. CASE write'[s][t] = write[s][t]
        <3>1. PICK n \in Items(s) \ todo[s] : TitleOf(s, n) = t /\ write[s][t] = Result(s, n)
            BY <2>1 DEF WritesFromItems
        <3>2. n \notin todo'[s]
            BY <1>3
        <3> QED
            BY <2>1, <3>1, <3>2 DEF WritesFromItems
    <2>2. CASE write'[s][t] # write[s][t]
        <3>1. /\ s = r /\ t = TitleOf(r, i) /\ write'[r][t] = Result(r, i)
            BY <1>1, <2>2 DEF TypeOK
        <3>2. Result(r, i) = None => job[r].mode = "delete"
            BY <1>1, <2>2, NoneAssumption
        <3>3. i \in Items(s) \ todo'[s]
            BY <1>1, <1>3, <3>1
        <3> QED
            BY <3>1, <3>2, <3>3
    <2> QED
        BY <2>1, <2>2
<1>5. InsertsInTurn'
    <2> SUFFICES ASSUME NEW s \in Request, phase[s] = "running", job[s].mode = "insert",
                        NEW n \in todo'[s], NEW k \in Items(s) \ todo'[s]
                 PROVE  k < n
        BY <1>2 DEF InsertsInTurn, Items
    <2>1. CASE s # r
        BY <1>3, <2>1 DEF InsertsInTurn
    <2>2. CASE s = r
        <3>1. n \in todo[r] /\ n # i /\ i \in Nat /\ n \in Nat
            BY <1>3, <2>2 DEF TypeOK
        <3>2. CASE k = i
            BY <1>1, <2>2, <3>1, <3>2
        <3>3. CASE k # i
            BY <1>3, <2>2, <3>1, <3>3 DEF InsertsInTurn
        <3> QED
            BY <3>2, <3>3
    <2> QED
        BY <2>1, <2>2
<1>6. NothingBeforeArrival' /\ AnswersInOrder'
    BY <1>2 DEF NothingBeforeArrival, AnswersInOrder
<1> QED
    BY <1>4, <1>5, <1>6

\* The end of a batch takes its writes, and items from others' lists, away;
\* but no item from the list of an insert.
LEMMA EndKeepsStoreInv ==
    ASSUME IInv, StoreInv, NEW r \in Request, phase[r] = "running",
           NEW end \in {"committed", "aborted"}, NEW messages,
           Finish(r, end, messages), Forget(r),
           \A s \in Request : todo'[s] \subseteq todo[s],
           \A s \in Request \ {r} : job[s].mode = "insert" => todo'[s] = todo[s]
    PROVE  StoreInv'
<1> USE DEF IInv, StoreInv
<1>1. /\ job' = job
      /\ \A s \in Request \ {r} :
            phase'[s] = phase[s] /\ answer'[s] = answer[s] /\ write'[s] = write[s]
      /\ phase'[r] = end /\ write'[r] = NoWrite
    BY DEF Finish, Forget, TypeOK, ServiceTypeOK
<1>2. WritesFromItems'
    <2> SUFFICES ASSUME NEW s \in Request \ {r}, NEW t \in Title, write[s][t] # Untouched
                 PROVE  /\ \E i \in Items(s) \ todo'[s] :
                               TitleOf(s, i) = t /\ write[s][t] = Result(s, i)
                        /\ write[s][t] = None => job[s].mode = "delete"
        BY <1>1 DEF WritesFromItems, Items, TitleOf, Result, NoWrite
    <2> QED
        BY DEF WritesFromItems
<1>3. InsertsInTurn'
    BY <1>1 DEF InsertsInTurn, Items
<1>4. NothingBeforeArrival' /\ AnswersInOrder'
    BY <1>1 DEF NothingBeforeArrival, AnswersInOrder
<1> QED
    BY <1>2, <1>3, <1>4

\* Every step keeps StoreInv.
LEMMA StoreInvStep == IInv /\ StoreInv /\ [Next]_vars => StoreInv'
<1> SUFFICES ASSUME IInv, StoreInv, [Next]_vars
             PROVE  StoreInv'
    OBVIOUS
<1>1. ASSUME NEW r \in Request, ServiceStep(r), UNCHANGED <<todo, seen, write>>
      PROVE  StoreInv'
    BY <1>1, ServiceKeepsStoreInv
<1>2. ASSUME NEW r \in Request, Begin(r)
      PROVE  StoreInv'
    BY <1>2, BeginKeepsStoreInv
<1>3. ASSUME NEW r \in Request, Execute(r)
      PROVE  StoreInv'
    BY <1>3, ExecuteKeepsStoreInv
<1>4. ASSUME NEW r \in Request, Commit(r)
      PROVE  StoreInv'
    <2>1. /\ \A s \in Request : todo'[s] \subseteq todo[s]
          /\ \A s \in Request \ {r} : job[s].mode = "insert" => todo'[s] = todo[s]
        BY <1>4 DEF Commit, Orphaned
    <2> QED
        BY <1>4, <2>1, EndKeepsStoreInv DEF Commit
<1>5. ASSUME NEW r \in Request, Abort(r)
      PROVE  StoreInv'
    <2>1. /\ \A s \in Request : todo'[s] \subseteq todo[s]
          /\ \A s \in Request \ {r} : todo'[s] = todo[s]
        BY <1>5 DEF Abort, IInv, TypeOK
    <2> QED
        BY <1>5, <2>1, EndKeepsStoreInv DEF Abort
<1>6. CASE UNCHANGED vars
    BY <1>6 DEF vars, StoreInv, WritesFromItems, InsertsInTurn, NothingBeforeArrival,
                AnswersInOrder, Items, TitleOf, Result
<1> QED
    BY <1>1, <1>2, <1>3, <1>4, <1>5, <1>6
    DEF Next, RequestStep, EngineStep, AbortOnNull, AbortOnDeadlock, AbortOnLoss, Terminated

\* And it holds from the start.
LEMMA StoreInvariance == Spec => [](IInv /\ StoreInv)
<1>1. Init => StoreInv
    BY DEF Init, ServiceInit, StoreInv, WritesFromItems, InsertsInTurn,
           NothingBeforeArrival, AnswersInOrder, NoWrite
<1> QED
    BY <1>1, InitInv, StepInv, StoreInvStep, PTL DEF Spec

-----------------------------------------------------------------------------
(* The refinement.                                                         *)

\* A step that only passes over items that may be passed over is a Skip.
LEMMA SkipShape ==
    ASSUME UNCHANGED <<job, table>>,
           \A s \in Request : Fate(s)' = Fate(s),
           \A s \in Request : Fate(s) # "open" => PassedOver(s)' = PassedOver(s),
           \A s \in Request : Fate(s) = "open" =>
               /\ PassedOver(s) \subseteq PassedOver(s)'
               /\ PassedOver(s)' \subseteq Store!Indices(s)
               /\ \A i \in PassedOver(s)' \ PassedOver(s) : Store!MaySkip(table, s, i)
    PROVE  Store!Skip
BY DEF Store!Skip, Store!SkipMore

\* What is passed over are items of a request that has arrived.
LEMMA PassedOverItems ==
    ASSUME IInv, NEW r \in Request, Fate(r) = "open"
    PROVE  PassedOver(r) \subseteq Store!Indices(r)
<1>1. phase[r] = "running" => job[r] # None
    BY JobAssumption DEF IInv, JobsInOrder
<1> QED
    BY <1>1 DEF Fate, PassedOver, Store!Indices, Items

\* The arrival of a request is its Submit.
LEMMA ReceiveSubmits ==
    ASSUME IInv, StoreInv, NEW r \in Request, NEW j \in Job, Receive(r, j),
           UNCHANGED <<todo, seen, write>>
    PROVE  Store!Submit(r)
<1>1. /\ phase[r] = "idle" /\ job[r] = None
      /\ job' = [job EXCEPT ![r] = j] /\ UNCHANGED <<answer, table>>
      /\ phase' = [phase EXCEPT ![r] = IF Accepted(j) THEN "queued" ELSE "gone"]
    BY DEF Receive, StoreInv, NothingBeforeArrival, IInv, TypeOK, ServiceTypeOK
<1>2. /\ \A s \in Request \ {r} : phase'[s] = phase[s] /\ job'[s] = job[s]
      /\ phase'[r] \in {"queued", "gone"}
    BY <1>1 DEF IInv, TypeOK, ServiceTypeOK
<1>3. \A s \in Request : Fate(s)' = Fate(s)
    BY <1>1, <1>2 DEF Fate
<1>4. \A s \in Request : PassedOver(s)' = PassedOver(s)
    BY <1>1, <1>2 DEF PassedOver, Items, Written, TitleOf
<1> QED
    BY <1>1, <1>3, <1>4 DEF Store!Submit

\* The other steps of the service are none of the store.
LEMMA ServiceStutters ==
    ASSUME IInv, NEW r \in Request, UNCHANGED <<todo, seen, write>>,
           AcquireTimeout(r) \/ LoseConnection(r) \/ Respond(r) \/ CudTimeout(r)
    PROVE  UNCHANGED Store!storeVars
<1>1. /\ UNCHANGED <<job, answer, table>>
      /\ \A s \in Request :
            phase'[s] # phase[s] => phase[s] = "queued" /\ phase'[s] = "gone"
    BY DEF AcquireTimeout, LoseConnection, Respond, CudTimeout, IInv, TypeOK, ServiceTypeOK
<1>2. \A s \in Request : Fate(s)' = Fate(s)
    BY <1>1 DEF Fate
<1>3. \A s \in Request : PassedOver(s)' = PassedOver(s)
    BY <1>1 DEF PassedOver, Items, Written, TitleOf
<1> QED
    BY <1>1, <1>2, <1>3 DEF Store!storeVars

\* An update or a delete passes at once over what its snapshot does not hold.
LEMMA BeginSkips ==
    ASSUME IInv, StoreInv, NEW r \in Request, Begin(r)
    PROVE  Store!Skip
<1>1. /\ phase[r] = "queued" /\ UNCHANGED <<job, answer, table, write>>
      /\ phase' = [phase EXCEPT ![r] = "running"]
      /\ todo' = [todo EXCEPT ![r] = Targets(r)]
    BY DEF Begin, Acquire
<1>2. /\ \A s \in Request \ {r} : phase'[s] = phase[s] /\ todo'[s] = todo[s]
      /\ phase'[r] = "running" /\ todo'[r] = Targets(r)
    BY <1>1 DEF IInv, TypeOK, ServiceTypeOK
<1>3. \A s \in Request : Fate(s)' = Fate(s)
    BY <1>1, <1>2 DEF Fate
<1>4. \A s \in Request \ {r} : PassedOver(s)' = PassedOver(s)
    BY <1>1, <1>2 DEF PassedOver, Items, Written, TitleOf
<1>5. PassedOver(r) = {} /\ Fate(r) = "open"
    BY <1>1 DEF PassedOver, Fate
<1>6. job[r] \in Job /\ job[r] # None /\ Accepted(job[r]) /\ job[r].mode \in Mode
    BY <1>1, JobAssumption, JobShape DEF IInv, JobsInOrder
<1>7. PassedOver(r)' \subseteq Items(r) \ Targets(r)
    BY <1>1, <1>2 DEF PassedOver, Items
<1>8. ASSUME NEW i \in Items(r) \ Targets(r)
      PROVE  Store!MaySkip(table, r, i)
    <2> DEFINE t == TitleOf(r, i)
               row == ContentOf(job[r].items[i])
    <2>1. \/ job[r].mode = "update" /\ (table[t] = None \/ table[t] = row)
          \/ job[r].mode = "delete" /\ table[t] = None
        BY <1>6, <1>8 DEF Targets, RowExists, Mode
    <2> QED
        BY <2>1 DEF Store!MaySkip, Store!Applicable, Store!ContentOf, ContentOf, TitleOf
<1>9. \A s \in Request : Fate(s) = "open" =>
          /\ PassedOver(s) \subseteq PassedOver(s)'
          /\ PassedOver(s)' \subseteq Store!Indices(s)
          /\ \A i \in PassedOver(s)' \ PassedOver(s) : Store!MaySkip(table, s, i)
    <2>1. Items(r) = Store!Indices(r)
        BY <1>6 DEF Items, Store!Indices
    <2> QED
        BY <1>4, <1>5, <1>7, <1>8, <2>1, PassedOverItems
<1> QED
    BY <1>1, <1>3, <1>4, <1>5, <1>9, SkipShape

\* An item is passed over only when the table, or an earlier item of its
\* batch, stands in its way; to write one is not visible yet.
LEMMA ExecuteSkips ==
    ASSUME IInv, StoreInv, NEW r \in Request, Execute(r)
    PROVE  Store!Skip
<1>1. PICK i \in todo[r] :
          /\ i \in Items(r)
          /\ TitleOf(r, i) \in Title
          /\ job[r].mode \in Mode
          /\ todo' = [todo EXCEPT ![r] = todo[r] \ {i}]
          /\ \/ /\ write' = write
                /\ job[r].mode = "insert" => InsertConflict(r, i)
                /\ job[r].mode = "update" =>
                      table[TitleOf(r, i)] \in {None, ContentOf(job[r].items[i])}
                /\ job[r].mode = "delete" => table[TitleOf(r, i)] = None
             \/ /\ Result(r, i) \in IF job[r].mode = "delete" THEN {None} ELSE Content
                /\ write' = [write EXCEPT ![r] =
                                [@ EXCEPT ![TitleOf(r, i)] = Result(r, i)]]
    BY ExecuteShape
<1> DEFINE t == TitleOf(r, i)
<1>2. phase[r] = "running" /\ UNCHANGED <<job, phase, answer, table>>
    BY DEF Execute
<1>3. /\ job[r] \in Job /\ job[r] # None /\ Accepted(job[r])
      /\ Store!Indices(r) = Items(r)
    BY <1>2, JobAssumption DEF IInv, JobsInOrder, Store!Indices, Items
<1>4. \A s \in Request : Fate(s)' = Fate(s)
    BY <1>2 DEF Fate
<1>5. /\ \A s \in Request \ {r} : todo'[s] = todo[s] /\ write'[s] = write[s]
      /\ todo'[r] = todo[r] \ {i}
    BY <1>1 DEF IInv, TypeOK
<1>6. \A s \in Request \ {r} : PassedOver(s)' = PassedOver(s)
    BY <1>2, <1>5 DEF PassedOver, Items, Written, TitleOf
<1>7. /\ PassedOver(r) = {k \in Items(r) \ todo[r] : ~Written(r, k)}
      /\ PassedOver(r)' = {k \in Items(r) \ todo'[r] : ~Written(r, k)'}
    BY <1>2 DEF PassedOver, Items
<1>8. /\ PassedOver(r) \subseteq PassedOver(r)'
      /\ \A k \in PassedOver(r)' \ PassedOver(r) : Store!MaySkip(table, r, k)
    <2>1. CASE /\ write' = write
               /\ job[r].mode = "insert" => InsertConflict(r, i)
               /\ job[r].mode = "update" => table[t] \in {None, ContentOf(job[r].items[i])}
               /\ job[r].mode = "delete" => table[t] = None
        <3>1. \A k \in Items(r) : Written(r, k)' = Written(r, k)
            BY <1>2, <2>1 DEF Written, TitleOf
        <3>2. PassedOver(r) \subseteq PassedOver(r)' /\ PassedOver(r)' \subseteq PassedOver(r) \cup {i}
            BY <1>5, <1>7, <3>1
        <3>3. Store!MaySkip(table, r, i)
            <4>1. CASE job[r].mode = "insert"
                <5>1. PICK u \in Title : /\ Fold[u] = Fold[t]
                                         /\ RowExists(u) \/ write[r][u] # Untouched
                    BY <2>1, <4>1 DEF InsertConflict
                <5>2. CASE RowExists(u)
                    BY <4>1, <5>1, <5>2
                    DEF RowExists, Store!MaySkip, Store!Applicable, Store!Collides, TitleOf
                <5>3. CASE write[r][u] # Untouched
                    <6>1. PICK k \in Items(r) \ todo[r] : TitleOf(r, k) = u
                        BY <5>3 DEF StoreInv, WritesFromItems
                    <6>2. k < i
                        BY <1>1, <1>2, <4>1, <6>1 DEF StoreInv, InsertsInTurn
                    <6>3. k \in Store!Indices(r) \ PassedOver(r)
                        BY <1>3, <1>7, <5>3, <6>1 DEF Written
                    <6>4. Store!YieldsToMate(r, i)
                        BY <4>1, <5>1, <6>1, <6>2, <6>3 DEF Store!YieldsToMate, TitleOf
                    <6> QED
                        BY <6>4 DEF Store!MaySkip
                <5> QED
                    BY <5>1, <5>2, <5>3
            <4>2. CASE job[r].mode # "insert"
                BY <1>1, <2>1, <4>2
                DEF Mode, Store!MaySkip, Store!Applicable, Store!ContentOf, ContentOf, TitleOf
            <4> QED
                BY <4>1, <4>2
        <3> QED
            BY <3>2, <3>3
    <2>2. CASE /\ Result(r, i) \in IF job[r].mode = "delete" THEN {None} ELSE Content
               /\ write' = [write EXCEPT ![r] = [@ EXCEPT ![t] = Result(r, i)]]
        <3>1. /\ write'[r][t] = Result(r, i)
              /\ \A u \in Title \ {t} : write'[r][u] = write[r][u]
            BY <1>1, <2>2 DEF IInv, TypeOK
        <3>2. Written(r, i)'
            BY <1>2, <2>2, <3>1, UntouchedAssumption DEF Written, TitleOf
        <3>3. \A k \in Items(r) \ {i} : Written(r, k)' = Written(r, k)
            <4> SUFFICES ASSUME NEW k \in Items(r) \ {i}
                         PROVE  Written(r, k)' = Written(r, k)
                OBVIOUS
            <4>1. TitleOf(r, k) # t
                BY <1>1, <1>2, DistinctTitles DEF IInv
            <4>2. TitleOf(r, k) \in Title
                BY <1>3, AcceptedItem DEF Items, TitleOf
            <4> QED
                BY <1>2, <3>1, <4>1, <4>2 DEF Written, TitleOf
        <3> QED
            BY <1>1, <1>5, <1>7, <3>2, <3>3
    <2> QED
        BY <1>1, <2>1, <2>2
<1>9. \A s \in Request : Fate(s) = "open" =>
          /\ PassedOver(s) \subseteq PassedOver(s)'
          /\ PassedOver(s)' \subseteq Store!Indices(s)
          /\ \A k \in PassedOver(s)' \ PassedOver(s) : Store!MaySkip(table, s, k)
    BY <1>3, <1>6, <1>7, <1>8, PassedOverItems
<1>10. Fate(r) = "open"
    BY <1>2 DEF Fate
<1> QED
    BY <1>2, <1>4, <1>6, <1>9, <1>10, SkipShape

\* What a batch has written when it is through is what its items ask for.
LEMMA WrittenItems ==
    ASSUME IInv, StoreInv, NEW r \in Request, phase[r] = "running",
           NEW i \in Items(r), Written(r, i)
    PROVE  /\ TitleOf(r, i) \in Title
           /\ write[r][TitleOf(r, i)] = Result(r, i)
           /\ Store!Applicable(table, job[r].mode, job[r].items[i])
<1> DEFINE t == TitleOf(r, i)
<1>1. job[r] \in Job /\ Accepted(job[r]) /\ job[r].mode \in Mode
    BY JobShape DEF IInv, JobsInOrder
<1>2. t \in Title /\ write[r][t] # Untouched
    BY <1>1, AcceptedItem DEF Items, TitleOf, Written
<1>3. PICK k \in Items(r) : TitleOf(r, k) = t /\ write[r][t] = Result(r, k)
    BY <1>2 DEF StoreInv, WritesFromItems
<1>4. write[r][t] = Result(r, i)
    BY <1>3, DistinctTitles DEF IInv
<1>5. IF job[r].mode = "insert"
      THEN \A u \in Title : Fold[u] = Fold[t] => table[u] = None
      ELSE table[t] \notin {None, write[r][t]}
    BY <1>2 DEF IInv, WritesFitTable
<1>6. Store!Applicable(table, job[r].mode, job[r].items[i])
    <2>1. CASE job[r].mode = "insert"
        BY <1>5, <2>1 DEF Store!Applicable, Store!Collides, TitleOf
    <2>2. CASE job[r].mode = "update"
        BY <1>4, <1>5, <2>2
        DEF Store!Applicable, Store!ContentOf, ContentOf, Result, TitleOf
    <2>3. CASE job[r].mode = "delete"
        BY <1>5, <2>3 DEF Store!Applicable, TitleOf
    <2> QED
        BY <1>1, <2>1, <2>2, <2>3 DEF Mode
<1> QED
    BY <1>2, <1>4, <1>6

\* A commit applies, to the table as it is now, exactly the items that were
\* not passed over; and whoever loses a row by it may pass over that row.
LEMMA CommitApplies ==
    ASSUME IInv, StoreInv, NEW r \in Request, Commit(r)
    PROVE  Store!Apply(r)
<1>1. /\ phase[r] = "running" /\ todo[r] = {} /\ job' = job
      /\ phase' = [phase EXCEPT ![r] = "committed"]
      /\ answer' = [answer EXCEPT ![r] = AnswerTo(r)]
      /\ write' = [write EXCEPT ![r] = NoWrite]
      /\ todo' = [s \in Request |-> todo[s] \ Orphaned(r, s)]
    BY DEF Commit, Finish, Forget
<1>2. /\ \A s \in Request \ {r} :
            /\ phase'[s] = phase[s] /\ answer'[s] = answer[s] /\ write'[s] = write[s]
            /\ todo'[s] = todo[s] \ Orphaned(r, s)
      /\ phase'[r] = "committed" /\ answer'[r] = AnswerTo(r)
    BY <1>1 DEF IInv, TypeOK, ServiceTypeOK
<1>3. /\ job[r] # None /\ Fate(r) = "open" /\ Fate(r)' = "applied"
      /\ \A s \in Request \ {r} : Fate(s)' = Fate(s)
      /\ Store!Indices(r) = Items(r)
    BY <1>1, <1>2, JobAssumption DEF IInv, JobsInOrder, Fate, Store!Indices, Items
<1>4. PassedOver(r) = {i \in Items(r) : ~Written(r, i)}
    BY <1>1 DEF PassedOver
<1>5. PassedOver(r)' = PassedOver(r)
    <2>1. PassedOver(r)' = {i \in Items(r) : AnswerTo(r)[i] # {"done"}}
        BY <1>1, <1>2 DEF PassedOver, Items
    <2>2. \A i \in Items(r) : AnswerTo(r)[i] = {"done"} <=> Written(r, i)
        BY DEF AnswerTo
    <2> QED
        BY <1>4, <2>1, <2>2
<1>6. \A i \in Store!Indices(r) \ PassedOver(r) :
          /\ TitleOf(r, i) \in Title /\ Written(r, i)
          /\ write[r][TitleOf(r, i)] = Result(r, i)
          /\ Store!Applicable(table, job[r].mode, job[r].items[i])
    BY <1>1, <1>3, <1>4, WrittenItems
<1>7. table' = Store!Applied(r)
    <2> SUFFICES ASSUME NEW t \in Title
                 PROVE  (IF write[r][t] = Untouched THEN table[t] ELSE write[r][t])
                        = Store!Applied(r)[t]
        BY DEF Commit, Store!Applied
    <2> DEFINE Hit(n) == n \in Store!Indices(r) \ PassedOver(r) /\ TitleOf(r, n) = t
    <2>1. CASE write[r][t] = Untouched
        <3>1. ~\E n : Hit(n)
            BY <1>6, <2>1 DEF Written
        <3> QED
            BY <2>1, <3>1 DEF Store!Applied, TitleOf
    <2>2. CASE write[r][t] # Untouched
        <3>1. PICK i \in Items(r) : TitleOf(r, i) = t /\ write[r][t] = Result(r, i)
            BY <2>2 DEF StoreInv, WritesFromItems
        <3>2. i \in Store!Indices(r) \ PassedOver(r)
            BY <1>3, <1>4, <2>2, <3>1 DEF Written
        <3>3. \A n \in Store!Indices(r) \ PassedOver(r) : TitleOf(r, n) = t => n = i
            BY <1>1, <1>3, <3>1, DistinctTitles DEF IInv
        <3> DEFINE c == CHOOSE n \in Store!Indices(r) \ PassedOver(r) :
                            job[r].items[n].title = t
        <3>4. c = i
            BY <3>1, <3>2, <3>3 DEF TitleOf
        <3>5. \E n \in Store!Indices(r) \ PassedOver(r) : job[r].items[n].title = t
            BY <3>1, <3>2 DEF TitleOf
        <3>6. Store!Applied(r)[t] = IF job[r].mode = "delete" THEN None
                                    ELSE Store!ContentOf(job[r].items[c])
            BY <3>5 DEF Store!Applied
        <3> HIDE DEF c
        <3> QED
            BY <2>2, <3>1, <3>4, <3>6 DEF Result, Store!ContentOf, ContentOf
    <2> QED
        BY <2>1, <2>2
<1>8. \A s \in Request \ {r} : Fate(s) # "open" => PassedOver(s)' = PassedOver(s)
    BY <1>1, <1>2 DEF Fate, PassedOver, Items
<1>9. ASSUME NEW s \in Request \ {r}, Fate(s) = "open"
      PROVE  /\ PassedOver(s) \subseteq PassedOver(s)'
             /\ PassedOver(s)' \subseteq Store!Indices(s)
             /\ \A i \in PassedOver(s)' \ PassedOver(s) : Store!MaySkip(table', s, i)
    <2>1. CASE phase[s] # "running"
        <3>1. PassedOver(s)' = PassedOver(s)
            BY <1>2, <1>9, <2>1 DEF Fate, PassedOver
        <3> QED
            BY <1>9, <3>1, PassedOverItems
    <2>2. CASE phase[s] = "running"
        <3>1. /\ job[s] # None /\ Store!Indices(s) = Items(s)
              /\ job[s] \in Job /\ Accepted(job[s]) /\ job[s].mode \in Mode
            BY <2>2, JobAssumption, JobShape DEF IInv, JobsInOrder, Store!Indices, Items
        <3>2. /\ PassedOver(s) = {i \in Items(s) \ todo[s] : ~Written(s, i)}
              /\ PassedOver(s)' = {i \in Items(s) \ todo'[s] : ~Written(s, i)}
            BY <1>1, <1>2, <2>2 DEF PassedOver, Items, Written, TitleOf
        <3>3. PassedOver(s)' \ PassedOver(s) \subseteq Orphaned(r, s) \cap Items(s)
            BY <1>2, <3>2
        <3>4. ASSUME NEW i \in Orphaned(r, s) \cap Items(s)
              PROVE  Store!MaySkip(table', s, i)
            <4>1. TitleOf(s, i) \in Title
                BY <3>1, AcceptedItem DEF Items, TitleOf
            <4>2. job[s].mode # "insert" /\ write[r][TitleOf(s, i)] = None
                BY DEF Orphaned
            <4>3. table'[TitleOf(s, i)] = None
                BY <4>1, <4>2, UntouchedAssumption DEF Commit
            <4> QED
                BY <3>1, <4>2, <4>3 DEF Mode, Store!MaySkip, Store!Applicable, TitleOf
        <3> QED
            BY <1>2, <3>1, <3>2, <3>3, <3>4
    <2> QED
        BY <2>1, <2>2
<1>10. Store!SkipMore(table', {s \in Request \ {r} : Fate(s) = "open"})
    BY <1>9 DEF Store!SkipMore
<1>11. \A i, k \in Store!Indices(r) \ PassedOver(r) : Store!Mates(r, i, k) => i = k
    <2> SUFFICES ASSUME NEW i \in Store!Indices(r) \ PassedOver(r),
                        NEW k \in Store!Indices(r) \ PassedOver(r), Store!Mates(r, i, k)
                 PROVE  i = k
        OBVIOUS
    <2>1. /\ i \in Items(r) /\ Written(r, i) /\ TitleOf(r, i) \in Title
          /\ k \in Items(r) /\ Written(r, k) /\ TitleOf(r, k) \in Title
        BY <1>3, <1>6
    <2>2. job[r].mode = "insert" /\ Fold[TitleOf(r, i)] = Fold[TitleOf(r, k)]
        BY DEF Store!Mates, TitleOf
    <2>3. TitleOf(r, i) = TitleOf(r, k)
        BY <2>1, <2>2 DEF IInv, WritesFitTable, Written
    <2> QED
        BY <1>1, <2>1, <2>3, DistinctTitles DEF IInv
<1> QED
    BY <1>1, <1>3, <1>5, <1>6, <1>7, <1>8, <1>10, <1>11 DEF Store!Apply

\* An abort is the failure of the whole batch.
LEMMA AbortFails ==
    ASSUME IInv, NEW r \in Request, Abort(r)
    PROVE  Store!Fail(r)
<1>1. /\ phase[r] = "running" /\ UNCHANGED <<job, table>>
      /\ phase' = [phase EXCEPT ![r] = "aborted"]
      /\ answer' = [answer EXCEPT ![r] = <<>>]
      /\ write' = [write EXCEPT ![r] = NoWrite]
      /\ todo' = [todo EXCEPT ![r] = {}]
    BY DEF Abort, Finish, Forget
<1>2. /\ \A s \in Request \ {r} :
            /\ phase'[s] = phase[s] /\ answer'[s] = answer[s]
            /\ write'[s] = write[s] /\ todo'[s] = todo[s]
      /\ phase'[r] = "aborted"
    BY <1>1 DEF IInv, TypeOK, ServiceTypeOK
<1>3. /\ job[r] # None /\ Fate(r) = "open" /\ Fate(r)' = "failed"
      /\ \A s \in Request \ {r} : Fate(s)' = Fate(s)
    BY <1>1, <1>2, JobAssumption DEF IInv, JobsInOrder, Fate
<1>4. /\ PassedOver(r)' = {}
      /\ \A s \in Request \ {r} : PassedOver(s)' = PassedOver(s)
    BY <1>1, <1>2 DEF PassedOver, Items, Written, TitleOf
<1> QED
    BY <1>1, <1>3, <1>4 DEF Store!Fail

\* PostgreSQL's procedure keeps every promise of FeedStore, for any batches,
\* titles, pool and faults: batches take effect at once or not at all, on
\* items that apply to the table at that moment, and pass over an item only
\* if something stood in its way since the request came.
THEOREM StoreIsImplemented == Spec => ImplementsFeedStore
<1>1. Init => Store!Init
    BY DEF Init, ServiceInit, Store!Init, Fate, PassedOver
<1>2. IInv /\ StoreInv /\ [Next]_vars => [Store!Next]_(Store!storeVars)
    <2> SUFFICES ASSUME IInv, StoreInv, [Next]_vars
                 PROVE  Store!Next \/ UNCHANGED Store!storeVars
        OBVIOUS
    <2>1. ASSUME NEW r \in Request, ServiceStep(r), UNCHANGED <<todo, seen, write>>
          PROVE  Store!Next \/ UNCHANGED Store!storeVars
        BY <2>1, ReceiveSubmits, ServiceStutters DEF ServiceStep, Store!Next
    <2>2. ASSUME NEW r \in Request, Begin(r) \/ Execute(r)
          PROVE  Store!Next
        BY <2>2, BeginSkips, ExecuteSkips DEF Store!Next
    <2>3. ASSUME NEW r \in Request, Commit(r) \/ Abort(r)
          PROVE  Store!Next
        BY <2>3, CommitApplies, AbortFails DEF Store!Next
    <2>4. CASE UNCHANGED vars
        BY <2>4 DEF vars, Store!storeVars, Fate, PassedOver, Items, Written, TitleOf
    <2> QED
        BY <2>1, <2>2, <2>3, <2>4
        DEF Next, RequestStep, EngineStep, AbortOnNull, AbortOnDeadlock, AbortOnLoss,
            Terminated
<1> QED
    BY <1>1, <1>2, StoreInvariance, PTL DEF Spec, ImplementsFeedStore, Store!Spec

\* A batch that FeedStore lets take effect leaves titles as unique as it
\* finds them.
LEMMA ApplyKeepsTitlesUnique ==
    ASSUME UniqueTitle, NEW r \in Request, job[r] \in Job, Store!Apply(r)
    PROVE  UniqueTitle'
<1> DEFINE mode == job[r].mode
           Hit(n, t) == n \in Store!Indices(r) \ PassedOver(r) /\ job[r].items[n].title = t
<1>1. mode \in Mode
    BY JobShape
<1>2. \A n, t : Hit(n, t) => Store!Applicable(table, mode, job[r].items[n])
    BY DEF Store!Apply
<1>3. \A t \in Title : (~\E n : Hit(n, t)) => table'[t] = table[t]
    BY DEF Store!Apply, Store!Applied
<1>4. mode = "delete" => \A t \in Title : table'[t] # None => table[t] # None
    BY DEF Store!Apply, Store!Applied
<1>5. mode = "update" => \A t \in Title : table'[t] # None => table[t] # None
    <2> SUFFICES ASSUME mode = "update", NEW t \in Title, table'[t] # None
                 PROVE  table[t] # None
        OBVIOUS
    <2>1. CASE \E n : Hit(n, t)
        BY <1>2, <2>1 DEF Store!Applicable
    <2>2. CASE ~\E n : Hit(n, t)
        BY <1>3, <2>2
    <2> QED
        BY <2>1, <2>2
<1>6. CASE mode \in {"update", "delete"}
    BY <1>4, <1>5, <1>6 DEF UniqueTitle, UniqueIn
<1>7. CASE mode = "insert"
    <2> SUFFICES ASSUME NEW t \in Title, NEW u \in Title, table'[t] # None, table'[u] # None,
                        Fold[t] = Fold[u]
                 PROVE  t = u
        BY DEF UniqueTitle, UniqueIn
    <2>1. ASSUME NEW n, NEW v \in Title, NEW w \in Title, Hit(n, v), Fold[v] = Fold[w]
          PROVE  table[w] = None
        BY <1>2, <1>7, <2>1 DEF Store!Applicable, Store!Collides
    <2>2. ASSUME NEW n, NEW k, Hit(n, t), Hit(k, u)
          PROVE  t = u
        <3>1. Store!Mates(r, n, k)
            BY <1>7, <2>2 DEF Store!Mates
        <3>2. n = k
            BY <2>2, <3>1 DEF Store!Apply
        <3> QED
            BY <2>2, <3>2
    <2>3. CASE (\E n : Hit(n, t)) /\ ~\E k : Hit(k, u)
        BY <1>3, <2>1, <2>3
    <2>4. CASE (\E n : Hit(n, u)) /\ ~\E k : Hit(k, t)
        BY <1>3, <2>1, <2>4
    <2>5. CASE (~\E n : Hit(n, t)) /\ ~\E k : Hit(k, u)
        BY <1>3, <2>5 DEF UniqueTitle, UniqueIn
    <2> QED
        BY <2>2, <2>3, <2>4, <2>5
<1> QED
    BY <1>1, <1>6, <1>7 DEF Mode

\* Whatever keeps the promises of FeedStore keeps titles unique: this needs
\* nothing of locks, snapshots or the order in which items are tried.
THEOREM StoreKeepsTitlesUnique == Store!Spec => []UniqueTitle
<1> DEFINE Jobs == job \in [Request -> Job \cup {None}]
<1>1. Store!Init => Jobs /\ UniqueTitle
    BY InitialTableAssumption DEF Store!Init, UniqueTitle
<1>2. Jobs /\ UniqueTitle /\ [Store!Next]_(Store!storeVars) => (Jobs /\ UniqueTitle)'
    <2> SUFFICES ASSUME Jobs, UniqueTitle, Store!Next \/ UNCHANGED Store!storeVars
                 PROVE  (Jobs /\ UniqueTitle)'
        OBVIOUS
    <2>1. ASSUME table' = table, job' = job \/ \E r \in Request : Store!Submit(r)
          PROVE  (Jobs /\ UniqueTitle)'
        <3>1. Jobs'
            BY <2>1 DEF Store!Submit
        <3> QED
            BY <2>1, <3>1 DEF UniqueTitle, UniqueIn
    <2>2. ASSUME NEW r \in Request, Store!Apply(r)
          PROVE  (Jobs /\ UniqueTitle)'
        <3>1. job' = job /\ job[r] \in Job
            BY <2>2 DEF Store!Apply
        <3> QED
            BY <2>2, <3>1, ApplyKeepsTitlesUnique
    <2> QED
        BY <2>1, <2>2
        DEF Store!Next, Store!Skip, Store!Submit, Store!Fail, Store!storeVars
<1> QED
    BY <1>1, <1>2, PTL DEF Store!Spec

-----------------------------------------------------------------------------
(* The books.                                                              *)

Inserters(k) == {s \in Request : Reported(s, "insert", k)}
Deleters(k) == {s \in Request : Reported(s, "delete", k)}

\* A step that neither answers a request nor changes the table leaves the
\* books as they are.
LEMMA QuietBooks ==
    ASSUME StoreInv, NEW k, table' = table,
           \A s \in Request :
               \/ answer'[s] = answer[s] /\ (phase[s] # "idle" => job'[s] = job[s])
               \/ answer[s] = <<>> /\ answer'[s] = <<>>
    PROVE  /\ Inserters(k)' = Inserters(k) /\ Deleters(k)' = Deleters(k)
           /\ Present(table, k)' = Present(table, k)
<1>1. ASSUME NEW s \in Request, NEW mode
      PROVE  Reported(s, mode, k)' <=> Reported(s, mode, k)
    <2>1. CASE answer[s] = <<>> /\ answer'[s] = <<>>
        BY <2>1 DEF Reported
    <2>2. CASE answer'[s] = answer[s] /\ job'[s] = job[s]
        BY <2>2 DEF Reported, TitleOf
    <2>3. CASE answer'[s] = answer[s] /\ phase[s] = "idle"
        BY <2>1, <2>3 DEF StoreInv, AnswersInOrder
    <2> QED
        BY <2>1, <2>2, <2>3
<1> QED
    BY <1>1 DEF Inserters, Deleters, Present

\* A commit answers one request, which had no answer before: it reports a
\* title exactly if it has written one that folds to it.
LEMMA CommitReports ==
    ASSUME IInv, StoreInv, NEW r \in Request, NEW k, Commit(r)
    PROVE  /\ r \notin Inserters(k) /\ r \notin Deleters(k)
           /\ \A s \in Request \ {r} : /\ s \in Inserters(k)' <=> s \in Inserters(k)
                                       /\ s \in Deleters(k)' <=> s \in Deleters(k)
           /\ r \in Inserters(k)' <=>
                  /\ job[r].mode = "insert"
                  /\ \E t \in Title : Fold[t] = k /\ write[r][t] # Untouched
           /\ r \in Deleters(k)' <=>
                  /\ job[r].mode = "delete"
                  /\ \E t \in Title : Fold[t] = k /\ write[r][t] # Untouched
<1>1. /\ phase[r] = "running" /\ job' = job
      /\ answer' = [answer EXCEPT ![r] = AnswerTo(r)]
    BY DEF Commit, Finish
<1>2. /\ \A s \in Request \ {r} : answer'[s] = answer[s]
      /\ answer'[r] = AnswerTo(r)
    BY <1>1 DEF IInv, TypeOK, ServiceTypeOK
<1>3. answer[r] = <<>>
    BY <1>1 DEF StoreInv, AnswersInOrder
<1>4. job[r] \in Job /\ job[r] # None /\ Accepted(job[r])
    BY <1>1, JobAssumption DEF IInv, JobsInOrder
<1>5. (\E i \in DOMAIN AnswerTo(r) : "done" \in AnswerTo(r)[i] /\ Fold[TitleOf(r, i)] = k)
      <=> \E t \in Title : Fold[t] = k /\ write[r][t] # Untouched
    <2>1. /\ DOMAIN AnswerTo(r) = Items(r)
          /\ \A i \in Items(r) : "done" \in AnswerTo(r)[i] <=> Written(r, i)
        BY DEF AnswerTo
    <2>2. \A i \in Items(r) : TitleOf(r, i) \in Title
        BY <1>4, AcceptedItem DEF Items, TitleOf
    <2>3. \A t \in Title : write[r][t] # Untouched => \E i \in Items(r) : TitleOf(r, i) = t
        BY DEF StoreInv, WritesFromItems
    <2> QED
        BY <2>1, <2>2, <2>3 DEF Written
<1>6. \A mode : Reported(r, mode, k)' <=>
          /\ job[r].mode = mode
          /\ \E t \in Title : Fold[t] = k /\ write[r][t] # Untouched
    BY <1>1, <1>2, <1>4, <1>5 DEF Reported, TitleOf
<1>7. \A mode : ~Reported(r, mode, k)
    BY <1>3 DEF Reported
<1>8. \A s \in Request \ {r} : \A mode : Reported(s, mode, k)' <=> Reported(s, mode, k)
    BY <1>1, <1>2 DEF Reported, TitleOf
<1> QED
    BY <1>6, <1>7, <1>8 DEF Inserters, Deleters

\* What a commit makes of a title.
LEMMA CommitMoves ==
    ASSUME IInv, StoreInv, NEW r \in Request, NEW k, Commit(r)
    PROVE  LET wrote == \E t \in Title : Fold[t] = k /\ write[r][t] # Untouched IN
           /\ job[r].mode \in Mode
           /\ wrote /\ job[r].mode = "insert" =>
                  Present(table, k) = 0 /\ Present(table, k)' = 1
           /\ wrote /\ job[r].mode = "delete" =>
                  Present(table, k) = 1 /\ Present(table, k)' = 0
           /\ ~wrote \/ job[r].mode = "update" => Present(table, k)' = Present(table, k)
<1> DEFINE wrote == \E t \in Title : Fold[t] = k /\ write[r][t] # Untouched
<1>1. /\ phase[r] = "running" /\ job[r].mode \in Mode
      /\ \A t \in Title : table'[t] = IF write[r][t] = Untouched THEN table[t] ELSE write[r][t]
    BY JobShape DEF Commit, IInv, JobsInOrder
<1>2. CASE wrote /\ job[r].mode = "insert"
    <2>1. PICK t \in Title : Fold[t] = k /\ write[r][t] # Untouched
        BY <1>2
    <2>2. write[r][t] # None /\ \A u \in Title : Fold[u] = k => table[u] = None
        BY <1>2, <2>1 DEF IInv, WritesFitTable
    <2> QED
        BY <1>1, <1>2, <2>1, <2>2 DEF Present
<1>3. CASE wrote /\ job[r].mode = "delete"
    <2>1. PICK t \in Title : Fold[t] = k /\ write[r][t] # Untouched
        BY <1>3
    <2>2. table[t] # None
        BY <1>3, <2>1 DEF IInv, WritesFitTable
    <2>3. \A u \in Title : write[r][u] # Untouched => write[r][u] = None
        BY <1>3 DEF StoreInv, WritesFromItems, Result
    <2>4. \A u \in Title : Fold[u] = k => table'[u] = None
        BY <1>1, <2>1, <2>2, <2>3 DEF IInv, UniqueTitle, UniqueIn
    <2> QED
        BY <1>1, <1>3, <2>1, <2>2, <2>4 DEF Present
<1>4. CASE ~wrote
    <2>1. \A t \in Title : Fold[t] = k => table'[t] = table[t]
        BY <1>1, <1>4
    <2> QED
        BY <1>1, <1>4, <2>1 DEF Present
<1>5. CASE job[r].mode = "update"
    <2>1. \A t \in Title : table'[t] # None <=> table[t] # None
        BY <1>1, <1>5 DEF IInv, WritesFitTable, StoreInv, WritesFromItems
    <2> QED
        BY <1>1, <1>5, <2>1 DEF Present
<1> QED
    BY <1>1, <1>2, <1>3, <1>4, <1>5 DEF Mode

\* Every step keeps the books on every title.
LEMMA BooksKept ==
    ASSUME IsFiniteSet(Request), IInv, StoreInv, [Next]_vars, NEW k,
           Balanced(Reported, k)
    PROVE  Balanced(Reported, k)'
<1> DEFINE I == Inserters(k)
           D == Deleters(k)
           p == Present(table, k)
           start == Present(InitialTable, k)
<1>1. Cardinality(I) + start = Cardinality(D) + p
    BY DEF Balanced, Inserters, Deleters
<1>2. /\ I \in SUBSET Request /\ D \in SUBSET Request
      /\ I' \in SUBSET Request /\ D' \in SUBSET Request
      /\ start \in Int /\ p \in Int
    BY DEF Inserters, Deleters, Present
<1>3. SUFFICES \/ I' = I /\ D' = D /\ p' = p
               \/ \E r \in Request \ I : I' = I \cup {r} /\ D' = D /\ p' = p + 1
               \/ \E r \in Request \ D : I' = I /\ D' = D \cup {r} /\ p' = p - 1
    <2>1. p' \in Int
        BY DEF Present
    <2> HIDE DEF I, D, p, start
    <2>2. Cardinality(I') + start = Cardinality(D') + p'
        BY <1>1, <1>2, <1>3, <2>1, BooksStep
    <2> QED
        BY <2>2 DEF Balanced, Inserters, Deleters, I, D, p, start
<1>4. ASSUME table' = table,
             \A s \in Request :
                 \/ answer'[s] = answer[s] /\ (phase[s] # "idle" => job'[s] = job[s])
                 \/ answer[s] = <<>> /\ answer'[s] = <<>>
      PROVE  I' = I /\ D' = D /\ p' = p
    BY <1>4, QuietBooks
<1>5. ASSUME NEW r \in Request, ServiceStep(r)
      PROVE  I' = I /\ D' = D /\ p' = p
    BY <1>4, <1>5, ServiceFrame DEF IInv, TypeOK
<1>6. ASSUME NEW r \in Request, Begin(r) \/ Execute(r)
      PROVE  I' = I /\ D' = D /\ p' = p
    BY <1>4, <1>6 DEF Begin, Acquire, Execute
<1>7. ASSUME NEW r \in Request, Abort(r)
      PROVE  I' = I /\ D' = D /\ p' = p
    <2>1. /\ phase[r] = "running" /\ UNCHANGED <<job, table>>
          /\ answer' = [answer EXCEPT ![r] = <<>>]
        BY <1>7 DEF Abort, Finish
    <2>2. answer[r] = <<>>
        BY <2>1 DEF StoreInv, AnswersInOrder
    <2>3. /\ \A s \in Request \ {r} : answer'[s] = answer[s]
          /\ answer'[r] = <<>>
        BY <2>1 DEF IInv, TypeOK, ServiceTypeOK
    <2> QED
        BY <1>4, <2>1, <2>2, <2>3
<1>8. ASSUME NEW r \in Request, Commit(r)
      PROVE  \/ I' = I /\ D' = D /\ p' = p
             \/ r \in Request \ I /\ I' = I \cup {r} /\ D' = D /\ p' = p + 1
             \/ r \in Request \ D /\ I' = I /\ D' = D \cup {r} /\ p' = p - 1
    <2> DEFINE wrote == \E t \in Title : Fold[t] = k /\ write[r][t] # Untouched
    <2>1. /\ r \notin I /\ r \notin D
          /\ \A s \in Request \ {r} : (s \in I' <=> s \in I) /\ (s \in D' <=> s \in D)
          /\ r \in I' <=> job[r].mode = "insert" /\ wrote
          /\ r \in D' <=> job[r].mode = "delete" /\ wrote
        BY <1>8, CommitReports
    <2>2. /\ job[r].mode \in Mode
          /\ wrote /\ job[r].mode = "insert" => p = 0 /\ p' = 1
          /\ wrote /\ job[r].mode = "delete" => p = 1 /\ p' = 0
          /\ ~wrote \/ job[r].mode = "update" => p' = p
        BY <1>8, CommitMoves
    <2> HIDE DEF I, D, p, wrote
    <2>3. CASE wrote /\ job[r].mode = "insert"
        BY <1>2, <2>1, <2>2, <2>3
    <2>4. CASE wrote /\ job[r].mode = "delete"
        BY <1>2, <2>1, <2>2, <2>4
    <2>5. CASE ~wrote \/ job[r].mode = "update"
        <3>1. r \notin I' /\ r \notin D'
            BY <2>1, <2>5
        <3>2. I' = I
            BY <1>2, <2>1, <3>1
        <3>3. D' = D
            BY <1>2, <2>1, <3>1
        <3> QED
            BY <2>2, <2>5, <3>2, <3>3
    <2> QED
        BY <2>2, <2>3, <2>4, <2>5 DEF Mode
<1>9. CASE UNCHANGED vars
    BY <1>4, <1>9 DEF vars
<1> HIDE DEF I, D, p, start
<1> QED
    BY <1>5, <1>6, <1>7, <1>8, <1>9
    DEF Next, RequestStep, EngineStep, AbortOnNull, AbortOnDeadlock, AbortOnLoss, Terminated

\* Of any number of batches that race over a title, in whatever order and
\* with whatever failures, those that report they inserted it outnumber those
\* that report they deleted it by what the table gained.
THEOREM ReportsAddUp ==
    ASSUME IsFiniteSet(Request)
    PROVE  Spec => []Accounting
<1>1. Init => Accounting
    <2> SUFFICES ASSUME Init, NEW k PROVE Balanced(Reported, k)
        BY DEF Accounting
    <2>1. Inserters(k) = {} /\ Deleters(k) = {} /\ table = InitialTable
        BY DEF Init, ServiceInit, Inserters, Deleters, Reported
    <2>2. Present(table, k) \in Int
        BY DEF Present
    <2> QED
        BY <2>1, <2>2, FS_EmptySet DEF Balanced, Inserters, Deleters
<1>2. IInv /\ StoreInv /\ Accounting /\ [Next]_vars => Accounting'
    BY BooksKept DEF Accounting
<1> QED
    BY <1>1, <1>2, StoreInvariance, PTL DEF Spec

=============================================================================
