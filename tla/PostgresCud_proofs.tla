-------------------------- MODULE PostgresCud_proofs --------------------------
(***************************************************************************)
(* Proofs about PostgresCud for any requests, titles, batches and pool.    *)
(*                                                                         *)
(* That titles stay unique is not inductive: a commit keeps it only if     *)
(* what the batch has written still fits the table, and that stays so only *)
(* if competitors with a colliding title are kept out.  IInv is all three  *)
(* together, with the facts about jobs that give the writes their types.   *)
(***************************************************************************)
EXTENDS PostgresCud, CudService_proofs, SequenceTheorems, TLAPS

\* What a statement has left to do are items of its batch.
TodoInBatch ==
    \A r \in Request :
        /\ todo[r] \subseteq Items(r)
        /\ phase[r] # "running" => todo[r] = {}

IInv ==
    /\ TypeOK
    /\ JobsInOrder
    /\ TodoInBatch
    /\ UniqueTitle
    /\ LocksExclude
    /\ WritesFitTable

-----------------------------------------------------------------------------
(* The initial states.                                                     *)

\* At the start nobody has written and the table is as migrated.
LEMMA InitInv == Init => IInv
<1> SUFFICES ASSUME Init
             PROVE  IInv
    OBVIOUS
<1> USE DEF Init, ServiceInit
<1>1. TypeOK
    <2>1. ServiceTypeOK
        BY InitialTableAssumption DEF ServiceTypeOK, Phase
    <2> QED
        BY <2>1 DEF TypeOK, NoWrite
<1>2. JobsInOrder /\ TodoInBatch
    BY DEF JobsInOrder, TodoInBatch
<1>3. UniqueTitle
    BY InitialTableAssumption DEF UniqueTitle
<1>4. LocksExclude /\ WritesFitTable
    BY DEF LocksExclude, WritesFitTable, Holds, NoWrite
<1> QED
    BY <1>1, <1>2, <1>3, <1>4 DEF IInv

-----------------------------------------------------------------------------
(* Steps that write nothing.                                               *)

\* A step that leaves the table and the pending writes alone, and every
\* running batch running what it ran, keeps the locks and what they guard.
LEMMA QuietStep ==
    ASSUME UniqueTitle, LocksExclude, WritesFitTable,
           table' = table, write' = write,
           \A r \in Request : phase[r] = "running" =>
               phase'[r] = "running" /\ job'[r] = job[r]
    PROVE  UniqueTitle' /\ LocksExclude' /\ WritesFitTable'
<1>1. UniqueTitle'
    BY DEF UniqueTitle, UniqueIn
<1>2. LocksExclude'
    BY DEF LocksExclude, WritesFitTable, Holds
<1>3. WritesFitTable'
    BY DEF WritesFitTable
<1> QED
    BY <1>1, <1>2, <1>3

\* Jobs keep their order when they only arrive as accepted, or are over.
LEMMA ServiceKeepsInv ==
    ASSUME IInv, NEW r \in Request, ServiceStep(r), UNCHANGED <<todo, seen, write>>
    PROVE  IInv'
<1> USE DEF IInv
<1>1. ASSUME NEW j \in Job, Receive(r, j)
      PROVE  IInv'
    <2> USE <1>1 DEF Receive
    <2>0. /\ phase' = [phase EXCEPT ![r] = IF Accepted(j) THEN "queued" ELSE "gone"]
          /\ reply' = [reply EXCEPT ![r] = IF Accepted(j) THEN @ ELSE Rejection(j)]
        BY DEF TypeOK, ServiceTypeOK
    <2>1. TypeOK'
        <3>1. phase' \in [Request -> Phase]
            BY <2>0 DEF TypeOK, ServiceTypeOK, Phase
        <3>2. reply' \in [Request -> {0, 200, 201, 400, 408, 415, 422, 500}]
            <4>1. ~Accepted(j) => Rejection(j) \in {400, 415, 422}
                BY RejectionStatus
            <4> QED
                BY <2>0, <4>1 DEF TypeOK, ServiceTypeOK
        <3> QED
            BY <3>1, <3>2 DEF TypeOK, ServiceTypeOK
    <2>2. JobsInOrder'
        BY DEF JobsInOrder, TypeOK, ServiceTypeOK
    <2>3. TodoInBatch'
        BY <2>0 DEF TodoInBatch, Items, TypeOK, ServiceTypeOK
    <2>4. UniqueTitle' /\ LocksExclude' /\ WritesFitTable'
        BY QuietStep DEF TypeOK, ServiceTypeOK
    <2> QED
        BY <2>1, <2>2, <2>3, <2>4
<1>2. CASE AcquireTimeout(r)
    <2> USE <1>2 DEF AcquireTimeout
    <2>1. TypeOK'
        BY DEF TypeOK, ServiceTypeOK, Phase
    <2>2. JobsInOrder' /\ TodoInBatch'
        BY DEF JobsInOrder, TodoInBatch, Items, TypeOK, ServiceTypeOK
    <2>3. UniqueTitle' /\ LocksExclude' /\ WritesFitTable'
        BY QuietStep DEF TypeOK, ServiceTypeOK
    <2> QED
        BY <2>1, <2>2, <2>3
<1>3. CASE LoseConnection(r)
    <2> USE <1>3 DEF LoseConnection
    <2>1. TypeOK'
        BY DEF TypeOK, ServiceTypeOK, Phase
    <2>2. JobsInOrder' /\ TodoInBatch'
        BY DEF JobsInOrder, TodoInBatch, Items, TypeOK, ServiceTypeOK
    <2>3. UniqueTitle' /\ LocksExclude' /\ WritesFitTable'
        BY QuietStep DEF TypeOK, ServiceTypeOK
    <2> QED
        BY <2>1, <2>2, <2>3
<1>4. CASE Respond(r)
    <2> USE <1>4 DEF Respond
    <2>1. TypeOK'
        <3>1. \A m, S : HttpStatus(m, S) \in {200, 201, 400}
            BY DEF HttpStatus
        <3> QED
            BY <3>1 DEF TypeOK, ServiceTypeOK, Phase
    <2>2. JobsInOrder' /\ TodoInBatch'
        BY DEF JobsInOrder, TodoInBatch, Items, TypeOK, ServiceTypeOK
    <2>3. UniqueTitle' /\ LocksExclude' /\ WritesFitTable'
        BY QuietStep DEF TypeOK, ServiceTypeOK
    <2> QED
        BY <2>1, <2>2, <2>3
<1>5. CASE CudTimeout(r)
    <2> USE <1>5 DEF CudTimeout
    <2>1. TypeOK'
        BY DEF TypeOK, ServiceTypeOK, Phase
    <2>2. JobsInOrder' /\ TodoInBatch'
        BY DEF JobsInOrder, TodoInBatch, Items, TypeOK, ServiceTypeOK
    <2>3. UniqueTitle' /\ LocksExclude' /\ WritesFitTable'
        BY QuietStep DEF TypeOK, ServiceTypeOK
    <2> QED
        BY <2>1, <2>2, <2>3
<1> QED
    BY <1>1, <1>2, <1>3, <1>4, <1>5 DEF ServiceStep

\* A batch begins with nothing written.
LEMMA BeginKeepsInv ==
    ASSUME IInv, NEW r \in Request, Begin(r)
    PROVE  IInv'
<1> USE DEF IInv, Begin, Acquire
<1>1. Items(r) \subseteq Nat
    BY JobShape DEF JobsInOrder, Items
<1>2. Targets(r) \subseteq Items(r)
    BY DEF Targets
<1>3. TypeOK'
    BY <1>1, <1>2 DEF TypeOK, ServiceTypeOK, Phase
<1>4. JobsInOrder'
    BY DEF JobsInOrder, TypeOK, ServiceTypeOK
<1>5. TodoInBatch'
    BY <1>2 DEF TodoInBatch, Items, TypeOK, ServiceTypeOK
<1>6. UniqueTitle' /\ LocksExclude' /\ WritesFitTable'
    BY QuietStep DEF TypeOK, ServiceTypeOK
<1> QED
    BY <1>3, <1>4, <1>5, <1>6

\* What Execute does to the pending writes of r when it tries item i.
LEMMA ExecuteWrites ==
    ASSUME IInv, NEW r \in Request, phase[r] = "running", NEW i \in todo[r],
           InsertItem(r, i) \/ UpdateItem(r, i) \/ DeleteItem(r, i)
    PROVE  LET t == TitleOf(r, i) IN
           /\ t \in Title
           /\ \/ write' = write
              \/ \E row \in Content \cup {None} :
                    /\ write' = [write EXCEPT ![r] = [@ EXCEPT ![t] = row]]
                    /\ job[r].mode = "insert" =>
                          row # None /\ ~InsertConflict(r, i)
                    /\ job[r].mode # "insert" => table[t] \notin {None, row}
<1> DEFINE t == TitleOf(r, i)
           item == job[r].items[i]
<1>1. /\ job[r] \in Job
      /\ Accepted(job[r])
      /\ i \in DOMAIN job[r].items
    BY DEF IInv, JobsInOrder, TodoInBatch, Items
<1>2. /\ t \in Title
      /\ job[r].mode = "insert" => ContentOf(item) \in Content
      /\ job[r].mode = "update" /\ item.feed_url # None
             => ContentOf(item) \in Content
    BY <1>1, AcceptedItem DEF TitleOf
<1>3. CASE InsertItem(r, i)
    BY <1>2, <1>3, NoneAssumption DEF InsertItem, Put
<1>4. CASE UpdateItem(r, i)
    <2>1. ContentOf(item).feed_url = item.feed_url
        BY DEF ContentOf
    <2> QED
        BY <1>2, <1>4, <2>1 DEF UpdateItem, Put, RowExists
<1>5. CASE DeleteItem(r, i)
    BY <1>2, <1>5 DEF DeleteItem, Put, RowExists
<1> QED
    BY <1>3, <1>4, <1>5

\* Trying an item writes at most one title, whose lock nobody else holds.
LEMMA ExecuteKeepsInv ==
    ASSUME IInv, NEW r \in Request, Execute(r)
    PROVE  IInv'
<1> USE DEF IInv
<1>1. PICK i \in NextItems(r) :
          /\ Blocker(r, i) = {}
          /\ InsertItem(r, i) \/ UpdateItem(r, i) \/ DeleteItem(r, i)
          /\ todo' = [todo EXCEPT ![r] = @ \ {i}]
    BY DEF Execute
<1>2. phase[r] = "running" /\ UNCHANGED <<job, phase, answer, outcome, reply, table, seen>>
    BY DEF Execute
<1>3. i \in todo[r]
    BY <1>1 DEF NextItems
<1> DEFINE t == TitleOf(r, i)
<1>4. /\ t \in Title
      /\ \/ write' = write
         \/ \E row \in Content \cup {None} :
               /\ write' = [write EXCEPT ![r] = [@ EXCEPT ![t] = row]]
               /\ job[r].mode = "insert" => row # None /\ ~InsertConflict(r, i)
               /\ job[r].mode # "insert" => table[t] \notin {None, row}
    BY <1>1, <1>2, <1>3, ExecuteWrites
<1>5. JobsInOrder' /\ UniqueTitle'
    BY <1>2 DEF JobsInOrder, UniqueTitle, UniqueIn
<1>6. TodoInBatch'
    BY <1>1, <1>2 DEF TodoInBatch, Items, TypeOK, ServiceTypeOK
<1>7. todo' \in [Request -> SUBSET Nat]
    BY <1>1 DEF TypeOK
<1> HIDE DEF t
<1>8. CASE write' = write
    <2>1. TypeOK'
        BY <1>2, <1>7, <1>8 DEF TypeOK, ServiceTypeOK
    <2>2. LocksExclude' /\ WritesFitTable'
        BY <1>2, <1>8, QuietStep
    <2> QED
        BY <1>5, <1>6, <2>1, <2>2
<1>9. ASSUME NEW row \in Content \cup {None},
             write' = [write EXCEPT ![r] = [@ EXCEPT ![t] = row]],
             job[r].mode = "insert" => row # None /\ ~InsertConflict(r, i),
             job[r].mode # "insert" => table[t] \notin {None, row}
      PROVE  IInv'
    <2>1. write \in [Request -> [Title -> Content \cup {None, Untouched}]]
        BY DEF TypeOK
    <2>2. /\ \A s \in Request, u \in Title :
                 s # r \/ u # t => write'[s][u] = write[s][u]
          /\ write'[r][t] = row
        BY <1>4, <1>9, <2>1
    <2>3. TypeOK'
        <3>1. write' \in [Request -> [Title -> Content \cup {None, Untouched}]]
            BY <1>4, <1>9, <2>1
        <3> QED
            BY <1>2, <1>7, <3>1 DEF TypeOK, ServiceTypeOK
    <2>4. LocksExclude'
        <3>1. \A s \in Request \ {r} : ~Holds(s, Fold[t])
            BY <1>1 DEF Blocker, t
        <3>2. \A s \in Request \ {r}, k \in Title : Holds(s, k)' => Holds(s, k)
            BY <1>2, <2>2 DEF Holds
        <3>3. \A k \in Title : Holds(r, k)' => Holds(r, k) \/ k = Fold[t]
            BY <1>2, <2>2 DEF Holds
        <3> QED
            BY <3>1, <3>2, <3>3 DEF LocksExclude
    <2>5. row # Untouched
        BY UntouchedAssumption
    <2>6. WritesFitTable'
        <3> SUFFICES ASSUME NEW s \in Request, NEW u \in Title,
                            write'[s][u] # Untouched
                     PROVE  /\ phase[s] = "running"
                            /\ IF job[s].mode = "insert"
                               THEN /\ write'[s][u] # None
                                    /\ \A v \in Title : Fold[v] = Fold[u] =>
                                          /\ table[v] = None
                                          /\ write'[s][v] # Untouched => v = u
                               ELSE table[u] \notin {None, write'[s][u]}
            BY <1>2 DEF WritesFitTable
        <3>1. CASE s # r
            BY <2>2, <3>1 DEF WritesFitTable
        <3>2. CASE s = r /\ u = t
            <4>1. CASE job[r].mode = "insert"
                BY <1>2, <1>9, <2>2, <3>2, <4>1 DEF InsertConflict, RowExists, t
            <4>2. CASE job[r].mode # "insert"
                BY <1>2, <1>9, <2>2, <3>2, <4>2
            <4> QED
                BY <4>1, <4>2
        <3>3. CASE s = r /\ u # t
            <4>1. write[r][u] # Untouched
                BY <2>2, <3>3
            <4>2. job[r].mode = "insert" => Fold[u] # Fold[t]
                BY <1>9, <4>1 DEF InsertConflict, t
            <4> QED
                BY <2>2, <3>3, <4>1, <4>2 DEF WritesFitTable
        <3> QED
            BY <3>1, <3>2, <3>3
    <2> QED
        BY <1>5, <1>6, <2>3, <2>4, <2>6
<1> QED
    BY <1>4, <1>8, <1>9

-----------------------------------------------------------------------------
(* The end of a batch.                                                     *)

\* What Commit and Abort have in common: r is over, its writes are forgotten,
\* nobody else changes, and no item is added to anybody's list.
LEMMA EndKeepsInv ==
    ASSUME IInv, NEW r \in Request, phase[r] = "running",
           NEW end \in {"committed", "aborted"},
           NEW messages \in Seq(SUBSET Message),
           Finish(r, end, messages), Forget(r),
           todo' \in [Request -> SUBSET Nat],
           todo'[r] = {},
           \A s \in Request : todo'[s] \subseteq todo[s],
           table' \in [Title -> Content \cup {None}], UniqueTitle',
           \A u \in Title :
               table'[u] # table[u] => write[r][u] # Untouched
    PROVE  IInv'
<1> USE DEF IInv, Finish, Forget
<1>1. TypeOK'
    <2>1. outcome' \in [Request -> {"none", "rows", "error"}]
        BY DEF TypeOK, ServiceTypeOK
    <2>2. write' \in [Request -> [Title -> Content \cup {None, Untouched}]]
        BY DEF TypeOK, NoWrite
    <2>3. answer' \in [Request -> Seq(SUBSET Message)]
        BY DEF TypeOK, ServiceTypeOK
    <2>4. phase' \in [Request -> Phase] /\ seen' \in [Request -> SUBSET Nat]
        BY DEF TypeOK, ServiceTypeOK, Phase
    <2> QED
        BY <2>1, <2>2, <2>3, <2>4 DEF TypeOK, ServiceTypeOK
<1>2. JobsInOrder'
    BY DEF JobsInOrder, TypeOK, ServiceTypeOK
<1>3. TodoInBatch'
    BY DEF TodoInBatch, Items, TypeOK, ServiceTypeOK
<1>4. /\ \A s \in Request \ {r} : write'[s] = write[s] /\ phase'[s] = phase[s]
      /\ \A u \in Title : write'[r][u] = Untouched
    BY DEF TypeOK, ServiceTypeOK, NoWrite
<1>5. LocksExclude'
    BY <1>4 DEF LocksExclude, Holds
<1>6. WritesFitTable'
    <2> SUFFICES ASSUME NEW s \in Request \ {r}, NEW u \in Title,
                        write[s][u] # Untouched
                 PROVE  /\ phase[s] = "running"
                        /\ IF job[s].mode = "insert"
                           THEN /\ write[s][u] # None
                                /\ \A v \in Title : Fold[v] = Fold[u] =>
                                      /\ table'[v] = None
                                      /\ write[s][v] # Untouched => v = u
                           ELSE table'[u] \notin {None, write[s][u]}
        BY <1>4 DEF WritesFitTable
    <2>1. phase[s] = "running"
        BY DEF WritesFitTable
    <2>2. \A v \in Title : Fold[v] = Fold[u] => table'[v] = table[v]
        <3> SUFFICES ASSUME NEW v \in Title, Fold[v] = Fold[u],
                            write[r][v] # Untouched
                     PROVE  FALSE
            OBVIOUS
        <3>1. Fold[u] \in Title
            BY FoldAssumption
        <3>2. Holds(r, Fold[u]) /\ Holds(s, Fold[u])
            BY <2>1 DEF Holds
        <3> QED
            BY <3>1, <3>2 DEF LocksExclude
    <2> QED
        BY <2>1, <2>2 DEF WritesFitTable
<1> QED
    BY <1>1, <1>2, <1>3, <1>5, <1>6

\* A commit brings in what fits, so titles stay unique.
LEMMA CommitKeepsInv ==
    ASSUME IInv, NEW r \in Request, Commit(r)
    PROVE  IInv'
<1> USE DEF IInv, Commit
<1>1. write \in [Request -> [Title -> Content \cup {None, Untouched}]]
      /\ table \in [Title -> Content \cup {None}]
      /\ todo \in [Request -> SUBSET Nat]
    BY DEF TypeOK, ServiceTypeOK
<1>2. AnswerTo(r) \in Seq(SUBSET Message)
    <2>1. Items(r) = 1..Len(job[r].items) /\ Len(job[r].items) \in Nat
        BY JobShape, LenProperties DEF JobsInOrder, Items
    <2>2. \A i \in Items(r) : AnswerTo(r)[i] \in SUBSET Message
        BY DEF AnswerTo, Message
    <2>3. AnswerTo(r) = [i \in Items(r) |-> AnswerTo(r)[i]]
        BY DEF AnswerTo
    <2> QED
        BY <2>1, <2>2, <2>3
<1>3. table' \in [Title -> Content \cup {None}]
    BY <1>1
<1>4. \A u \in Title : table'[u] = IF write[r][u] = Untouched
                                   THEN table[u] ELSE write[r][u]
    OBVIOUS
<1>5. UniqueTitle'
    <2> SUFFICES ASSUME NEW t \in Title, NEW u \in Title,
                        table'[t] # None, table'[u] # None, Fold[t] = Fold[u]
                 PROVE  t = u
        BY DEF UniqueTitle, UniqueIn
    <2>1. CASE write[r][t] = Untouched /\ write[r][u] = Untouched
        BY <1>4, <2>1 DEF UniqueTitle, UniqueIn
    <2>2. CASE job[r].mode = "insert"
        BY <1>4, <2>1, <2>2 DEF WritesFitTable
    <2>3. CASE job[r].mode # "insert"
        <3>1. \A v \in {t, u} : table[v] # None
            BY <1>4, <2>3 DEF WritesFitTable
        <3> QED
            BY <3>1 DEF UniqueTitle, UniqueIn
    <2> QED
        BY <2>2, <2>3
<1>6. /\ todo' \in [Request -> SUBSET Nat]
      /\ todo'[r] = {}
      /\ \A s \in Request : todo'[s] \subseteq todo[s]
    BY <1>1
<1>7. \A u \in Title : table'[u] # table[u] => write[r][u] # Untouched
    BY <1>4
<1> QED
    BY <1>2, <1>3, <1>5, <1>6, <1>7, EndKeepsInv

\* An abort drops the writes and the locks of one batch.
LEMMA AbortKeepsInv ==
    ASSUME IInv, NEW r \in Request, Abort(r)
    PROVE  IInv'
<1> USE DEF IInv, Abort
<1>1. table' = table /\ table' \in [Title -> Content \cup {None}]
    BY DEF TypeOK, ServiceTypeOK
<1>2. UniqueTitle'
    BY DEF UniqueTitle, UniqueIn
<1>3. /\ todo' \in [Request -> SUBSET Nat]
      /\ todo'[r] = {}
      /\ \A s \in Request : todo'[s] \subseteq todo[s]
    BY DEF TypeOK
<1>4. <<>> \in Seq(SUBSET Message)
    OBVIOUS
<1> QED
    BY <1>1, <1>2, <1>3, <1>4, EndKeepsInv

-----------------------------------------------------------------------------
(* The invariant.                                                          *)

\* Every step keeps the invariant.
LEMMA StepInv == IInv /\ [Next]_vars => IInv'
<1> SUFFICES ASSUME IInv, [Next]_vars
             PROVE  IInv'
    OBVIOUS
<1>1. ASSUME NEW r \in Request, ServiceStep(r), UNCHANGED <<todo, seen, write>>
      PROVE  IInv'
    BY <1>1, ServiceKeepsInv
<1>2. ASSUME NEW r \in Request, Begin(r)
      PROVE  IInv'
    BY <1>2, BeginKeepsInv
<1>3. ASSUME NEW r \in Request, Execute(r)
      PROVE  IInv'
    BY <1>3, ExecuteKeepsInv
<1>4. ASSUME NEW r \in Request, Commit(r)
      PROVE  IInv'
    BY <1>4, CommitKeepsInv
<1>5. ASSUME NEW r \in Request, AbortOnNull(r) \/ AbortOnDeadlock(r) \/ AbortOnLoss(r)
      PROVE  IInv'
    BY <1>5, AbortKeepsInv DEF AbortOnNull, AbortOnDeadlock, AbortOnLoss
<1>6. CASE UNCHANGED vars
    <2> USE <1>6 DEF vars, IInv
    <2>1. TypeOK'
        BY DEF TypeOK, ServiceTypeOK
    <2>2. JobsInOrder' /\ TodoInBatch'
        BY DEF JobsInOrder, TodoInBatch, Items
    <2>3. UniqueTitle' /\ LocksExclude' /\ WritesFitTable'
        BY QuietStep
    <2> QED
        BY <2>1, <2>2, <2>3
<1> QED
    BY <1>1, <1>2, <1>3, <1>4, <1>5, <1>6
    DEF Next, RequestStep, EngineStep, Terminated

\* So the invariant holds always.
LEMMA Invariance == Spec => []IInv
BY InitInv, StepInv, PTL DEF Spec

\* Every variable keeps its type, whatever the batches: no NULL reaches a
\* column that forbids it, and every reply has one of the handlers' statuses.
THEOREM TypeCorrect == Spec => []TypeOK
<1>1. IInv => TypeOK
    BY DEF IInv
<1> QED
    BY <1>1, Invariance, PTL

\* The table never holds two rows whose titles differ in case only, although
\* each batch checks one title at a time and commits them all at the end.
THEOREM TitlesStayUnique == Spec => []UniqueTitle
<1>1. IInv => UniqueTitle
    BY DEF IInv
<1> QED
    BY <1>1, Invariance, PTL

\* No two batches hold uncommitted writes of colliding titles.
THEOREM LocksAreExclusive == Spec => []LocksExclude
<1>1. IInv => LocksExclude
    BY DEF IInv
<1> QED
    BY <1>1, Invariance, PTL

\* What a batch has written still fits the committed table whenever it comes
\* to commit, however many others have committed since it wrote.
THEOREM PendingWritesFit == Spec => []WritesFitTable
<1>1. IInv => WritesFitTable
    BY DEF IInv
<1> QED
    BY <1>1, Invariance, PTL

-----------------------------------------------------------------------------
(* Replies.                                                                *)

\* What the reply to r says of the database: after any reply but 408 and 500
\* the request is over, and a reply made from rows follows a commit.
ReplyOK(r) ==
    /\ reply[r] \notin {0, 408, 500} => phase[r] \in {"gone", "committed"}
    /\ reply[r] \in {200, 201} => phase[r] = "committed"
    /\ outcome[r] = "rows" => phase[r] = "committed"
    /\ reply[r] = 201 => /\ job[r].mode = "insert"
                         /\ \E i \in DOMAIN answer[r] : answer[r][i] = {"done"}
    /\ \A i \in DOMAIN answer[r] :
          answer[r][i] \in {{"done"}, {"exists"}, {"not_found"}}

ReplyInv == \A r \in Request : ReplyOK(r)

\* 201 is only made from a batch that has an item reported as done.
LEMMA CreatedFromRows ==
    ASSUME NEW mode, NEW ans,
           \A i \in DOMAIN ans : ans[i] \in {{"done"}, {"exists"}, {"not_found"}},
           HttpStatus(mode, Statuses(ans)) = 201
    PROVE  mode = "insert" /\ \E i \in DOMAIN ans : ans[i] = {"done"}
<1>1. mode = "insert" /\ "Success" \in Statuses(ans)
    BY DEF HttpStatus
<1>2. PICK m \in UNION {ans[i] : i \in DOMAIN ans} : CudStatus(m) = "Success"
    BY <1>1 DEF Statuses
<1>3. m = "done"
    BY <1>2 DEF CudStatus
<1> QED
    BY <1>1, <1>2, <1>3

\* Requests that are over stay as they are.
LEMMA OverStaysOver ==
    ASSUME IInv, [Next]_vars, NEW s \in Request,
           phase[s] \in {"gone", "committed", "aborted"}
    PROVE  phase'[s] = phase[s] /\ answer'[s] = answer[s] /\ job'[s] = job[s]
<1> USE DEF IInv, TypeOK, ServiceTypeOK
<1>1. ASSUME NEW r \in Request, ServiceStep(r)
      PROVE  phase'[s] = phase[s] /\ answer'[s] = answer[s] /\ job'[s] = job[s]
    BY <1>1 DEF ServiceStep, Receive, AcquireTimeout, LoseConnection, Respond,
                CudTimeout
<1>2. ASSUME NEW r \in Request, EngineStep(r) \/ AbortOnLoss(r)
      PROVE  phase'[s] = phase[s] /\ answer'[s] = answer[s] /\ job'[s] = job[s]
    <2>1. CASE Begin(r) \/ Execute(r)
        BY <2>1 DEF Begin, Acquire, Execute
    <2>2. CASE Commit(r) \/ Abort(r)
        BY <2>2 DEF Commit, Abort, Finish
    <2> QED
        BY <1>2, <2>1, <2>2
        DEF EngineStep, AbortOnNull, AbortOnDeadlock, AbortOnLoss
<1>3. CASE UNCHANGED vars
    BY <1>3 DEF vars
<1> QED
    BY <1>1, <1>2, <1>3 DEF Next, RequestStep, Terminated

\* The answer Commit gives has one message per item.
LEMMA AnswerIsSingle ==
    ASSUME NEW r \in Request, NEW i \in DOMAIN AnswerTo(r)
    PROVE  AnswerTo(r)[i] \in {{"done"}, {"exists"}, {"not_found"}}
BY DEF AnswerTo

\* ReplyOK(s) survives a step that leaves s alone.
LEMMA ReplyFrame ==
    ASSUME NEW s \in Request, ReplyOK(s),
           reply'[s] = reply[s], phase'[s] = phase[s], outcome'[s] = outcome[s],
           job'[s] = job[s], answer'[s] = answer[s]
    PROVE  ReplyOK(s)'
BY DEF ReplyOK

\* Every step keeps what the replies say.
LEMMA ReplyStep == IInv /\ ReplyInv /\ [Next]_vars => ReplyInv'
<1> SUFFICES ASSUME IInv, ReplyInv, [Next]_vars, NEW s \in Request
             PROVE  ReplyOK(s)'
    BY DEF ReplyInv
<1>0. ReplyOK(s)
    BY DEF ReplyInv
<1>t. /\ job \in [Request -> Job \cup {None}]
      /\ phase \in [Request -> Phase]
      /\ answer \in [Request -> Seq(SUBSET Message)]
      /\ outcome \in [Request -> {"none", "rows", "error"}]
      /\ reply \in [Request -> {0, 200, 201, 400, 408, 415, 422, 500}]
    BY DEF IInv, TypeOK, ServiceTypeOK
<1>1. ASSUME NEW r \in Request, NEW j \in Job, Receive(r, j)
      PROVE  ReplyOK(s)'
    <2>1. CASE s # r
        BY <1>0, <1>1, <1>t, <2>1, ReplyFrame DEF Receive
    <2>2. CASE s = r
        <3>1. phase[s] = "idle" /\ answer'[s] = answer[s] /\ outcome'[s] = outcome[s]
            BY <1>1, <2>2 DEF Receive
        <3>2. CASE Accepted(j)
            <4>1. reply'[s] = reply[s]
                BY <1>1, <3>2 DEF Receive
            <4> QED
                BY <1>0, <3>1, <4>1 DEF ReplyOK
        <3>3. CASE ~Accepted(j)
            <4>1. reply'[s] = Rejection(j) /\ phase'[s] = "gone"
                BY <1>1, <1>t, <2>2, <3>3 DEF Receive
            <4>2. Rejection(j) \in {400, 415, 422}
                BY <3>3, RejectionStatus
            <4> QED
                BY <1>0, <3>1, <4>1, <4>2 DEF ReplyOK
        <3> QED
            BY <3>2, <3>3
    <2> QED
        BY <2>1, <2>2
<1>2. ASSUME NEW r \in Request, AcquireTimeout(r) \/ LoseConnection(r) \/ CudTimeout(r)
      PROVE  ReplyOK(s)'
    <2>1. CASE s # r
        BY <1>0, <1>2, <1>t, <2>1, ReplyFrame
        DEF AcquireTimeout, LoseConnection, CudTimeout
    <2>2. CASE s = r
        <3>1. answer'[s] = answer[s] /\ job'[s] = job[s]
            BY <1>2 DEF AcquireTimeout, LoseConnection, CudTimeout
        <3>2. CASE AcquireTimeout(r)
            <4>1. phase[s] = "queued" /\ outcome'[s] = "error" /\ reply'[s] = reply[s]
                BY <1>t, <2>2, <3>2 DEF AcquireTimeout
            <4> QED
                BY <1>0, <3>1, <4>1 DEF ReplyOK
        <3>3. CASE LoseConnection(r)
            <4>1. outcome'[s] = "error" /\ reply'[s] = reply[s] /\ phase'[s] = phase[s]
                BY <1>t, <2>2, <3>3 DEF LoseConnection
            <4> QED
                BY <1>0, <3>1, <4>1 DEF ReplyOK
        <3>4. CASE CudTimeout(r)
            <4>1. /\ reply'[s] = 408 /\ outcome'[s] = outcome[s]
                  /\ phase[s] # "queued" => phase'[s] = phase[s]
                BY <1>t, <2>2, <3>4 DEF CudTimeout
            <4> QED
                BY <1>0, <3>1, <4>1 DEF ReplyOK
        <3> QED
            BY <1>2, <3>2, <3>3, <3>4
    <2> QED
        BY <2>1, <2>2
<1>3. ASSUME NEW r \in Request, Respond(r)
      PROVE  ReplyOK(s)'
    <2>1. CASE s # r
        BY <1>0, <1>3, <1>t, <2>1, ReplyFrame DEF Respond
    <2>2. CASE s = r
        <3>1. /\ UNCHANGED <<job, phase, answer, outcome>>
              /\ outcome[s] # "none"
              /\ reply'[s] = IF outcome[s] = "error" THEN 500
                             ELSE HttpStatus(job[s].mode, Statuses(answer[s]))
            BY <1>3, <1>t, <2>2 DEF Respond
        <3>2. outcome[s] # "error" => phase[s] = "committed"
            BY <1>0, <1>t, <3>1 DEF ReplyOK
        <3>3. reply'[s] = 201 =>
                  /\ job[s].mode = "insert"
                  /\ \E i \in DOMAIN answer[s] : answer[s][i] = {"done"}
            BY <1>0, <3>1, CreatedFromRows DEF ReplyOK
        <3>4. CASE outcome[s] = "error"
            BY <1>0, <3>1, <3>4 DEF ReplyOK
        <3>5. CASE outcome[s] # "error"
            BY <1>0, <3>1, <3>2, <3>3, <3>5 DEF ReplyOK
        <3> QED
            BY <3>4, <3>5
    <2> QED
        BY <2>1, <2>2
<1>4. ASSUME NEW r \in Request, Begin(r) \/ Execute(r)
      PROVE  ReplyOK(s)'
    <2>1. CASE Begin(r)
        <3>1. CASE s # r
            BY <1>0, <1>t, <2>1, <3>1, ReplyFrame DEF Begin, Acquire
        <3>2. CASE s = r
            <4>1. /\ phase[s] = "queued"
                  /\ UNCHANGED <<job, answer, outcome, reply>>
                BY <2>1, <3>2 DEF Begin, Acquire
            <4> QED
                BY <1>0, <4>1 DEF ReplyOK
        <3> QED
            BY <3>1, <3>2
    <2>2. CASE Execute(r)
        BY <1>0, <2>2, ReplyFrame DEF Execute
    <2> QED
        BY <1>4, <2>1, <2>2
<1>5. ASSUME NEW r \in Request, NEW end \in {"committed", "aborted"}, NEW messages,
             phase[r] = "running", Finish(r, end, messages),
             \A i \in DOMAIN messages :
                 messages[i] \in {{"done"}, {"exists"}, {"not_found"}}
      PROVE  ReplyOK(s)'
    <2>1. CASE s # r
        BY <1>0, <1>5, <1>t, <2>1, ReplyFrame DEF Finish
    <2>2. CASE s = r
        <3>1. /\ phase'[s] = end /\ answer'[s] = messages /\ reply'[s] = reply[s]
              /\ outcome'[s] = "rows" => end = "committed"
            BY <1>5, <1>t, <2>2 DEF Finish
        <3>2. reply[s] \in {0, 408, 500}
            BY <1>0, <1>5, <2>2 DEF ReplyOK
        <3> QED
            BY <1>5, <3>1, <3>2 DEF ReplyOK
    <2> QED
        BY <2>1, <2>2
<1>6. ASSUME NEW r \in Request, Commit(r)
      PROVE  ReplyOK(s)'
    BY <1>5, <1>6, AnswerIsSingle DEF Commit
<1>7. ASSUME NEW r \in Request, Abort(r)
      PROVE  ReplyOK(s)'
    BY <1>5, <1>7 DEF Abort
<1>8. CASE UNCHANGED vars
    BY <1>0, <1>8, ReplyFrame DEF vars
<1> QED
    BY <1>1, <1>2, <1>3, <1>4, <1>6, <1>7, <1>8
    DEF Next, RequestStep, ServiceStep, EngineStep, Terminated,
        AbortOnNull, AbortOnDeadlock, AbortOnLoss

\* And both invariants hold together.
LEMMA ReplyInvariance == Spec => [](IInv /\ ReplyInv)
<1>1. Init => ReplyInv
    BY DEF Init, ServiceInit, ReplyInv, ReplyOK
<1> QED
    BY <1>1, InitInv, StepInv, ReplyStep, PTL DEF Spec

\* 201 Created means that the batch committed and inserted a row, and any
\* 2xx that it committed, also when timeouts and lost connections interfere.
THEOREM CreatedIsTrue == Spec => []CreatedMeansInserted
<1>1. ReplyInv => CreatedMeansInserted
    BY DEF ReplyInv, ReplyOK, CreatedMeansInserted
<1> QED
    BY <1>1, ReplyInvariance, PTL

\* Only a request that is unanswered or was answered 408 or 500 can still be
\* at work in the database.
THEOREM SettledIsFinal == Spec => SettledStaysSettled
<1>1. IInv /\ ReplyInv /\ [Next]_vars =>
          [\A r \in Request :
              reply[r] \notin {0, 408, 500} =>
                  phase'[r] = phase[r] /\ answer'[r] = answer[r]]_serviceVars
    BY OverStaysOver DEF ReplyInv, ReplyOK
<1> QED
    BY <1>1, ReplyInvariance, PTL DEF Spec, SettledStaysSettled

=============================================================================
