--------------------------- MODULE MariaDbCud_proofs ---------------------------
(***************************************************************************)
(* Proofs about MariaDbCud for any requests, titles, batches and pool.     *)
(*                                                                         *)
(* The table has no key, so what can be proved is how far things go wrong: *)
(* twins only come from one batch, and a report is untrue only if another  *)
(* change came between it and its own.  For the latter the invariant says  *)
(* that an undisturbed verdict is what the table would give now.           *)
(***************************************************************************)
EXTENDS MariaDbCud, CudService_proofs

\* Only running procedures have a statement to run.
StagesInOrder == \A r \in Request : stage[r] # "none" => phase[r] = "running"

\* While nobody disturbs it, a verdict is what the table gives.
VerdictsCurrent ==
    \A r \in Request : stage[r] = "change" /\ ~disturbed[r] =>
        verdict[r] = [i \in Items(r) |-> Verdict(r, i)]

IInv ==
    /\ TypeOK
    /\ JobsInOrder
    /\ StagesInOrder
    /\ VerdictsCurrent
    /\ TwinsFromOneBatch

-----------------------------------------------------------------------------
(* Items and statuses.                                                     *)

\* What the statements read of a batch has a title and makes a row.
LEMMA ParsedItem ==
    ASSUME JobsInOrder, NEW r \in Request, phase[r] = "running", NEW i \in Parsed(r)
    PROVE  /\ i \in Items(r)
           /\ job[r].mode \in Mode
           /\ TitleOf(r, i) \in Title
           /\ ContentOf(job[r].items[i]) \in Content
           /\ ContentOf(job[r].items[i]) # None
<1>1. job[r] \in Job /\ Accepted(job[r]) /\ i \in DOMAIN job[r].items
    BY DEF JobsInOrder, Parsed, Items
<1>2. /\ job[r].items[i] \in Item /\ TitleOf(r, i) \in Title /\ i \in Items(r)
      /\ job[r].mode \in Mode
    BY <1>1, JobShape, AcceptedItem DEF TitleOf, Items
<1>3. ContentOf(job[r].items[i]) \in Content
    BY <1>2 DEF Parsed, ContentOf, Content, Item
<1> QED
    BY <1>2, <1>3, NoneAssumption

\* The statuses of one statement are an answer.
LEMMA VerdictType ==
    ASSUME JobsInOrder, NEW r \in Request, phase[r] = "running"
    PROVE  [i \in Items(r) |-> Verdict(r, i)] \in Seq(SUBSET Message)
<1>1. job[r] \in Job
    BY DEF JobsInOrder
<1>2. Items(r) = 1..Len(job[r].items) /\ Len(job[r].items) \in Nat
    BY <1>1, JobShape DEF Items
<1>3. job[r].mode \in Mode
    BY <1>1, JobShape
<1>4. AbsentStatus(job[r].mode) \in Message
    BY DEF AbsentStatus, Message
<1>5. \A row, item : RowStatus(job[r].mode, row, item) \in Message
    BY <1>3 DEF RowStatus, Message, Mode
<1>6. \A i \in Items(r) : Verdict(r, i) \in SUBSET Message
    BY <1>4, <1>5 DEF Verdict
<1>7. [i \in Items(r) |-> Verdict(r, i)] \in [1..Len(job[r].items) -> SUBSET Message]
    BY <1>2, <1>6
<1> QED
    BY <1>2, <1>7

-----------------------------------------------------------------------------
(* What a change makes of the table.                                       *)

\* An insert leaves a title alone when a row answers to it, in any case, and
\* otherwise stores what an item of the batch asks for.
LEMMA InsertShape ==
    ASSUME IInv, NEW r \in Request, phase[r] = "running", job[r].mode = "insert",
           NEW f \in NewTables(r), NEW u \in Title
    PROVE  \/ /\ Matching(table, u) # {} \/ \A i \in Parsed(r) : TitleOf(r, i) # u
              /\ f[u] = table[u]
           \/ /\ Matching(table, u) = {}
              /\ \E i \in Parsed(r) : TitleOf(r, i) = u
              /\ f[u] \in Content /\ f[u] # None
<1>1. f[u] \in Outcomes(r, u)
    BY DEF NewTables
<1>2. Inserted(r, u) = {} <=> \A i \in Parsed(r) : TitleOf(r, i) # u
    BY DEF Inserted
<1>3. \A row \in Inserted(r, u) : row \in Content /\ row # None
    BY ParsedItem DEF Inserted, IInv
<1> QED
    BY <1>1, <1>2, <1>3 DEF Outcomes

\* An update stores, in a row that is there, what an item that differs asks for.
LEMMA UpdateShape ==
    ASSUME IInv, NEW r \in Request, phase[r] = "running", job[r].mode = "update",
           NEW f \in NewTables(r), NEW u \in Title
    PROVE  \/ table[u] = None /\ f[u] = None
           \/ table[u] # None /\ Differing(r, u) = {} /\ f[u] = table[u]
           \/ /\ table[u] # None /\ Differing(r, u) # {}
              /\ f[u] # table[u] /\ f[u] \in Content /\ f[u] # None
<1>1. f[u] \in Outcomes(r, u)
    BY DEF NewTables
<1>2. \A i \in Differing(r, u) : /\ ContentOf(job[r].items[i]) \in Content
                                 /\ ContentOf(job[r].items[i]) # None
                                 /\ ContentOf(job[r].items[i]) # table[u]
    BY ParsedItem DEF Differing, ItemsFor, IInv
<1> QED
    BY <1>1, <1>2 DEF Outcomes

\* A delete takes away what answers to an item, in any case.
LEMMA DeleteShape ==
    ASSUME NEW r \in Request, job[r].mode = "delete",
           NEW f \in NewTables(r), NEW u \in Title
    PROVE  f[u] = IF ItemsFor(r, u) # {} THEN None ELSE table[u]
<1>1. f[u] \in Outcomes(r, u)
    BY DEF NewTables
<1> QED
    BY <1>1 DEF Outcomes

\* Whatever the change, it leaves a table.
LEMMA NewTableType ==
    ASSUME IInv, NEW r \in Request, phase[r] = "running", NEW f \in NewTables(r)
    PROVE  f \in [Title -> Content \cup {None}]
<1>1. job[r].mode \in Mode
    BY JobShape DEF IInv, JobsInOrder
<1>2. table \in [Title -> Content \cup {None}]
    BY DEF IInv, TypeOK, StageTypeOK, ServiceTypeOK
<1>3. ASSUME NEW u \in Title PROVE f[u] \in Content \cup {None}
    BY <1>1, <1>2, InsertShape, UpdateShape, DeleteShape DEF Mode
<1>4. f \in [Title -> UNION {Outcomes(r, u) : u \in Title}]
    BY DEF NewTables
<1> QED
    BY <1>3, <1>4

-----------------------------------------------------------------------------
(* The invariant                                                           *)

\* Twins have their batch whatever changes next to them.
LEMMA TwinsStay ==
    ASSUME TwinsFromOneBatch, UNCHANGED table,
           \A s \in Request : phase[s] = "committed" =>
               phase'[s] = "committed" /\ job'[s] = job[s]
    PROVE  TwinsFromOneBatch'
BY DEF TwinsFromOneBatch, Items, TitleOf

\* The steps of the service.
LEMMA ServiceKeepsInv ==
    ASSUME IInv, NEW r \in Request, ServiceStep(r), UNCHANGED <<stage, verdict, disturbed>>
    PROVE  IInv'
<1> USE DEF IInv
<1>1. ServiceTypeOK
    BY DEF TypeOK, StageTypeOK
<1>2. ServiceTypeOK' /\ JobsInOrder'
    BY <1>1, ServiceKeeps
<1>3. /\ UNCHANGED <<table, answer>>
      /\ \A s \in Request : phase[s] # "idle" => job'[s] = job[s]
      /\ \A s \in Request :
            phase'[s] # phase[s] => /\ phase[s] \in {"idle", "queued"}
                                    /\ phase'[s] \in {"queued", "gone"}
    BY <1>1, ServiceFrame
<1>4. TypeOK'
    BY <1>2 DEF TypeOK, StageTypeOK
<1>5. StagesInOrder'
    BY <1>3 DEF StagesInOrder
<1>6. VerdictsCurrent'
    <2> SUFFICES ASSUME NEW s \in Request, stage[s] = "change", ~disturbed[s]
                 PROVE  verdict[s] = [i \in Items(s) |-> Verdict(s, i)]'
        BY DEF VerdictsCurrent
    <2>1. phase[s] = "running" /\ verdict[s] = [i \in Items(s) |-> Verdict(s, i)]
        BY DEF VerdictsCurrent, StagesInOrder
    <2>2. job'[s] = job[s] /\ table' = table
        BY <1>3, <2>1
    <2> QED
        BY <2>1, <2>2 DEF Verdict, Parsed, Items, TitleOf, Matching
<1>7. TwinsFromOneBatch'
    BY <1>3, TwinsStay
<1> QED
    BY <1>2, <1>4, <1>5, <1>6, <1>7

\* The connection is there, and the statuses come next.
LEMMA BeginKeepsInv ==
    ASSUME IInv, NEW r \in Request, Begin(r)
    PROVE  IInv'
<1> USE DEF IInv
<1>1. /\ Acquire(r) /\ stage' = [stage EXCEPT ![r] = "report"]
      /\ UNCHANGED <<verdict, disturbed>>
    BY DEF Begin
<1>2. /\ phase[r] = "queued" /\ phase' = [phase EXCEPT ![r] = "running"]
      /\ UNCHANGED <<job, answer, outcome, reply, table>>
    BY <1>1 DEF Acquire
<1>3. ServiceTypeOK' /\ JobsInOrder'
    BY <1>1, AcquireKeeps DEF TypeOK, StageTypeOK
<1>4. TypeOK'
    BY <1>1, <1>3 DEF TypeOK, StageTypeOK
<1>5. /\ phase \in [Request -> Phase]
      /\ stage \in [Request -> {"report", "change", "none"}]
    BY DEF TypeOK, StageTypeOK, ServiceTypeOK
<1>6. StagesInOrder'
    BY <1>1, <1>2, <1>5 DEF StagesInOrder
<1>7. VerdictsCurrent'
    <2> SUFFICES ASSUME NEW s \in Request, stage'[s] = "change", ~disturbed'[s]
                 PROVE  verdict'[s] = [i \in Items(s) |-> Verdict(s, i)]'
        BY DEF VerdictsCurrent
    <2>1. stage[s] = "change" /\ ~disturbed[s]
        BY <1>1, <1>5
    <2>2. verdict[s] = [i \in Items(s) |-> Verdict(s, i)]
        BY <2>1 DEF VerdictsCurrent
    <2>3. verdict'[s] = verdict[s] /\ job'[s] = job[s] /\ table' = table
        BY <1>1, <1>2
    <2>4. Items(s)' = Items(s) /\ \A i : Verdict(s, i)' = Verdict(s, i)
        BY <2>3 DEF Verdict, Parsed, Items, TitleOf, Matching
    <2> QED
        BY <2>2, <2>3, <2>4
<1>8. TwinsFromOneBatch'
    BY <1>2, <1>5, TwinsStay
<1> QED
    BY <1>3, <1>4, <1>6, <1>7, <1>8

\* The statuses are those of the table as it is.
LEMMA ReportKeepsInv ==
    ASSUME IInv, NEW r \in Request, Report(r)
    PROVE  IInv'
<1> USE DEF IInv
<1>1. /\ phase[r] = "running" /\ stage' = [stage EXCEPT ![r] = "change"]
      /\ verdict' = [verdict EXCEPT ![r] = [i \in Items(r) |-> Verdict(r, i)]]
      /\ disturbed' = [disturbed EXCEPT ![r] = FALSE]
      /\ UNCHANGED <<job, phase, answer, outcome, reply, table>>
    BY DEF Report, Stage
<1>2. [i \in Items(r) |-> Verdict(r, i)] \in Seq(SUBSET Message)
    BY <1>1, VerdictType
<1>3. TypeOK'
    BY <1>1, <1>2 DEF TypeOK, StageTypeOK, ServiceTypeOK
<1>4. JobsInOrder'
    BY <1>1 DEF JobsInOrder
<1>5. StagesInOrder'
    BY <1>1 DEF StagesInOrder, TypeOK, StageTypeOK
<1>6. VerdictsCurrent'
    <2> SUFFICES ASSUME NEW s \in Request, stage'[s] = "change", ~disturbed'[s]
                 PROVE  verdict'[s] = [i \in Items(s) |-> Verdict(s, i)]'
        BY DEF VerdictsCurrent
    <2>1. [i \in Items(s) |-> Verdict(s, i)]' = [i \in Items(s) |-> Verdict(s, i)]
        BY <1>1 DEF Verdict, Parsed, Items, TitleOf, Matching
    <2>2. CASE s = r
        BY <1>1, <2>1, <2>2 DEF TypeOK
    <2>3. CASE s # r
        <3>1. stage[s] = "change" /\ ~disturbed[s] /\ verdict'[s] = verdict[s]
            BY <1>1, <2>3 DEF TypeOK, StageTypeOK
        <3> QED
            BY <2>1, <3>1 DEF VerdictsCurrent
    <2> QED
        BY <2>2, <2>3
<1>7. TwinsFromOneBatch'
    BY <1>1, TwinsStay
<1> QED
    BY <1>3, <1>4, <1>5, <1>6, <1>7

\* A procedure that ends leaves the verdicts of the others as they are, or
\* disturbed.
LEMMA EndKeepsInv ==
    ASSUME IInv, NEW r \in Request, phase[r] = "running",
           NEW end \in {"committed", "aborted"}, NEW messages \in Seq(SUBSET Message),
           Finish(r, end, messages),
           table' \in [Title -> Content \cup {None}],
           stage' = [stage EXCEPT ![r] = "none"],
           verdict' = [verdict EXCEPT ![r] = <<>>],
           disturbed' \in [Request -> BOOLEAN],
           \A s \in Request \ {r} : stage[s] = "change" /\ ~disturbed'[s] =>
               ~disturbed[s] /\ table' = table,
           TwinsFromOneBatch'
    PROVE  IInv'
<1> USE DEF IInv
<1>1. ServiceTypeOK
    BY DEF TypeOK, StageTypeOK
<1>2. ServiceTypeOK' /\ JobsInOrder'
    BY <1>1, FinishKeeps
<1>3. TypeOK'
    <2>1. <<>> \in Seq(SUBSET Message)
        OBVIOUS
    <2> QED
        BY <1>2, <2>1 DEF TypeOK, StageTypeOK
<1>4. job' = job /\ \A s \in Request \ {r} : phase'[s] = phase[s]
    BY <1>1 DEF Finish, ServiceTypeOK
<1>5. /\ stage'[r] = "none"
      /\ \A s \in Request \ {r} : stage'[s] = stage[s] /\ verdict'[s] = verdict[s]
    BY DEF TypeOK, StageTypeOK
<1>6. StagesInOrder'
    BY <1>4, <1>5 DEF StagesInOrder
<1>7. VerdictsCurrent'
    <2> SUFFICES ASSUME NEW s \in Request, stage'[s] = "change", ~disturbed'[s]
                 PROVE  verdict'[s] = [i \in Items(s) |-> Verdict(s, i)]'
        BY DEF VerdictsCurrent
    <2>1. s # r /\ stage[s] = "change" /\ verdict'[s] = verdict[s]
        BY <1>5
    <2>2. ~disturbed[s] /\ table' = table
        BY <2>1
    <2>3. verdict[s] = [i \in Items(s) |-> Verdict(s, i)]
        BY <2>1, <2>2 DEF VerdictsCurrent
    <2>4. [i \in Items(s) |-> Verdict(s, i)]' = [i \in Items(s) |-> Verdict(s, i)]
        BY <1>4, <2>2 DEF Verdict, Parsed, Items, TitleOf, Matching
    <2> QED
        BY <2>1, <2>3, <2>4
<1> QED
    BY <1>2, <1>3, <1>6, <1>7

\* A statement that fails.
LEMMA FailKeepsInv ==
    ASSUME IInv, NEW r \in Request, Fail(r)
    PROVE  IInv'
<1> DEFINE messages == <<>>
<1>1. /\ phase[r] = "running" /\ stage' = [stage EXCEPT ![r] = "none"]
      /\ Finish(r, "aborted", messages) /\ verdict' = [verdict EXCEPT ![r] = <<>>]
      /\ disturbed' = [disturbed EXCEPT ![r] = FALSE] /\ table' = table
    BY DEF Fail, FailStatement
<1>2. messages \in Seq(SUBSET Message)
    OBVIOUS
<1> HIDE DEF messages
<1>3. /\ table' \in [Title -> Content \cup {None}]
      /\ disturbed' \in [Request -> BOOLEAN]
      /\ \A s \in Request \ {r} : ~disturbed'[s] => ~disturbed[s]
    BY <1>1 DEF IInv, TypeOK, StageTypeOK, ServiceTypeOK
<1>4. TwinsFromOneBatch'
    <2>1. \A s \in Request : phase[s] = "committed" =>
              phase'[s] = "committed" /\ job'[s] = job[s]
        BY <1>1 DEF Finish, IInv, TypeOK, StageTypeOK, ServiceTypeOK
    <2> QED
        BY <1>1, <2>1, TwinsStay DEF IInv
<1> QED
    BY <1>1, <1>2, <1>3, <1>4, EndKeepsInv

\* Twins that a change makes both come from its batch: of any title there was
\* a row of, in any case, an insert makes none.
LEMMA ChangeMakesTwins ==
    ASSUME IInv, NEW r \in Request, Change(r)
    PROVE  TwinsFromOneBatch'
<1>1. /\ phase[r] = "running" /\ table' \in NewTables(r)
      /\ Finish(r, "committed", verdict[r])
    BY DEF Change, Stage
<1>2. /\ job' = job /\ phase'[r] = "committed"
      /\ \A s \in Request : phase[s] = "committed" => phase'[s] = "committed"
    BY <1>1 DEF Finish, IInv, TypeOK, StageTypeOK, ServiceTypeOK
<1>3. job[r].mode \in Mode
    BY <1>1, JobShape DEF IInv, JobsInOrder
<1> SUFFICES ASSUME NEW t \in Title, NEW u \in Title,
                    table'[t] # None, table'[u] # None, Fold[t] = Fold[u], t # u
             PROVE  \E s \in Request :
                        /\ phase'[s] = "committed"
                        /\ job'[s].mode = "insert"
                        /\ {t, u} \subseteq {TitleOf(s, i) : i \in Items(s)}'
    BY DEF TwinsFromOneBatch
<1>4. CASE table[t] # None /\ table[u] # None
    <2>1. PICK s \in Request : /\ phase[s] = "committed" /\ job[s].mode = "insert"
                               /\ {t, u} \subseteq {TitleOf(s, i) : i \in Items(s)}
        BY <1>4 DEF IInv, TwinsFromOneBatch
    <2> QED
        BY <1>2, <2>1 DEF TitleOf, Items
<1>5. CASE job[r].mode = "insert" /\ ~(table[t] # None /\ table[u] # None)
    <2>1. Matching(table, t) = Matching(table, u)
        BY DEF Matching
    <2>2. Matching(table, t) = {}
        <3> SUFFICES ASSUME Matching(table, t) # {} PROVE FALSE
            OBVIOUS
        <3>1. table'[t] = table[t] /\ table'[u] = table[u]
            BY <1>1, <1>5, <2>1, InsertShape
        <3> QED
            BY <1>5, <3>1
    <2>3. table[t] = None /\ table[u] = None
        BY <2>2 DEF Matching
    <2>4. /\ \E i \in Parsed(r) : TitleOf(r, i) = t
          /\ \E i \in Parsed(r) : TitleOf(r, i) = u
        BY <1>1, <1>5, <2>3, InsertShape
    <2>5. {t, u} \subseteq {TitleOf(r, i) : i \in Items(r)}
        BY <2>4 DEF Parsed
    <2> QED
        BY <1>2, <1>5, <2>5 DEF TitleOf, Items
<1>6. CASE job[r].mode = "update"
    BY <1>1, <1>4, <1>6, UpdateShape
<1>7. CASE job[r].mode = "delete"
    BY <1>1, <1>4, <1>7, DeleteShape
<1> QED
    BY <1>3, <1>4, <1>5, <1>6, <1>7 DEF Mode

\* The change.
LEMMA ChangeKeepsInv ==
    ASSUME IInv, NEW r \in Request, Change(r)
    PROVE  IInv'
<1>1. /\ phase[r] = "running" /\ stage' = [stage EXCEPT ![r] = "none"]
      /\ table' \in NewTables(r)
      /\ Finish(r, "committed", verdict[r])
      /\ verdict' = [verdict EXCEPT ![r] = <<>>]
    BY DEF Change, Stage
<1>2. verdict[r] \in Seq(SUBSET Message)
    BY DEF IInv, TypeOK
<1>3. table' \in [Title -> Content \cup {None}]
    BY <1>1, NewTableType
<1>4. /\ disturbed' \in [Request -> BOOLEAN]
      /\ \A s \in Request \ {r} : stage[s] = "change" /\ ~disturbed'[s] =>
             ~disturbed[s] /\ table' = table
    BY DEF Change, IInv, TypeOK
<1>5. TwinsFromOneBatch'
    BY ChangeMakesTwins
<1> QED
    BY <1>1, <1>2, <1>3, <1>4, <1>5, EndKeepsInv

\* Every step keeps the invariant.
LEMMA StepInv == IInv /\ [Next]_vars => IInv'
<1> SUFFICES ASSUME IInv, [Next]_vars PROVE IInv'
    OBVIOUS
<1>1. CASE UNCHANGED vars
    <2> USE <1>1 DEF vars, IInv
    <2>1. TypeOK' /\ JobsInOrder' /\ StagesInOrder'
        BY DEF TypeOK, StageTypeOK, ServiceTypeOK, JobsInOrder, StagesInOrder
    <2>2. VerdictsCurrent'
        <3> SUFFICES ASSUME NEW r \in Request, stage[r] = "change", ~disturbed[r]
                     PROVE  verdict[r] = [i \in Items(r)' |-> Verdict(r, i)']
            BY DEF VerdictsCurrent
        <3>1. Items(r)' = Items(r)
            BY DEF Items
        <3>2. \A i : Verdict(r, i)' = Verdict(r, i)
            BY DEF Verdict, Parsed, Items, TitleOf, Matching
        <3>3. verdict[r] = [i \in Items(r) |-> Verdict(r, i)]
            BY DEF VerdictsCurrent
        <3> QED
            BY ONLY <3>1, <3>2, <3>3
    <2>3. TwinsFromOneBatch'
        BY TwinsStay
    <2> QED
        BY <2>1, <2>2, <2>3
<1>2. ASSUME NEW r \in Request, RequestStep(r) PROVE IInv'
    BY <1>2, ServiceKeepsInv, BeginKeepsInv, ReportKeepsInv, ChangeKeepsInv, FailKeepsInv
    DEF RequestStep, DeadlockVictim, FailOnLoss
<1> QED
    BY <1>1, <1>2 DEF Next, Terminated

\* At the start no procedure runs and no title has a twin.
LEMMA InitInv == Init => IInv
<1> SUFFICES ASSUME Init PROVE IInv
    OBVIOUS
<1>1. ServiceTypeOK /\ JobsInOrder
    BY ServiceStart DEF Init
<1>2. TypeOK
    <2>1. <<>> \in Seq(SUBSET Message)
        OBVIOUS
    <2> QED
        BY <1>1, <2>1 DEF Init, StageInit, TypeOK, StageTypeOK
<1>3. StagesInOrder /\ VerdictsCurrent
    BY DEF Init, StageInit, StagesInOrder, VerdictsCurrent
<1>4. TwinsFromOneBatch
    BY InitialTableAssumption DEF Init, ServiceInit, TwinsFromOneBatch, UniqueIn
<1> QED
    BY <1>1, <1>2, <1>3, <1>4 DEF IInv

\* In every reachable state the invariant holds.
LEMMA Invariance == Spec => []IInv
BY InitInv, StepInv, PTL DEF Spec

-----------------------------------------------------------------------------
(* Theorems                                                                *)

\* Every variable keeps its type, whatever the batches and whatever comes
\* between their two statements.
THEOREM TypeCorrect == Spec => []TypeOK
<1>1. IInv => TypeOK
    BY DEF IInv
<1> QED
    BY <1>1, Invariance, PTL

\* Two rows whose titles differ in case only always came from one and the
\* same batch, however many batches inserted the title at the same time.
THEOREM TwinsHaveOneBatch == Spec => []TwinsFromOneBatch
<1>1. IInv => TwinsFromOneBatch
    BY DEF IInv
<1> QED
    BY <1>1, Invariance, PTL

\* The table after a change, seen from an undisturbed verdict.
LEMMA UndisturbedIsTruthful ==
    ASSUME IInv, NEW r \in Request, Change(r), ~disturbed[r],
           \A i, k \in Items(r) : Fold[TitleOf(r, i)] = Fold[TitleOf(r, k)] => i = k
    PROVE  Truthful(r)
<1>1. /\ phase[r] = "running" /\ stage[r] = "change" /\ table' \in NewTables(r)
    BY DEF Change, Stage
<1>2. verdict[r] = [i \in Items(r) |-> Verdict(r, i)]
    BY <1>1 DEF IInv, VerdictsCurrent
<1> SUFFICES ASSUME NEW i \in Parsed(r)
             PROVE  LET t == TitleOf(r, i)
                        before == Matching(table, t)
                        after == Matching(table', t) IN
                    /\ verdict[r][i] = {"done"} =>
                          CASE job[r].mode = "insert" -> before = {} /\ after # {}
                            [] job[r].mode = "update" ->
                                   /\ after = before
                                   /\ \A u \in before : table'[u] # table[u]
                            [] job[r].mode = "delete" -> before # {} /\ after = {}
                    /\ verdict[r][i] \subseteq {"exists", "not_found"} =>
                          \A u \in Title : Fold[u] = Fold[t] => table'[u] = table[u]
    BY DEF Truthful
<1> DEFINE t == TitleOf(r, i)
           item == job[r].items[i]
           before == Matching(table, t)
           after == Matching(table', t)
<1>3. i \in Items(r) /\ t \in Title /\ job[r].mode \in Mode
    BY <1>1, ParsedItem DEF IInv
<1>4. verdict[r][i] = IF before = {} THEN {AbsentStatus(job[r].mode)}
                      ELSE {RowStatus(job[r].mode, table[u], item) : u \in before}
    BY <1>2, <1>3 DEF Verdict
<1>5. \A u \in Title : Fold[u] = Fold[t] => Matching(table, u) = before
    BY DEF Matching
<1>6. CASE job[r].mode = "insert"
    <2>1. verdict[r][i] = IF before = {} THEN {"done"} ELSE {"exists"}
        BY <1>4, <1>6 DEF AbsentStatus, RowStatus
    <2>2. before = {} => t \in after
        BY <1>1, <1>3, <1>6, InsertShape DEF Matching
    <2>3. before # {} => \A u \in Title : Fold[u] = Fold[t] => table'[u] = table[u]
        BY <1>1, <1>5, <1>6, InsertShape
    <2> QED
        BY <1>6, <2>1, <2>2, <2>3
<1>7. CASE job[r].mode = "update"
    <2>1. /\ before = {} => verdict[r][i] = {"not_found"}
          /\ verdict[r][i] = {"done"} => \A u \in before : table[u] # ContentOf(item)
          /\ verdict[r][i] \subseteq {"exists", "not_found"} =>
                \A u \in before : table[u] = ContentOf(item)
        BY <1>4, <1>7 DEF AbsentStatus, RowStatus
    <2>2. after = before
        BY <1>1, <1>7, UpdateShape DEF Matching
    <2>3. \A u \in before : /\ u \in Title /\ table[u] # None
                            /\ i \in ItemsFor(r, u)
                            /\ \A k \in ItemsFor(r, u) : k = i
        BY <1>3 DEF Matching, ItemsFor, Parsed
    <2>4. \A u \in before : Differing(r, u) # {} <=> table[u] # ContentOf(item)
        BY <2>3 DEF Differing
    <2>5. \A u \in before : IF table[u] = ContentOf(item) THEN table'[u] = table[u]
                                                       ELSE table'[u] # table[u]
        BY <1>1, <1>7, <2>3, <2>4, UpdateShape
    <2>6. \A u \in Title : Fold[u] = Fold[t] /\ u \notin before => table'[u] = table[u]
        BY <1>1, <1>7, UpdateShape DEF Matching
    <2>7. verdict[r][i] = {"done"} =>
              after = before /\ \A u \in before : table'[u] # table[u]
        BY <2>1, <2>2, <2>5
    <2>8. verdict[r][i] \subseteq {"exists", "not_found"} =>
              \A u \in Title : Fold[u] = Fold[t] => table'[u] = table[u]
        BY <2>1, <2>5, <2>6
    <2> QED
        BY <1>7, <2>7, <2>8
<1>8. CASE job[r].mode = "delete"
    <2>1. verdict[r][i] = IF before = {} THEN {"not_found"} ELSE {"done"}
        BY <1>4, <1>8 DEF AbsentStatus, RowStatus
    <2>2. \A u \in Title : Fold[u] = Fold[t] => i \in ItemsFor(r, u)
        BY DEF ItemsFor
    <2>3. \A u \in Title : Fold[u] = Fold[t] => table'[u] = None
        BY <1>1, <1>8, <2>2, DeleteShape
    <2>4. after = {}
        BY <2>3 DEF Matching
    <2>5. before = {} => \A u \in Title : Fold[u] = Fold[t] => table[u] = None
        BY DEF Matching
    <2> QED
        BY <1>8, <2>1, <2>3, <2>4, <2>5
<1> QED
    BY <1>3, <1>6, <1>7, <1>8 DEF Mode

\* A batch whose two statements no other change comes between, and that does
\* not name one title twice, reports what it does.
THEOREM ReportsAreTruthful == Spec => TruthfulUnlessDisturbed
<1>1. ASSUME IInv, [Next]_vars, NEW r \in Request,
             stage[r] = "change", phase'[r] = "committed"
      PROVE  Change(r)
    <2>1. phase[r] = "running"
        BY <1>1 DEF IInv, StagesInOrder
    <2>2. phase \in [Request -> Phase]
        BY <1>1 DEF IInv, TypeOK, StageTypeOK, ServiceTypeOK
    <2>3. PICK s \in Request : RequestStep(s)
        BY <1>1, <2>1 DEF Next, Terminated, vars
    <2>4. ~ServiceStep(s)
        <3>1. ServiceTypeOK
            BY <1>1 DEF IInv, TypeOK, StageTypeOK
        <3> QED
            BY <1>1, <2>1, <3>1, ServiceFrame
    <2>5. ~Begin(s) /\ ~Report(s) /\ ~Fail(s)
        BY <1>1, <2>1, <2>2 DEF Begin, Acquire, Report, Fail, FailStatement, Finish
    <2>6. Change(s)
        BY <2>3, <2>4, <2>5 DEF RequestStep, DeadlockVictim, FailOnLoss
    <2>7. s = r
        BY <1>1, <2>1, <2>2, <2>6 DEF Change, Finish
    <2> QED
        BY <2>6, <2>7
<1>2. IInv /\ [Next]_vars =>
          [\A r \in Request :
              /\ stage[r] = "change"
              /\ phase'[r] = "committed"
              /\ ~disturbed[r]
              /\ \A i, k \in Items(r) : Fold[TitleOf(r, i)] = Fold[TitleOf(r, k)] => i = k
              => Truthful(r)]_vars
    BY <1>1, UndisturbedIsTruthful
<1> QED
    BY <1>2, Invariance, PTL DEF Spec, TruthfulUnlessDisturbed

-----------------------------------------------------------------------------
(* The life of a request.                                                  *)

\* Every step is a move of the service.
LEMMA StepIsMove == IInv /\ [Next]_vars => ServiceMove
<1> SUFFICES ASSUME IInv, [Next]_vars PROVE ServiceMove
    OBVIOUS
<1>1. ASSUME NEW r \in Request, Fail(r) PROVE ServiceMove
    <2> DEFINE messages == <<>>
    <2>1. phase[r] = "running" /\ Finish(r, "aborted", messages)
        BY <1>1 DEF Fail, FailStatement
    <2>2. messages \in Seq(SUBSET Message)
        OBVIOUS
    <2> HIDE DEF messages
    <2> QED
        BY <2>1, <2>2 DEF ServiceMove
<1>2. ASSUME NEW r \in Request, Change(r) PROVE ServiceMove
    <2>1. phase[r] = "running" /\ Finish(r, "committed", verdict[r])
        BY <1>2 DEF Change, Stage
    <2>2. verdict[r] \in Seq(SUBSET Message)
        BY DEF IInv, TypeOK
    <2> QED
        BY <2>1, <2>2 DEF ServiceMove
<1>3. ASSUME NEW r \in Request, ServiceStep(r) \/ Begin(r) PROVE ServiceMove
    BY <1>3 DEF Begin, ServiceMove
<1>4. ASSUME NEW r \in Request, Report(r) PROVE ServiceMove
    BY <1>4 DEF Report, ServiceMove
<1>5. CASE UNCHANGED vars
    BY <1>5 DEF vars, ServiceMove
<1> QED
    BY <1>1, <1>2, <1>3, <1>4, <1>5
    DEF Next, RequestStep, DeadlockVictim, FailOnLoss, Terminated

\* Arrivals and replies are in order in every reachable state.
LEMMA OrderInvariance == Spec => [](IInv /\ NothingBeforeArrival /\ RepliesInOrder)
<1>1. Init => NothingBeforeArrival /\ RepliesInOrder
    BY DEF Init, ServiceInit, NothingBeforeArrival, RepliesInOrder
<1>2. IInv /\ NothingBeforeArrival /\ RepliesInOrder /\ [Next]_vars
          => (NothingBeforeArrival /\ RepliesInOrder)'
    BY StepIsMove, MoveKeepsOrder DEF IInv, TypeOK, StageTypeOK
<1> QED
    BY <1>1, <1>2, InitInv, StepInv, PTL DEF Spec

\* A client that was told 2xx or 4xx, but not 408, has seen the last of its
\* request, on MariaDB too.
THEOREM SettledIsFinal == Spec => SettledStaysSettled
<1>1. IInv /\ RepliesInOrder /\ [Next]_vars =>
          [\A r \in Request :
              reply[r] \notin {0, 408, 500} =>
                  phase'[r] = phase[r] /\ answer'[r] = answer[r]]_serviceVars
    BY StepIsMove, OverIsOver DEF RepliesInOrder, IInv, TypeOK, StageTypeOK
<1> QED
    BY <1>1, OrderInvariance, PTL DEF Spec, SettledStaysSettled

-----------------------------------------------------------------------------
(* The refinement.                                                         *)

\* What a change makes of a row is one of the effects the store allows.
LEMMA ChangeHasEffect ==
    ASSUME IInv, NEW r \in Request, phase[r] = "running",
           NEW f \in NewTables(r), NEW u \in Title
    PROVE  f[u] \in Store!Effects(r, u)
<1>1. f[u] \in Outcomes(r, u) /\ job[r].mode \in Mode
    BY JobShape DEF NewTables, IInv, JobsInOrder
<1>2. /\ Store!Complete(r) = Parsed(r)
      /\ Store!Naming(r, u) = ItemsFor(r, u)
    BY DEF Store!Complete, Parsed, Items, Store!Naming, Store!Alike, ItemsFor, TitleOf
<1>3. Store!Taken(u) <=> Matching(table, u) # {}
    BY DEF Store!Taken, Store!Alike, Matching
<1>4. \A S : Store!Contents(S, r) = {ContentOf(job[r].items[i]) : i \in S}
    BY DEF Store!Contents, Store!ContentOf, ContentOf
<1>5. \A rows : Store!Storable(rows) = rows
    BY DEF Store!Storable
<1>6. CASE job[r].mode = "insert"
    <2>1. Store!Contents({i \in Store!Complete(r) \ {} : job[r].items[i].title = u}, r)
          = Inserted(r, u)
        BY <1>2, <1>4 DEF Inserted, TitleOf
    <2>2. Store!Inserted(r, u) =
              IF Inserted(r, u) = {} \/ Store!Taken(u) THEN {table[u]} ELSE Inserted(r, u)
        BY <1>5, <2>1 DEF Store!Inserted
    <2> QED
        BY <1>1, <1>3, <1>6, <2>2 DEF Outcomes, Store!Effects
<1>7. CASE job[r].mode = "update"
    <2>1. Store!Effects(r, u) = Store!Updated(r, u)
        BY <1>7 DEF Store!Effects
    <2>2. CASE table[u] = None
        BY <1>1, <1>5, <1>7, <2>1, <2>2 DEF Outcomes, Store!Updated
    <2>3. CASE table[u] # None /\ Differing(r, u) # {}
        BY <1>1, <1>2, <1>4, <1>5, <1>7, <2>1, <2>3 DEF Outcomes, Differing, Store!Updated
    <2>4. CASE table[u] # None /\ Differing(r, u) = {}
        <3>1. f[u] = table[u]
            BY <1>1, <1>7, <2>4 DEF Outcomes
        <3>2. \A i \in ItemsFor(r, u) : ContentOf(job[r].items[i]) = table[u]
            BY <2>4 DEF Differing
        <3> QED
            BY <1>2, <1>4, <1>5, <2>1, <2>4, <3>1, <3>2 DEF Store!Updated
    <2> QED
        BY <2>2, <2>3, <2>4
<1>8. CASE job[r].mode = "delete"
    BY <1>1, <1>2, <1>8 DEF Outcomes, Store!Effects, Store!Deleted
<1> QED
    BY <1>1, <1>6, <1>7, <1>8 DEF Mode

\* The end of a procedure is the end of its request in the store.
LEMMA EndEnds ==
    ASSUME IInv, NEW r \in Request, phase[r] = "running",
           NEW end \in {"committed", "aborted"}, NEW messages, Finish(r, end, messages)
    PROVE  /\ job[r] # None /\ Fate(r) = "open"
           /\ Store!Ends(r, IF end = "committed" THEN "applied" ELSE "failed")
<1>1. job' = job /\ phase'[r] = end /\ \A s \in Request \ {r} : phase'[s] = phase[s]
    BY DEF Finish, IInv, TypeOK, StageTypeOK, ServiceTypeOK
<1>2. job[r] # None /\ Fate(r) = "open"
    BY JobAssumption DEF IInv, JobsInOrder, Fate
<1>3. /\ Fate(r)' = IF end = "committed" THEN "applied" ELSE "failed"
      /\ \A s \in Request \ {r} : Fate(s)' = Fate(s)
    BY <1>1 DEF Fate
<1> QED
    BY <1>1, <1>2, <1>3 DEF Store!Ends

\* A move between arrival and end is none of the store's.
LEMMA QuietStutters ==
    ASSUME UNCHANGED <<job, table>>,
           \A s \in Request : phase'[s] # phase[s] =>
               /\ phase[s] \in {"idle", "queued"}
               /\ phase'[s] \in {"queued", "running", "gone"}
    PROVE  UNCHANGED Store!storeVars
<1>1. \A s \in Request : Fate(s)' = Fate(s)
    BY DEF Fate
<1> QED
    BY <1>1 DEF Store!storeVars

\* The steps of the service: an arrival is a Submit, the rest is nothing.
LEMMA ServiceSubmits ==
    ASSUME IInv, NothingBeforeArrival, NEW r \in Request, ServiceStep(r)
    PROVE  Store!Submit(r) \/ UNCHANGED Store!storeVars
<1> USE DEF IInv, TypeOK, StageTypeOK
<1>1. /\ table' = table
      /\ \A s \in Request :
            phase'[s] # phase[s] => /\ phase[s] \in {"idle", "queued"}
                                    /\ phase'[s] \in {"queued", "gone"}
    BY ServiceFrame
<1>2. \A s \in Request : Fate(s)' = Fate(s)
    BY <1>1 DEF Fate
<1>3. ASSUME NEW j \in Job, Receive(r, j) PROVE Store!Submit(r)
    <2>1. job[r] = None /\ job' = [job EXCEPT ![r] = j]
        BY <1>3 DEF Receive, NothingBeforeArrival
    <2> QED
        BY <1>1, <1>2, <2>1 DEF Store!Submit
<1>4. CASE job' = job
    BY <1>1, <1>4, QuietStutters
<1> QED
    BY <1>3, <1>4 DEF ServiceStep, AcquireTimeout, LoseConnection, Respond, CudTimeout

\* MariaDB's procedure keeps every promise of StatementStore, for any batches,
\* titles, pool and faults: whatever a batch reports, it changes the table
\* once and at once, by the table as it is at that moment.
THEOREM StoreIsImplemented == Spec => ImplementsStatementStore
<1>1. Init => Store!Init
    BY DEF Init, ServiceInit, Store!Init, Fate
<1>2. IInv /\ NothingBeforeArrival /\ [Next]_vars => [Store!Next]_(Store!storeVars)
    <2> SUFFICES ASSUME IInv, NothingBeforeArrival, [Next]_vars
                 PROVE  Store!Next \/ UNCHANGED Store!storeVars
        OBVIOUS
    <2>1. ASSUME NEW r \in Request, ServiceStep(r)
          PROVE  Store!Next \/ UNCHANGED Store!storeVars
        BY <2>1, ServiceSubmits DEF Store!Next
    <2>2. ASSUME NEW r \in Request, Begin(r) \/ Report(r)
          PROVE  UNCHANGED Store!storeVars
        BY <2>2, QuietStutters
        DEF Begin, Acquire, Report, IInv, TypeOK, StageTypeOK, ServiceTypeOK
    <2>3. ASSUME NEW r \in Request, Change(r)
          PROVE  Store!Next
        <3>1. /\ phase[r] = "running" /\ table' \in NewTables(r)
              /\ Finish(r, "committed", verdict[r])
            BY <2>3 DEF Change, Stage
        <3>2. job[r] # None /\ Fate(r) = "open" /\ Store!Ends(r, "applied")
            BY <3>1, EndEnds
        <3>3. table' \in [Title -> Content \cup {None}]
            BY <3>1, NewTableType
        <3>4. \A u \in Title : table'[u] \in Store!Effects(r, u)
            BY <3>1, ChangeHasEffect
        <3>5. Store!Content = Content
            BY DEF Store!Content, Content
        <3> QED
            BY <3>2, <3>3, <3>4, <3>5 DEF Store!Apply, Store!Next
    <2>4. ASSUME NEW r \in Request, Fail(r)
          PROVE  Store!Next
        <3> DEFINE messages == <<>>
        <3>1. /\ phase[r] = "running" /\ table' = table
              /\ Finish(r, "aborted", messages)
            BY <2>4 DEF Fail, FailStatement
        <3> HIDE DEF messages
        <3>2. job[r] # None /\ Fate(r) = "open" /\ Store!Ends(r, "failed")
            BY <3>1, EndEnds
        <3> QED
            BY <3>1, <3>2 DEF Store!Fail, Store!Next
    <2>5. CASE UNCHANGED vars
        BY <2>5, QuietStutters DEF vars
    <2> QED
        BY <2>1, <2>2, <2>3, <2>4, <2>5
        DEF Next, RequestStep, DeadlockVictim, FailOnLoss, Terminated
<1> QED
    BY <1>1, <1>2, OrderInvariance, PTL DEF Spec, ImplementsStatementStore, Store!Spec

=============================================================================
