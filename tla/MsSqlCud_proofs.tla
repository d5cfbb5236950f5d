--------------------------- MODULE MsSqlCud_proofs ---------------------------
(***************************************************************************)
(* Proofs about MsSqlCud for any requests, titles, batches and pool.       *)
(*                                                                         *)
(* The insert's probe proves nothing about the table it will write to: the *)
(* invariant only says of what it has chosen that the items are there.     *)
(* Unique titles rest on the key alone, and the books on the fact that a   *)
(* request touches rows once, in one of its statements.                    *)
(***************************************************************************)
EXTENDS MsSqlCud, CudService_proofs

\* An insert's probe chooses items of its batch, and the change forgets them.
ChosenInOrder ==
    \A r \in Request : chosen[r] # {} =>
        /\ phase[r] = "running"
        /\ stage[r] = "change"
        /\ job[r].mode = "insert"
        /\ chosen[r] \subseteq Parsed(r)

\* Only an insert probes.
ProbeInOrder ==
    \A r \in Request : stage[r] = "probe" =>
        phase[r] = "running" /\ job[r].mode = "insert"

\* Rows are touched by the change, and only the answer follows it.
TouchedInOrder ==
    \A r \in Request : touched[r] # {} =>
        /\ phase[r] \notin {"idle", "queued"}
        /\ phase[r] = "running" => stage[r] = "answer"

\* There is no answer before the end.
AnswersInOrder ==
    \A r \in Request : phase[r] \in {"idle", "queued", "running"} => answer[r] = <<>>

\* What is reported as done was touched.
ReportsTouched ==
    \A r \in Request : \A i \in DOMAIN answer[r] :
        "done" \in answer[r][i] => \E t \in touched[r] : Fold[t] = Fold[TitleOf(r, i)]

IInv ==
    /\ TypeOK
    /\ JobsInOrder
    /\ UniqueTitle
    /\ ProbeInOrder
    /\ ChosenInOrder
    /\ TouchedInOrder
    /\ AnswersInOrder
    /\ ReportsTouched

-----------------------------------------------------------------------------
(* Items and answers.                                                      *)

\* What the statements read of a batch has a title and makes a row.
LEMMA ParsedItem ==
    ASSUME JobsInOrder, NEW r \in Request, phase[r] = "running", NEW i \in Parsed(r)
    PROVE  /\ i \in Nat
           /\ TitleOf(r, i) \in Title
           /\ ContentOf(job[r].items[i]) \in Content
           /\ ContentOf(job[r].items[i]) # None
<1>1. job[r] \in Job /\ Accepted(job[r]) /\ i \in DOMAIN job[r].items
    BY DEF JobsInOrder, Parsed, Items
<1>2. i \in Nat /\ job[r].items[i] \in Item /\ TitleOf(r, i) \in Title
    BY <1>1, JobShape, AcceptedItem DEF TitleOf
<1>3. ContentOf(job[r].items[i]) \in Content
    BY <1>2 DEF Parsed, ContentOf, Content, Item
<1> QED
    BY <1>2, <1>3, NoneAssumption

\* An answer has one message for every item.
LEMMA AnswerType ==
    ASSUME JobsInOrder, NEW r \in Request, phase[r] = "running"
    PROVE  AnswerTo(r) \in Seq(SUBSET Message)
<1>1. job[r] \in Job
    BY DEF JobsInOrder
<1>2. Items(r) = 1..Len(job[r].items) /\ Len(job[r].items) \in Nat
    BY <1>1, JobShape DEF Items
<1>3. \A i \in Items(r) : AnswerTo(r)[i] \in SUBSET Message
    BY DEF AnswerTo, Message
<1>4. AnswerTo(r) \in [1..Len(job[r].items) -> SUBSET Message]
    BY <1>2, <1>3 DEF AnswerTo
<1> QED
    BY <1>2, <1>4

-----------------------------------------------------------------------------
(* Steps that leave the table alone.                                       *)

\* The steps of the service.
LEMMA ServiceKeepsInv ==
    ASSUME IInv, NEW r \in Request, ServiceStep(r), UNCHANGED <<stage, chosen, touched>>
    PROVE  IInv'
<1> USE DEF IInv
<1>1. ServiceTypeOK
    BY DEF TypeOK, StageTypeOK
<1>2. ServiceTypeOK' /\ JobsInOrder'
    BY <1>1, ServiceKeeps
<1>3. /\ UNCHANGED <<table, answer>>
      /\ \A s \in Request : phase[s] # "idle" => job'[s] = job[s]
      /\ \A s \in Request :
            phase'[s] # phase[s] => /\ phase[s] \in {"idle", "queued"}
                                    /\ phase'[s] \in {"queued", "gone"}
    BY <1>1, ServiceFrame
<1>4. TypeOK'
    BY <1>2 DEF TypeOK, StageTypeOK
<1>5. UniqueTitle'
    BY <1>3 DEF UniqueTitle, UniqueIn
<1>6. ChosenInOrder'
    <2> SUFFICES ASSUME NEW s \in Request, chosen[s] # {}
                 PROVE  /\ phase'[s] = "running"
                        /\ stage[s] = "change"
                        /\ job'[s].mode = "insert"
                        /\ chosen[s] \subseteq Parsed(s)'
        BY DEF ChosenInOrder
    <2>1. /\ phase[s] = "running" /\ stage[s] = "change"
          /\ job[s].mode = "insert" /\ chosen[s] \subseteq Parsed(s)
        BY DEF ChosenInOrder
    <2>2. phase'[s] = "running" /\ job'[s] = job[s]
        BY <1>3, <2>1
    <2> QED
        BY <2>1, <2>2 DEF Parsed, Items
<1>7. TouchedInOrder' /\ AnswersInOrder' /\ ProbeInOrder'
    BY <1>3 DEF TouchedInOrder, AnswersInOrder, ProbeInOrder
<1>8. ReportsTouched'
    <2> SUFFICES ASSUME NEW s \in Request, NEW i \in DOMAIN answer[s],
                        "done" \in answer[s][i]
                 PROVE  \E t \in touched[s] : Fold[t] = Fold[TitleOf(s, i)']
        BY <1>3 DEF ReportsTouched
    <2>1. phase[s] # "idle"
        BY DEF AnswersInOrder
    <2>2. job'[s] = job[s]
        BY <1>3, <2>1
    <2> QED
        BY <2>2 DEF ReportsTouched, TitleOf
<1> QED
    BY <1>2, <1>4, <1>5, <1>6, <1>7, <1>8

\* A statement that moves on, and may choose but changes nothing else.
LEMMA MovesKeepInv ==
    ASSUME IInv, NEW r \in Request, phase[r] = "running", stage[r] \in {"parse", "probe"},
           NEW to \in {"probe", "change"}, stage' = [stage EXCEPT ![r] = to],
           NEW C, C \subseteq Parsed(r), chosen' = [chosen EXCEPT ![r] = C],
           C # {} => to = "change" /\ job[r].mode = "insert",
           to = "probe" => job[r].mode = "insert",
           UNCHANGED <<job, phase, answer, outcome, reply, table, touched>>
    PROVE  IInv'
<1> USE DEF IInv
<1>1. C \subseteq Nat
    BY ParsedItem
<1>2. TypeOK'
    BY <1>1 DEF TypeOK, StageTypeOK, ServiceTypeOK
<1>3. JobsInOrder' /\ UniqueTitle' /\ AnswersInOrder'
    BY DEF JobsInOrder, UniqueTitle, UniqueIn, AnswersInOrder
<1>4. ChosenInOrder'
    BY DEF ChosenInOrder, Parsed, Items, TypeOK, StageTypeOK
<1>5. TouchedInOrder' /\ ProbeInOrder'
    BY DEF TouchedInOrder, ProbeInOrder, TypeOK, StageTypeOK
<1>6. ReportsTouched'
    BY DEF ReportsTouched, TitleOf
<1> QED
    BY <1>2, <1>3, <1>4, <1>5, <1>6

\* The connection is there, and the first statement comes next.
LEMMA BeginKeepsInv ==
    ASSUME IInv, NEW r \in Request, Begin(r)
    PROVE  IInv'
<1> USE DEF IInv
<1>1. /\ Acquire(r) /\ stage' = [stage EXCEPT ![r] = "parse"]
      /\ UNCHANGED <<chosen, touched>>
    BY DEF Begin
<1>2. /\ phase[r] = "queued" /\ phase' = [phase EXCEPT ![r] = "running"]
      /\ UNCHANGED <<job, answer, outcome, reply, table>>
    BY <1>1 DEF Acquire
<1>3. ServiceTypeOK' /\ JobsInOrder'
    BY <1>1, AcquireKeeps DEF TypeOK, StageTypeOK
<1>4. TypeOK' /\ UniqueTitle'
    BY <1>1, <1>2, <1>3 DEF TypeOK, StageTypeOK, UniqueTitle, UniqueIn
<1>5. phase \in [Request -> Phase] /\ stage \in [Request -> {"parse", "probe", "change", "answer", "none"}]
    BY DEF TypeOK, StageTypeOK, ServiceTypeOK
<1>6. ChosenInOrder'
    BY <1>1, <1>2, <1>5 DEF ChosenInOrder, Parsed, Items
<1>7. TouchedInOrder' /\ ProbeInOrder'
    BY <1>1, <1>2, <1>5 DEF TouchedInOrder, ProbeInOrder
<1>8. AnswersInOrder'
    BY <1>2, <1>5 DEF AnswersInOrder
<1>9. ReportsTouched'
    BY <1>1, <1>2 DEF ReportsTouched, TitleOf
<1> QED
    BY <1>3, <1>4, <1>6, <1>7, <1>8, <1>9

\* A procedure that ends forgets what it chose, and reports what it touched.
LEMMA EndKeepsInv ==
    ASSUME IInv, NEW r \in Request, phase[r] = "running",
           NEW end \in {"committed", "aborted"}, NEW messages \in Seq(SUBSET Message),
           Finish(r, end, messages),
           stage' = [stage EXCEPT ![r] = "none"],
           chosen' = [chosen EXCEPT ![r] = {}],
           UNCHANGED <<table, touched>>,
           \A i \in DOMAIN messages : "done" \in messages[i] =>
               \E t \in touched[r] : Fold[t] = Fold[TitleOf(r, i)]
    PROVE  IInv'
<1> USE DEF IInv
<1>1. ServiceTypeOK
    BY DEF TypeOK, StageTypeOK
<1>2. ServiceTypeOK' /\ JobsInOrder'
    <2>1. table' \in [Title -> Content \cup {None}]
        BY <1>1 DEF ServiceTypeOK
    <2> QED
        BY <1>1, <2>1, FinishKeeps
<1>3. TypeOK' /\ UniqueTitle'
    BY <1>2 DEF TypeOK, StageTypeOK, UniqueTitle, UniqueIn
<1>4. /\ phase'[r] = end /\ answer'[r] = messages /\ job' = job
      /\ \A s \in Request \ {r} : phase'[s] = phase[s] /\ answer'[s] = answer[s]
    BY <1>1 DEF Finish, ServiceTypeOK
<1>5. ChosenInOrder'
    BY <1>4 DEF ChosenInOrder, Parsed, Items, TypeOK, StageTypeOK
<1>6. TouchedInOrder' /\ ProbeInOrder'
    BY <1>4 DEF TouchedInOrder, ProbeInOrder, TypeOK, StageTypeOK
<1>7. AnswersInOrder'
    BY <1>4 DEF AnswersInOrder
<1>8. ReportsTouched'
    BY <1>4 DEF ReportsTouched, TitleOf
<1> QED
    BY <1>2, <1>3, <1>5, <1>6, <1>7, <1>8

\* A statement that fails.
LEMMA FailKeepsInv ==
    ASSUME IInv, NEW r \in Request, Fail(r)
    PROVE  IInv'
<1>1. /\ phase[r] = "running" /\ stage' = [stage EXCEPT ![r] = "none"]
      /\ Finish(r, "aborted", <<>>) /\ chosen' = [chosen EXCEPT ![r] = {}]
      /\ UNCHANGED <<table, touched>>
    BY DEF Fail, FailStatement
<1> DEFINE messages == <<>>
<1>2. messages \in Seq(SUBSET Message) /\ DOMAIN messages = {}
    OBVIOUS
<1>3. Finish(r, "aborted", messages)
    BY <1>1
<1> HIDE DEF messages
<1> QED
    BY <1>1, <1>2, <1>3, EndKeepsInv

\* The answer.
LEMMA AnswerKeepsInv ==
    ASSUME IInv, NEW r \in Request, Answer(r)
    PROVE  IInv'
<1> USE DEF IInv
<1>1. /\ phase[r] = "running" /\ stage[r] = "answer"
      /\ stage' = [stage EXCEPT ![r] = "none"]
      /\ Finish(r, "committed", AnswerTo(r)) /\ UNCHANGED <<table, chosen, touched>>
    BY DEF Answer, Stage
<1>2. AnswerTo(r) \in Seq(SUBSET Message)
    BY <1>1, AnswerType
<1>3. \A i \in DOMAIN AnswerTo(r) : "done" \in AnswerTo(r)[i] =>
          \E t \in touched[r] : Fold[t] = Fold[TitleOf(r, i)]
    BY DEF AnswerTo
<1>4. chosen[r] = {}
    BY <1>1 DEF ChosenInOrder
<1>5. chosen' = [chosen EXCEPT ![r] = {}]
    BY <1>1, <1>4 DEF TypeOK
<1> QED
    BY <1>1, <1>2, <1>3, <1>5, EndKeepsInv

-----------------------------------------------------------------------------
(* The three changes.                                                      *)

\* A change touches rows, forgets what was chosen and leaves the answer to do.
LEMMA ChangeKeepsInv ==
    ASSUME IInv, NEW r \in Request, phase[r] = "running", stage[r] = "change",
           stage' = [stage EXCEPT ![r] = "answer"],
           NEW rows \in SUBSET Title, touched' = [touched EXCEPT ![r] = rows],
           chosen' = [chosen EXCEPT ![r] = {}],
           table' \in [Title -> Content \cup {None}], UniqueTitle',
           UNCHANGED <<job, phase, answer, outcome, reply>>
    PROVE  IInv'
<1> USE DEF IInv
<1>1. TypeOK'
    BY DEF TypeOK, StageTypeOK, ServiceTypeOK
<1>2. JobsInOrder' /\ AnswersInOrder'
    BY DEF JobsInOrder, AnswersInOrder
<1>3. ChosenInOrder'
    BY DEF ChosenInOrder, Parsed, Items, TypeOK, StageTypeOK
<1>4. TouchedInOrder' /\ ProbeInOrder'
    BY DEF TouchedInOrder, ProbeInOrder, TypeOK, StageTypeOK
<1>5. ReportsTouched'
    <2>1. DOMAIN answer[r] = {}
        BY DEF AnswersInOrder
    <2> QED
        BY <2>1 DEF ReportsTouched, TitleOf, TypeOK
<1> QED
    BY <1>1, <1>2, <1>3, <1>4, <1>5

\* What an insert that meets no key violation makes of the table.
LEMMA InsertShape ==
    ASSUME IInv, NEW r \in Request, Insert(r)
    PROVE  /\ \A i \in chosen[r] : /\ TitleOf(r, i) \in Title
                                   /\ Matching(table, TitleOf(r, i)) = {}
                                   /\ table'[TitleOf(r, i)] # None
           /\ table' \in [Title -> Content \cup {None}]
           /\ \A t \in Title : table'[t] # table[t] =>
                 \E i \in chosen[r] : t = TitleOf(r, i)
<1> USE DEF IInv
<1>1. phase[r] = "running" /\ ~KeyViolation(r)
    BY DEF Insert, Stage
<1>2. chosen[r] \subseteq Parsed(r)
    BY DEF ChosenInOrder
<1>3. \A i \in chosen[r] : /\ TitleOf(r, i) \in Title
                           /\ Matching(table, TitleOf(r, i)) = {}
                           /\ ContentOf(job[r].items[i]) \in Content
                           /\ ContentOf(job[r].items[i]) # None
    BY <1>1, <1>2, ParsedItem DEF KeyViolation
<1> DEFINE Row(t) == ContentOf(job[r].items[CHOOSE i \in chosen[r] : TitleOf(r, i) = t])
<1>4. \A t \in Title : (\E i \in chosen[r] : TitleOf(r, i) = t) =>
          Row(t) \in Content /\ Row(t) # None
    BY <1>3
<1>5. table' = [t \in Title |-> IF \E i \in chosen[r] : TitleOf(r, i) = t
                                THEN Row(t) ELSE table[t]]
    BY DEF Insert
<1> HIDE DEF Row
<1>6. table \in [Title -> Content \cup {None}]
    BY DEF TypeOK, StageTypeOK, ServiceTypeOK
<1> QED
    BY <1>3, <1>4, <1>5, <1>6

\* The key keeps the insert from making two rows of one title.
LEMMA InsertKeepsInv ==
    ASSUME IInv, NEW r \in Request, Insert(r)
    PROVE  IInv'
<1>1. /\ \A i \in chosen[r] : /\ TitleOf(r, i) \in Title
                              /\ Matching(table, TitleOf(r, i)) = {}
      /\ table' \in [Title -> Content \cup {None}]
      /\ \A t \in Title : table'[t] # table[t] => \E i \in chosen[r] : t = TitleOf(r, i)
    BY InsertShape
<1>2. ~KeyViolation(r)
    BY DEF Insert
<1>3. UniqueTitle'
    <2> SUFFICES ASSUME NEW t \in Title, NEW u \in Title,
                        table'[t] # None, table'[u] # None, Fold[t] = Fold[u]
                 PROVE  t = u
        BY DEF UniqueTitle, UniqueIn
    <2>1. CASE table'[t] = table[t] /\ table'[u] = table[u]
        BY <2>1 DEF IInv, UniqueTitle, UniqueIn
    <2>2. ASSUME NEW i \in chosen[r], t = TitleOf(r, i) PROVE t = u
        <3>1. table[u] = None
            BY <1>1, <2>2 DEF Matching
        <3>2. PICK k \in chosen[r] : u = TitleOf(r, k)
            BY <1>1, <3>1
        <3> QED
            BY <1>2, <2>2, <3>2 DEF KeyViolation
    <2>3. ASSUME NEW i \in chosen[r], u = TitleOf(r, i) PROVE t = u
        <3>1. table[t] = None
            BY <1>1, <2>3 DEF Matching
        <3>2. PICK k \in chosen[r] : t = TitleOf(r, k)
            BY <1>1, <3>1
        <3> QED
            BY <1>2, <2>3, <3>2 DEF KeyViolation
    <2> QED
        BY <1>1, <2>1, <2>2, <2>3
<1> DEFINE rows == {TitleOf(r, i) : i \in chosen[r]}
<1>4. rows \in SUBSET Title
    BY <1>1
<1>5. /\ phase[r] = "running" /\ stage[r] = "change"
      /\ stage' = [stage EXCEPT ![r] = "answer"]
      /\ touched' = [touched EXCEPT ![r] = rows]
      /\ chosen' = [chosen EXCEPT ![r] = {}]
      /\ UNCHANGED <<job, phase, answer, outcome, reply>>
    BY DEF Insert, Stage
<1> HIDE DEF rows
<1> QED
    BY <1>1, <1>3, <1>4, <1>5, ChangeKeepsInv

\* An update or delete has chosen nothing.
LEMMA NothingChosen ==
    ASSUME IInv, NEW r \in Request, job[r].mode # "insert"
    PROVE  chosen = [chosen EXCEPT ![r] = {}]
<1>1. chosen[r] = {} /\ chosen \in [Request -> SUBSET Nat]
    BY DEF IInv, ChosenInOrder, TypeOK
<1> QED
    BY <1>1

\* An update puts rows where rows were.
LEMMA UpdateShape ==
    ASSUME IInv, NEW r \in Request, Update(r)
    PROVE  /\ table' \in [Title -> Content \cup {None}]
           /\ \A t \in Title : table'[t] = None <=> table[t] = None
<1> USE DEF IInv
<1> DEFINE rows == {t \in Title : DifferingItems(r, t) # {}}
<1>1. phase[r] = "running"
    BY DEF Update, Stage
<1>2. PICK pick \in [rows -> Items(r)] :
          /\ \A t \in rows : pick[t] \in DifferingItems(r, t) /\ ~Undated(r, pick[t])
          /\ table' = [t \in Title |-> IF t \in rows THEN ContentOf(job[r].items[pick[t]])
                                                     ELSE table[t]]
    BY DEF Update
<1>3. \A t \in rows : pick[t] \in Parsed(r) /\ table[t] # None
    BY <1>2 DEF DifferingItems, ItemsFor
<1>4. \A t \in rows : /\ ContentOf(job[r].items[pick[t]]) \in Content
                      /\ ContentOf(job[r].items[pick[t]]) # None
    BY <1>1, <1>3, ParsedItem
<1> HIDE DEF rows
<1> QED
    BY <1>2, <1>3, <1>4 DEF TypeOK, StageTypeOK, ServiceTypeOK

\* An update keeps the invariant.
LEMMA UpdateKeepsInv ==
    ASSUME IInv, NEW r \in Request, Update(r)
    PROVE  IInv'
<1>1. /\ table' \in [Title -> Content \cup {None}]
      /\ \A t \in Title : table'[t] = None <=> table[t] = None
    BY UpdateShape
<1>2. UniqueTitle'
    BY <1>1 DEF IInv, UniqueTitle, UniqueIn
<1> DEFINE rows == {t \in Title : DifferingItems(r, t) # {}}
<1>3. rows \in SUBSET Title
    OBVIOUS
<1>4. /\ phase[r] = "running" /\ stage[r] = "change"
      /\ stage' = [stage EXCEPT ![r] = "answer"]
      /\ touched' = [touched EXCEPT ![r] = rows]
      /\ chosen' = chosen /\ job[r].mode = "update"
      /\ UNCHANGED <<job, phase, answer, outcome, reply>>
    BY DEF Update, Stage
<1>5. chosen' = [chosen EXCEPT ![r] = {}]
    BY <1>4, NothingChosen
<1> HIDE DEF rows
<1> QED
    BY <1>1, <1>2, <1>3, <1>4, <1>5, ChangeKeepsInv

\* A delete only takes rows away.
LEMMA DeleteKeepsInv ==
    ASSUME IInv, NEW r \in Request, Delete(r)
    PROVE  IInv'
<1> DEFINE rows == UNION {Matching(table, TitleOf(r, i)) : i \in Parsed(r)}
<1>1. rows \in SUBSET Title
    BY DEF Matching
<1>2. /\ phase[r] = "running" /\ stage[r] = "change"
      /\ stage' = [stage EXCEPT ![r] = "answer"]
      /\ table' = [t \in Title |-> IF t \in rows THEN None ELSE table[t]]
      /\ touched' = [touched EXCEPT ![r] = rows]
      /\ chosen' = chosen /\ job[r].mode = "delete"
      /\ UNCHANGED <<job, phase, answer, outcome, reply>>
    BY DEF Delete, Stage
<1>3. chosen' = [chosen EXCEPT ![r] = {}]
    BY <1>2, NothingChosen
<1> HIDE DEF rows
<1>4. table' \in [Title -> Content \cup {None}]
    BY <1>2 DEF IInv, TypeOK, StageTypeOK, ServiceTypeOK
<1>5. UniqueTitle'
    BY <1>2 DEF IInv, UniqueTitle, UniqueIn
<1> QED
    BY <1>1, <1>2, <1>3, <1>4, <1>5, ChangeKeepsInv

-----------------------------------------------------------------------------
(* Types, unique titles                                                    *)

\* Every step keeps the invariant.
LEMMA StepInv == IInv /\ [Next]_vars => IInv'
<1> SUFFICES ASSUME IInv, [Next]_vars PROVE IInv'
    OBVIOUS
<1>1. ASSUME NEW r \in Request, Parse(r) PROVE IInv'
    <2> DEFINE to == IF job[r].mode = "insert" THEN "probe" ELSE "change"
    <2>1. /\ phase[r] = "running" /\ stage[r] = "parse" /\ to \in {"probe", "change"}
          /\ stage' = [stage EXCEPT ![r] = to]
          /\ UNCHANGED <<job, phase, answer, outcome, reply, table, chosen, touched>>
          /\ to = "probe" => job[r].mode = "insert"
        BY <1>1 DEF Parse, Stage
    <2>2. chosen' = [chosen EXCEPT ![r] = {}]
        BY <2>1 DEF IInv, ChosenInOrder, TypeOK
    <2> HIDE DEF to
    <2> QED
        BY <2>1, <2>2, MovesKeepInv
<1>2. ASSUME NEW r \in Request, Probe(r) PROVE IInv'
    <2> DEFINE C == {i \in Parsed(r) : Matching(table, TitleOf(r, i)) = {}}
    <2>1. /\ phase[r] = "running" /\ stage[r] = "probe"
          /\ stage' = [stage EXCEPT ![r] = "change"]
          /\ chosen' = [chosen EXCEPT ![r] = C] /\ C \subseteq Parsed(r)
          /\ UNCHANGED <<job, phase, answer, outcome, reply, table, touched>>
        BY <1>2 DEF Probe, Stage
    <2>2. job[r].mode = "insert"
        BY <2>1 DEF IInv, ProbeInOrder
    <2> HIDE DEF C
    <2> QED
        BY <2>1, <2>2, MovesKeepInv
<1>3. ASSUME NEW r \in Request, Fail(r) PROVE IInv'
    BY <1>3, FailKeepsInv
<1>4. CASE UNCHANGED vars
    BY <1>4 DEF vars, IInv, TypeOK, StageTypeOK, ServiceTypeOK, JobsInOrder, UniqueTitle,
                UniqueIn, ChosenInOrder, Parsed, Items, TouchedInOrder, AnswersInOrder,
                ReportsTouched, TitleOf, ProbeInOrder
<1>5. ASSUME NEW r \in Request, RequestStep(r) PROVE IInv'
    BY <1>1, <1>2, <1>3, <1>5, ServiceKeepsInv, BeginKeepsInv, InsertKeepsInv,
       UpdateKeepsInv, DeleteKeepsInv, AnswerKeepsInv
    DEF RequestStep, FailParse, FailInsert, FailUpdate, DeadlockVictim, FailOnLoss
<1> QED
    BY <1>4, <1>5 DEF Next, Terminated

\* At the start nothing is chosen, touched or answered.
LEMMA InitInv == Init => IInv
<1> SUFFICES ASSUME Init PROVE IInv
    OBVIOUS
<1>1. ServiceTypeOK /\ JobsInOrder
    BY ServiceStart DEF Init
<1>2. TypeOK
    BY <1>1 DEF Init, StageInit, TypeOK, StageTypeOK
<1>3. UniqueTitle
    BY InitialTableAssumption DEF Init, ServiceInit, UniqueTitle
<1>4. ChosenInOrder /\ TouchedInOrder /\ AnswersInOrder /\ ReportsTouched /\ ProbeInOrder
    BY DEF Init, ServiceInit, StageInit, ChosenInOrder, TouchedInOrder, AnswersInOrder,
           ReportsTouched, ProbeInOrder
<1> QED
    BY <1>1, <1>2, <1>3, <1>4 DEF IInv

\* In every reachable state the invariant holds.
LEMMA Invariance == Spec => []IInv
BY InitInv, StepInv, PTL DEF Spec

\* Every variable keeps its type, whatever the batches: an item without a
\* feed_url or a publish_date never gets as far as the table.
THEOREM TypeCorrect == Spec => []TypeOK
<1>1. IInv => TypeOK
    BY DEF IInv
<1> QED
    BY <1>1, Invariance, PTL

\* The primary key alone keeps titles that differ in case only from being
\* stored together, whatever comes between the probe and the insert.
THEOREM TitlesStayUnique == Spec => []UniqueTitle
<1>1. IInv => UniqueTitle
    BY DEF IInv
<1> QED
    BY <1>1, Invariance, PTL

-----------------------------------------------------------------------------
(* The books                                                               *)

Folded == {Fold[t] : t \in Title}

Inserters(k) == {r \in Request : Touched(r, "insert", k)}
Deleters(k) == {r \in Request : Touched(r, "delete", k)}

\* Steps that touch nothing leave the books as they are.
LEMMA QuietBooks ==
    ASSUME IInv, NEW k, UNCHANGED <<table, touched>>,
           \A s \in Request : phase[s] # "idle" => job'[s] = job[s]
    PROVE  /\ Inserters(k)' = Inserters(k) /\ Deleters(k)' = Deleters(k)
           /\ Present(table, k)' = Present(table, k)
<1>1. ASSUME NEW s \in Request, NEW mode
      PROVE  Touched(s, mode, k)' <=> Touched(s, mode, k)
    <2>1. CASE touched[s] = {}
        BY <2>1 DEF Touched
    <2>2. CASE touched[s] # {}
        BY <2>2 DEF IInv, TouchedInOrder, Touched
    <2> QED
        BY <2>1, <2>2
<1> QED
    BY <1>1 DEF Inserters, Deleters, Present

\* A change touches the rows of one request.
LEMMA ChangeTouches ==
    ASSUME IInv, NEW r \in Request, NEW k, NEW rows,
           phase[r] = "running", stage[r] = "change",
           touched' = [touched EXCEPT ![r] = rows], job' = job
    PROVE  /\ r \notin Inserters(k) /\ r \notin Deleters(k)
           /\ \/ Inserters(k)' = Inserters(k)
              \/ job[r].mode = "insert" /\ Inserters(k)' = Inserters(k) \cup {r}
           /\ \/ Deleters(k)' = Deleters(k)
              \/ job[r].mode = "delete" /\ Deleters(k)' = Deleters(k) \cup {r}
           /\ touched'[r] = rows /\ job[r] # None
<1>1. touched[r] = {}
    BY DEF IInv, TouchedInOrder
<1>2. touched'[r] = rows /\ \A s \in Request \ {r} : touched'[s] = touched[s]
    BY DEF IInv, TypeOK
<1>3. job[r] # None
    BY JobAssumption DEF IInv, JobsInOrder
<1> QED
    BY <1>1, <1>2, <1>3 DEF Inserters, Deleters, Touched

\* Every step keeps the books on every title.
LEMMA BooksKept ==
    ASSUME IsFiniteSet(Request), IInv, [Next]_vars, NEW k \in Folded, Balanced(Touched, k)
    PROVE  Balanced(Touched, k)'
<1> DEFINE I == Inserters(k)
           D == Deleters(k)
           p == Present(table, k)
           start == Present(InitialTable, k)
<1>1. Cardinality(I) + start = Cardinality(D) + p
    BY DEF Balanced, Inserters, Deleters
<1>2. /\ I \in SUBSET Request /\ D \in SUBSET Request
      /\ start \in Int /\ p \in Int
    BY DEF Inserters, Deleters, Present
<1>3. SUFFICES \/ I' = I /\ D' = D /\ p' = p
               \/ \E r \in Request \ I : I' = I \cup {r} /\ D' = D /\ p' = p + 1
               \/ \E r \in Request \ D : I' = I /\ D' = D \cup {r} /\ p' = p - 1
    <2>1. p' \in Int
        BY DEF Present
    <2> HIDE DEF I, D, p, start
    <2>2. Cardinality(I') + start = Cardinality(D') + p'
        BY <1>1, <1>2, <1>3, <2>1, BooksStep
    <2> QED
        BY <2>2 DEF Balanced, Inserters, Deleters, I, D, p, start
<1>4. ASSUME UNCHANGED <<table, touched>>,
             \A s \in Request : phase[s] # "idle" => job'[s] = job[s]
      PROVE  I' = I /\ D' = D /\ p' = p
    BY <1>4, QuietBooks
<1>5. ASSUME NEW r \in Request, ServiceStep(r), UNCHANGED <<stage, chosen, touched>>
      PROVE  I' = I /\ D' = D /\ p' = p
    <2>1. ServiceTypeOK
        BY DEF IInv, TypeOK, StageTypeOK
    <2> QED
        BY <1>4, <1>5, <2>1, ServiceFrame
<1>6. ASSUME NEW r \in Request, Begin(r) \/ Parse(r) \/ Probe(r) \/ Fail(r) \/ Answer(r)
      PROVE  I' = I /\ D' = D /\ p' = p
    BY <1>4, <1>6 DEF Begin, Acquire, Parse, Probe, Fail, FailStatement, Finish, Answer
<1>7. ASSUME NEW r \in Request, Insert(r)
      PROVE  \/ I' = I /\ D' = D /\ p' = p
             \/ r \in Request \ I /\ I' = I \cup {r} /\ D' = D /\ p' = p + 1
    <2> DEFINE rows == {TitleOf(r, i) : i \in chosen[r]}
    <2>1. /\ phase[r] = "running" /\ stage[r] = "change" /\ job[r].mode = "insert"
          /\ touched' = [touched EXCEPT ![r] = rows] /\ job' = job
        BY <1>7 DEF Insert, Stage
    <2>2. /\ \A t \in rows : /\ t \in Title
                             /\ Matching(table, t) = {}
                             /\ table'[t] # None
          /\ \A t \in Title : table'[t] # table[t] => t \in rows
        BY <1>7, InsertShape
    <2> HIDE DEF rows
    <2>3. /\ r \notin I /\ D' = D
          /\ I' = I \/ I' = I \cup {r}
        BY <2>1, ChangeTouches
    <2>6. r \in I' <=> \E t \in rows : Fold[t] = k
        <3>1. touched'[r] = rows /\ job'[r].mode = job[r].mode /\ job'[r] # None
            BY <2>1, ChangeTouches
        <3> QED
            BY <2>1, <3>1 DEF Inserters, Touched
    <2>4. CASE \E t \in rows : Fold[t] = k
        <3>1. p = 0 /\ p' = 1
            BY <2>2, <2>4 DEF Present, Matching
        <3> QED
            BY <2>3, <2>4, <2>6, <3>1
    <2>5. CASE ~\E t \in rows : Fold[t] = k
        <3>1. p' = p
            BY <2>2, <2>5 DEF Present
        <3> QED
            BY <2>3, <2>5, <2>6, <3>1
    <2> QED
        BY <2>4, <2>5
<1>8. ASSUME NEW r \in Request, Update(r)
      PROVE  I' = I /\ D' = D /\ p' = p
    <2> DEFINE rows == {t \in Title : DifferingItems(r, t) # {}}
    <2>1. /\ phase[r] = "running" /\ stage[r] = "change" /\ job[r].mode = "update"
          /\ touched' = [touched EXCEPT ![r] = rows] /\ job' = job
        BY <1>8 DEF Update, Stage
    <2> HIDE DEF rows
    <2>2. I' = I /\ D' = D
        BY <2>1, ChangeTouches
    <2>3. p' = p
        BY <1>8, UpdateShape DEF Present
    <2> QED
        BY <2>2, <2>3
<1>9. ASSUME NEW r \in Request, Delete(r)
      PROVE  \/ I' = I /\ D' = D /\ p' = p
             \/ r \in Request \ D /\ I' = I /\ D' = D \cup {r} /\ p' = p - 1
    <2> DEFINE rows == UNION {Matching(table, TitleOf(r, i)) : i \in Parsed(r)}
    <2>1. /\ phase[r] = "running" /\ stage[r] = "change" /\ job[r].mode = "delete"
          /\ touched' = [touched EXCEPT ![r] = rows] /\ job' = job
          /\ table' = [t \in Title |-> IF t \in rows THEN None ELSE table[t]]
        BY <1>9 DEF Delete, Stage
    <2>2. /\ \A t \in rows : t \in Title /\ table[t] # None
          /\ \A t \in rows, u \in Title : Fold[u] = Fold[t] /\ table[u] # None => u \in rows
        BY DEF Matching
    <2> HIDE DEF rows
    <2>3. /\ r \notin D /\ I' = I
          /\ D' = D \/ D' = D \cup {r}
        BY <2>1, ChangeTouches
    <2>6. r \in D' <=> \E t \in rows : Fold[t] = k
        <3>1. touched'[r] = rows /\ job'[r].mode = job[r].mode /\ job'[r] # None
            BY <2>1, ChangeTouches
        <3> QED
            BY <2>1, <3>1 DEF Deleters, Touched
    <2>4. CASE \E t \in rows : Fold[t] = k
        <3>1. p = 1 /\ p' = 0
            BY <2>1, <2>2, <2>4 DEF Present
        <3> QED
            BY <2>3, <2>4, <2>6, <3>1
    <2>5. CASE ~\E t \in rows : Fold[t] = k
        <3>1. p' = p
            BY <2>1, <2>5 DEF Present
        <3> QED
            BY <2>3, <2>5, <2>6, <3>1
    <2> QED
        BY <2>4, <2>5
<1>10. CASE UNCHANGED vars
    BY <1>4, <1>10 DEF vars
<1> HIDE DEF I, D, p, start
<1> QED
    BY <1>5, <1>6, <1>7, <1>8, <1>9, <1>10
    DEF Next, RequestStep, FailParse, FailInsert, FailUpdate, DeadlockVictim, FailOnLoss,
           Terminated

Books == \A k \in Folded : Balanced(Touched, k)

\* Of any number of inserts and deletes racing over a title, in any order and
\* with any failures, those that touched it account for what became of it;
\* and a request reports as done only what it touched.
THEOREM BooksAreKept ==
    ASSUME IsFiniteSet(Request)
    PROVE  Spec => []TouchAccounting
<1>1. Init => Books
    <2> SUFFICES ASSUME Init, NEW k \in Folded PROVE Balanced(Touched, k)
        BY DEF Books
    <2>1. Inserters(k) = {} /\ Deleters(k) = {} /\ table = InitialTable
        BY DEF Init, ServiceInit, Inserters, Deleters, Touched
    <2>2. Present(table, k) \in Int
        BY DEF Present
    <2> QED
        BY <2>1, <2>2, FS_EmptySet DEF Balanced, Inserters, Deleters
<1>2. IInv /\ Books /\ [Next]_vars => Books'
    BY BooksKept DEF Books
<1>3. IInv /\ Books => TouchAccounting
    <2> SUFFICES ASSUME IInv, NEW r \in Request, NEW mode \in Mode, NEW k \in Folded,
                        Reported(r, mode, k)
                 PROVE  Touched(r, mode, k)
        BY DEF Books, TouchAccounting, Folded
    <2> QED
        BY DEF IInv, ReportsTouched, Reported, Touched
<1> QED
    BY <1>1, <1>2, <1>3, Invariance, PTL DEF Spec

-----------------------------------------------------------------------------
(* The life of a request.                                                  *)

\* Only running procedures have a statement to run.
StagesInOrder == \A r \in Request : stage[r] # "none" => phase[r] = "running"

\* Every step is a move of the service.
LEMMA StepIsMove == IInv /\ [Next]_vars => ServiceMove
<1> SUFFICES ASSUME IInv, [Next]_vars PROVE ServiceMove
    OBVIOUS
<1>1. ASSUME NEW r \in Request, Fail(r) PROVE ServiceMove
    <2> DEFINE messages == <<>>
    <2>1. phase[r] = "running" /\ Finish(r, "aborted", messages)
        BY <1>1 DEF Fail, FailStatement
    <2>2. messages \in Seq(SUBSET Message)
        OBVIOUS
    <2> HIDE DEF messages
    <2> QED
        BY <2>1, <2>2 DEF ServiceMove
<1>2. ASSUME NEW r \in Request, Answer(r) PROVE ServiceMove
    <2>1. phase[r] = "running" /\ Finish(r, "committed", AnswerTo(r))
        BY <1>2 DEF Answer, Stage
    <2>2. AnswerTo(r) \in Seq(SUBSET Message)
        BY <2>1, AnswerType DEF IInv
    <2> QED
        BY <2>1, <2>2 DEF ServiceMove
<1>3. ASSUME NEW r \in Request, ServiceStep(r) \/ Begin(r) PROVE ServiceMove
    BY <1>3 DEF Begin, ServiceMove
<1>4. ASSUME NEW r \in Request, Parse(r) \/ Probe(r) \/ Insert(r) \/ Update(r) \/ Delete(r)
      PROVE  ServiceMove
    BY <1>4 DEF Parse, Probe, Insert, Update, Delete, ServiceMove
<1>5. CASE UNCHANGED vars
    BY <1>5 DEF vars, ServiceMove
<1> QED
    BY <1>1, <1>2, <1>3, <1>4, <1>5
    DEF Next, RequestStep, FailParse, FailInsert, FailUpdate, DeadlockVictim, FailOnLoss,
           Terminated

\* Every step keeps the statements where procedures run.
LEMMA StagesKept == IInv /\ StagesInOrder /\ [Next]_vars => StagesInOrder'
<1> SUFFICES ASSUME IInv, StagesInOrder, [Next]_vars PROVE StagesInOrder'
    OBVIOUS
<1> USE DEF IInv, TypeOK, StageTypeOK
<1>1. ASSUME NEW r \in Request, ServiceStep(r), UNCHANGED stage PROVE StagesInOrder'
    BY <1>1, ServiceFrame DEF StagesInOrder
<1>2. ASSUME NEW r \in Request, Begin(r) PROVE StagesInOrder'
    BY <1>2 DEF Begin, Acquire, StagesInOrder, ServiceTypeOK
<1>3. ASSUME NEW r \in Request, NEW from, NEW to, Stage(r, from, to), UNCHANGED phase
      PROVE  StagesInOrder'
    BY <1>3 DEF Stage, StagesInOrder, ServiceTypeOK
<1>4. ASSUME NEW r \in Request, NEW end, NEW messages, Finish(r, end, messages),
             stage' = [stage EXCEPT ![r] = "none"]
      PROVE  StagesInOrder'
    BY <1>4 DEF Finish, StagesInOrder, ServiceTypeOK
<1>5. ASSUME NEW r \in Request, Parse(r) \/ Probe(r) \/ Insert(r) \/ Update(r) \/ Delete(r)
      PROVE  StagesInOrder'
    BY <1>3, <1>5 DEF Parse, Probe, Insert, Update, Delete
<1>6. ASSUME NEW r \in Request, Answer(r) \/ Fail(r) PROVE StagesInOrder'
    BY <1>4, <1>6 DEF Answer, Stage, Fail, FailStatement
<1>7. CASE UNCHANGED vars
    BY <1>7 DEF vars, StagesInOrder
<1> QED
    BY <1>1, <1>2, <1>5, <1>6, <1>7
    DEF Next, RequestStep, FailParse, FailInsert, FailUpdate, DeadlockVictim, FailOnLoss,
           Terminated

OrderInv == StagesInOrder /\ NothingBeforeArrival /\ RepliesInOrder

\* Statements, arrivals and replies are in order in every reachable state.
LEMMA OrderInvariance == Spec => [](IInv /\ OrderInv)
<1>1. Init => OrderInv
    BY DEF Init, ServiceInit, StageInit, OrderInv, StagesInOrder, NothingBeforeArrival,
           RepliesInOrder
<1>2. IInv /\ OrderInv /\ [Next]_vars => OrderInv'
    BY StepIsMove, MoveKeepsOrder, StagesKept DEF OrderInv, IInv, TypeOK, StageTypeOK
<1> QED
    BY <1>1, <1>2, InitInv, StepInv, PTL DEF Spec

\* A client that was told 2xx or 4xx, but not 408, has seen the last of its
\* request, on SQL Server too.
THEOREM SettledIsFinal == Spec => SettledStaysSettled
<1>1. IInv /\ OrderInv /\ [Next]_vars =>
          [\A r \in Request :
              reply[r] \notin {0, 408, 500} =>
                  phase'[r] = phase[r] /\ answer'[r] = answer[r]]_serviceVars
    BY StepIsMove, OverIsOver DEF OrderInv, RepliesInOrder, IInv, TypeOK, StageTypeOK
<1> QED
    BY <1>1, OrderInvariance, PTL DEF Spec, SettledStaysSettled

-----------------------------------------------------------------------------
(* The refinement: the effects of the three changes.                       *)

\* What the store calls complete, named, taken and asked for.
LEMMA StoreTerms ==
    ASSUME NEW r \in Request, NEW u \in Title
    PROVE  /\ Store!Complete(r) = Parsed(r)
           /\ Store!Naming(r, u) = ItemsFor(r, u)
           /\ Store!Taken(u) <=> Matching(table, u) # {}
           /\ \A S : Store!Contents(S, r) = {ContentOf(job[r].items[i]) : i \in S}
           /\ \A i : ContentOf(job[r].items[i]).publish_date \in OddDate <=> Undated(r, i)
BY DEF Undated, Store!Complete, Parsed, Items, Store!Naming, Store!Alike, ItemsFor, TitleOf,
       Store!Taken, Matching, Store!Contents, Store!ContentOf, ContentOf

\* An insert stores only what its probe has found missing.
LEMMA InsertHasEffect ==
    ASSUME IInv, NEW r \in Request, Insert(r), NEW u \in Title
    PROVE  table'[u] \in Store!Effects(r, u)
<1>1. /\ stage[r] = "change" /\ job[r].mode = "insert" /\ ~KeyViolation(r)
      /\ chosen[r] \subseteq Parsed(r) /\ \A i \in chosen[r] : ~Undated(r, i)
    BY DEF Insert, Stage, IInv, ChosenInOrder
<1>2. Parsed(r) \ FoundTaken(r) = chosen[r]
    BY <1>1 DEF FoundTaken
<1> DEFINE asked == {ContentOf(job[r].items[i]) : i \in {n \in chosen[r] : TitleOf(r, n) = u}}
           c == CHOOSE i \in chosen[r] : TitleOf(r, i) = u
<1>3. Store!Effects(r, u) = IF asked = {} \/ Store!Taken(u) THEN {table[u]} ELSE asked
    <2>1. Store!Storable(asked) = asked
        BY <1>1, StoreTerms DEF Store!Storable
    <2>2. Store!Contents({i \in Store!Complete(r) \ FoundTaken(r) :
                             job[r].items[i].title = u}, r) = asked
        BY <1>2, StoreTerms DEF TitleOf
    <2> HIDE DEF asked
    <2> QED
        BY <1>1, <2>1, <2>2 DEF Store!Effects, Store!Inserted
<1>4. table'[u] = IF \E i \in chosen[r] : TitleOf(r, i) = u
                  THEN ContentOf(job[r].items[c]) ELSE table[u]
    BY DEF Insert
<1>5. CASE \E i \in chosen[r] : TitleOf(r, i) = u
    <2>1. c \in chosen[r] /\ TitleOf(r, c) = u
        BY <1>5
    <2>2. ~Store!Taken(u)
        BY <1>1, <2>1, StoreTerms DEF KeyViolation
    <2> HIDE DEF c
    <2>3. ContentOf(job[r].items[c]) \in asked
        BY <2>1
    <2> QED
        BY <1>3, <1>4, <1>5, <2>2, <2>3
<1>6. CASE ~\E i \in chosen[r] : TitleOf(r, i) = u
    BY <1>3, <1>4, <1>6
<1> QED
    BY <1>5, <1>6

\* An update stores what an item asks for, or passes over a row that no item
\* differs from.
LEMMA UpdateHasEffect ==
    ASSUME IInv, NEW r \in Request, Update(r), NEW u \in Title
    PROVE  table'[u] \in Store!Effects(r, u)
<1> DEFINE rows == {t \in Title : DifferingItems(r, t) # {}}
<1>1. PICK pick \in [rows -> Items(r)] :
          /\ \A t \in rows : pick[t] \in DifferingItems(r, t) /\ ~Undated(r, pick[t])
          /\ table' = [t \in Title |-> IF t \in rows THEN ContentOf(job[r].items[pick[t]])
                                                     ELSE table[t]]
    BY DEF Update
<1>2. Store!Effects(r, u) = Store!Updated(r, u)
    BY DEF Update, Store!Effects
<1>3. CASE u \in rows
    <2>1. pick[u] \in ItemsFor(r, u) /\ table[u] # None /\ ~Undated(r, pick[u])
        BY <1>1, <1>3 DEF DifferingItems
    <2>2. table'[u] = ContentOf(job[r].items[pick[u]])
        BY <1>1, <1>3
    <2>3. ContentOf(job[r].items[pick[u]]) \in Store!Storable(Store!Contents(ItemsFor(r, u), r))
        BY <2>1, StoreTerms DEF Store!Storable
    <2> QED
        BY <1>2, <2>1, <2>2, <2>3, StoreTerms DEF Store!Updated
<1>4. CASE u \notin rows
    <2>1. table'[u] = table[u]
        BY <1>1, <1>4
    <2>2. CASE table[u] = None \/ ItemsFor(r, u) = {}
        BY <1>2, <2>1, <2>2, StoreTerms DEF Store!Updated
    <2>3. CASE table[u] # None /\ ItemsFor(r, u) # {}
        <3>1. \A i \in ItemsFor(r, u) : ~Differs(table[u], job[r].items[i])
            BY <1>4, <2>3 DEF DifferingItems
        <3>2. Store!Satisfied(r, u)
            <4> SUFFICES ASSUME NEW i \in ItemsFor(r, u), NEW row,
                                row = ContentOf(job[r].items[i])
                         PROVE  /\ row.feed_url = table[u].feed_url
                                /\ \/ row.publish_date = table[u].publish_date
                                   \/ row.publish_date \in OddDate
                                /\ \/ row.image_url = table[u].image_url
                                   \/ None \in {row.image_url, table[u].image_url}
                BY StoreTerms DEF Store!Satisfied
            <4> QED
                BY <3>1 DEF Differs, ContentOf
        <3> QED
            BY <1>2, <2>1, <2>3, <3>2 DEF Store!Updated
    <2> QED
        BY <2>2, <2>3
<1> QED
    BY <1>3, <1>4

\* A delete takes away what its items name.
LEMMA DeleteHasEffect ==
    ASSUME IInv, NEW r \in Request, Delete(r), NEW u \in Title
    PROVE  table'[u] \in Store!Effects(r, u)
<1> DEFINE rows == UNION {Matching(table, TitleOf(r, i)) : i \in Parsed(r)}
<1>1. table'[u] = IF u \in rows THEN None ELSE table[u]
    BY DEF Delete
<1>2. Store!Effects(r, u) = IF ItemsFor(r, u) = {} THEN {table[u]} ELSE {None}
    BY StoreTerms DEF Delete, Store!Effects, Store!Deleted
<1>3. u \in rows <=> ItemsFor(r, u) # {} /\ table[u] # None
    BY DEF Matching, ItemsFor
<1> HIDE DEF rows
<1> QED
    BY <1>1, <1>2, <1>3

-----------------------------------------------------------------------------
(* The refinement: the steps.                                              *)

\* Requests the step leaves alone have the fate and the finds they had.
LEMMA OthersAlike ==
    ASSUME NEW s \in Request, phase'[s] = phase[s], stage'[s] = stage[s],
           chosen'[s] = chosen[s], job'[s] = job[s]
    PROVE  Fate(s)' = Fate(s) /\ FoundTaken(s)' = FoundTaken(s)
BY DEF Fate, FoundTaken, Parsed, Items

\* A request comes to its end in the store when it has the fate and no finds.
LEMMA EndsShape ==
    ASSUME NEW r \in Request, NEW end, job' = job,
           Fate(r)' = end, FoundTaken(r)' = {},
           \A s \in Request \ {r} : Fate(s)' = Fate(s) /\ FoundTaken(s)' = FoundTaken(s)
    PROVE  Store!Ends(r, end)
BY DEF Store!Ends

\* A look at what is taken changes the finds of one request.
LEMMA SkipShape ==
    ASSUME NEW r \in Request, UNCHANGED <<job, table>>,
           job[r] # None, job[r].mode = "insert", Fate(r) = "open", Fate(r)' = Fate(r),
           FoundTaken(r)' = {i \in Store!Complete(r) : Store!Taken(job[r].items[i].title)},
           \A s \in Request \ {r} : Fate(s)' = Fate(s) /\ FoundTaken(s)' = FoundTaken(s)
    PROVE  Store!Skip(r)
<1>1. \A s \in Request : Fate(s)' = Fate(s)
    OBVIOUS
<1>2. UNCHANGED [s \in Request |-> Fate(s)]
    BY <1>1
<1> DEFINE finds == {i \in Store!Complete(r) : Store!Taken(job[r].items[i].title)}
<1>3. FoundTaken(r)' = finds
    OBVIOUS
<1> HIDE DEF finds
<1>4. [s \in Request |-> FoundTaken(s)]' =
          [[s \in Request |-> FoundTaken(s)] EXCEPT ![r] = finds]
    BY <1>3
<1> QED
    BY <1>2, <1>4 DEF Store!Skip, finds

\* The steps of the service: an arrival is a Submit, the rest is nothing.
LEMMA ServiceSubmits ==
    ASSUME IInv, OrderInv, NEW r \in Request, ServiceStep(r),
           UNCHANGED <<stage, chosen, touched>>
    PROVE  Store!Submit(r) \/ UNCHANGED Store!storeVars
<1> USE DEF IInv, TypeOK, StageTypeOK, OrderInv
<1>1. /\ table' = table
      /\ \A s \in Request : phase[s] # "idle" => job'[s] = job[s]
      /\ \A s \in Request :
            phase'[s] # phase[s] => /\ phase[s] \in {"idle", "queued"}
                                    /\ phase'[s] \in {"queued", "gone"}
    BY ServiceFrame
<1>2. \A s \in Request : Fate(s)' = Fate(s)
    BY <1>1 DEF Fate
<1>3. \A s \in Request : FoundTaken(s)' = FoundTaken(s)
    <2> SUFFICES ASSUME NEW s \in Request, stage[s] = "change"
                 PROVE  FoundTaken(s)' = FoundTaken(s)
        BY DEF FoundTaken
    <2>1. job'[s] = job[s]
        BY <1>1 DEF StagesInOrder
    <2> QED
        BY <2>1 DEF FoundTaken, Parsed, Items
<1>4. ASSUME NEW j \in Job, Receive(r, j) PROVE Store!Submit(r)
    <2>1. job[r] = None /\ job' = [job EXCEPT ![r] = j]
        BY <1>4 DEF Receive, NothingBeforeArrival
    <2> QED
        BY <1>1, <1>2, <1>3, <2>1 DEF Store!Submit
<1>5. CASE job' = job
    BY <1>1, <1>2, <1>3, <1>5 DEF Store!storeVars
<1> QED
    BY <1>4, <1>5 DEF ServiceStep, AcquireTimeout, LoseConnection, Respond, CudTimeout

\* To begin and to parse is nothing to the store.
LEMMA ParseStutters ==
    ASSUME IInv, OrderInv, NEW r \in Request, Begin(r) \/ Parse(r)
    PROVE  UNCHANGED Store!storeVars
<1> USE DEF IInv, TypeOK, StageTypeOK, ServiceTypeOK, OrderInv
<1>1. UNCHANGED <<job, table, chosen>>
    BY DEF Begin, Acquire, Parse
<1>2. /\ \A s \in Request \ {r} : phase'[s] = phase[s] /\ stage'[s] = stage[s]
      /\ phase[r] \in {"queued", "running"} /\ phase'[r] = "running"
      /\ stage[r] \in {"none", "parse"} /\ stage'[r] \in {"parse", "probe", "change"}
      /\ stage'[r] = "change" => job[r].mode # "insert"
    BY DEF Begin, Acquire, Parse, Stage, StagesInOrder
<1>3. \A s \in Request \ {r} : Fate(s)' = Fate(s) /\ FoundTaken(s)' = FoundTaken(s)
    BY <1>1, <1>2, OthersAlike
<1>4. Fate(r)' = Fate(r) /\ FoundTaken(r)' = FoundTaken(r)
    BY <1>1, <1>2 DEF Fate, FoundTaken
<1> QED
    BY <1>1, <1>3, <1>4 DEF Store!storeVars

\* The probe is the look at what is taken.
LEMMA ProbeSkips ==
    ASSUME IInv, NEW r \in Request, Probe(r)
    PROVE  Store!Skip(r)
<1> USE DEF IInv, TypeOK, StageTypeOK, ServiceTypeOK
<1> DEFINE C == {i \in Parsed(r) : Matching(table, TitleOf(r, i)) = {}}
<1>1. /\ phase[r] = "running" /\ stage[r] = "probe"
      /\ stage' = [stage EXCEPT ![r] = "change"]
      /\ chosen' = [chosen EXCEPT ![r] = C]
      /\ UNCHANGED <<job, phase, table>>
    BY DEF Probe, Stage
<1>2. job[r].mode = "insert" /\ job[r] # None /\ Fate(r) = "open"
    BY <1>1, JobAssumption DEF ProbeInOrder, JobsInOrder, Fate
<1>3. /\ \A s \in Request \ {r} : stage'[s] = stage[s] /\ chosen'[s] = chosen[s]
      /\ stage'[r] = "change" /\ chosen'[r] = C
    BY <1>1
<1>4. \A s \in Request \ {r} : Fate(s)' = Fate(s) /\ FoundTaken(s)' = FoundTaken(s)
    BY <1>1, <1>3, OthersAlike
<1>5. Fate(r)' = Fate(r)
    BY <1>1, <1>3 DEF Fate
<1>6. FoundTaken(r)' = {i \in Store!Complete(r) : Store!Taken(job[r].items[i].title)}
    <2>1. FoundTaken(r)' = Parsed(r) \ C
        BY <1>1, <1>2, <1>3 DEF FoundTaken, Parsed, Items
    <2>2. Store!Complete(r) = Parsed(r)
        BY DEF Store!Complete, Parsed, Items
    <2>3. \A i \in Parsed(r) : TitleOf(r, i) \in Title
        BY <1>1, ParsedItem
    <2>4. \A i \in Parsed(r) :
              Store!Taken(job[r].items[i].title) <=> Matching(table, TitleOf(r, i)) # {}
        BY <2>3, StoreTerms DEF TitleOf
    <2> QED
        BY <2>1, <2>2, <2>4
<1> HIDE DEF C
<1> QED
    BY <1>1, <1>2, <1>4, <1>5, <1>6, SkipShape

\* A change is the application of the whole batch.
LEMMA ChangeApplies ==
    ASSUME IInv, NEW r \in Request, phase[r] = "running", stage[r] = "change",
           stage' = [stage EXCEPT ![r] = "answer"],
           UNCHANGED <<job, phase>>, \A s \in Request \ {r} : chosen'[s] = chosen[s],
           table' \in [Title -> Content \cup {None}],
           \A u \in Title : table'[u] \in Store!Effects(r, u)
    PROVE  Store!Apply(r)
<1> USE DEF IInv, TypeOK, StageTypeOK, ServiceTypeOK
<1>1. job[r] # None /\ Fate(r) = "open"
    BY JobAssumption DEF JobsInOrder, Fate
<1>2. stage'[r] = "answer" /\ \A s \in Request \ {r} : stage'[s] = stage[s]
    OBVIOUS
<1>3. \A s \in Request \ {r} : Fate(s)' = Fate(s) /\ FoundTaken(s)' = FoundTaken(s)
    BY <1>2, OthersAlike
<1>4. Fate(r)' = "applied" /\ FoundTaken(r)' = {}
    BY <1>2 DEF Fate, FoundTaken
<1>5. Store!Ends(r, "applied")
    BY <1>3, <1>4, EndsShape
<1>6. Store!Content = Content
    BY DEF Store!Content, Content
<1> QED
    BY <1>1, <1>5, <1>6 DEF Store!Apply

\* The answer comes after the batch has taken effect.
LEMMA AnswerStutters ==
    ASSUME IInv, NEW r \in Request, Answer(r)
    PROVE  UNCHANGED Store!storeVars
<1> USE DEF IInv, TypeOK, StageTypeOK, ServiceTypeOK
<1>1. /\ stage[r] = "answer" /\ stage'[r] = "none" /\ phase'[r] = "committed"
      /\ UNCHANGED <<job, table, chosen>>
      /\ \A s \in Request \ {r} : phase'[s] = phase[s] /\ stage'[s] = stage[s]
    BY DEF Answer, Stage, Finish
<1>2. \A s \in Request \ {r} : Fate(s)' = Fate(s) /\ FoundTaken(s)' = FoundTaken(s)
    BY <1>1, OthersAlike
<1>3. Fate(r)' = Fate(r) /\ FoundTaken(r)' = FoundTaken(r)
    BY <1>1 DEF Fate, FoundTaken
<1> QED
    BY <1>1, <1>2, <1>3 DEF Store!storeVars

\* A failure is one, before the change or after it.
LEMMA FailFails ==
    ASSUME IInv, NEW r \in Request, Fail(r)
    PROVE  Store!Fail(r)
<1> USE DEF IInv, TypeOK, StageTypeOK, ServiceTypeOK
<1>1. /\ phase[r] = "running" /\ stage'[r] = "none" /\ phase'[r] = "aborted"
      /\ UNCHANGED <<job, table>>
      /\ \A s \in Request \ {r} :
            phase'[s] = phase[s] /\ stage'[s] = stage[s] /\ chosen'[s] = chosen[s]
    BY DEF Fail, FailStatement, Finish
<1>2. job[r] # None /\ Fate(r) \in {"open", "applied"}
    BY <1>1, JobAssumption DEF JobsInOrder, Fate
<1>3. \A s \in Request \ {r} : Fate(s)' = Fate(s) /\ FoundTaken(s)' = FoundTaken(s)
    BY <1>1, OthersAlike
<1>4. Fate(r)' = "failed" /\ FoundTaken(r)' = {}
    BY <1>1 DEF Fate, FoundTaken
<1>5. Store!Ends(r, "failed")
    BY <1>1, <1>3, <1>4, EndsShape
<1> QED
    BY <1>1, <1>2, <1>5 DEF Store!Fail

\* SQL Server's procedure keeps every promise of StatementStore, for any
\* batches, titles, pool and faults: the probe does not hold what it found,
\* yet what is inserted is missing at the moment it is inserted.
THEOREM StoreIsImplemented == Spec => ImplementsStatementStore
<1>1. Init => Store!Init
    BY DEF Init, ServiceInit, StageInit, Store!Init, Fate, FoundTaken
<1>2. IInv /\ OrderInv /\ [Next]_vars => [Store!Next]_(Store!storeVars)
    <2> SUFFICES ASSUME IInv, OrderInv, [Next]_vars
                 PROVE  Store!Next \/ UNCHANGED Store!storeVars
        OBVIOUS
    <2>1. ASSUME NEW r \in Request, ServiceStep(r), UNCHANGED <<stage, chosen, touched>>
          PROVE  Store!Next \/ UNCHANGED Store!storeVars
        BY <2>1, ServiceSubmits DEF Store!Next
    <2>2. ASSUME NEW r \in Request, Begin(r) \/ Parse(r) \/ Answer(r)
          PROVE  UNCHANGED Store!storeVars
        BY <2>2, ParseStutters, AnswerStutters
    <2>3. ASSUME NEW r \in Request, Probe(r) \/ Fail(r)
          PROVE  Store!Next
        BY <2>3, ProbeSkips, FailFails DEF Store!Next
    <2>4. ASSUME NEW r \in Request, Insert(r) \/ Update(r) \/ Delete(r)
          PROVE  Store!Next
        <3>1. /\ phase[r] = "running" /\ stage[r] = "change"
              /\ stage' = [stage EXCEPT ![r] = "answer"]
              /\ UNCHANGED <<job, phase>>
              /\ \A s \in Request \ {r} : chosen'[s] = chosen[s]
            BY <2>4 DEF Insert, Update, Delete, Stage, IInv, TypeOK
        <3>2. table' \in [Title -> Content \cup {None}]
            <4>1. table \in [Title -> Content \cup {None}]
                BY DEF IInv, TypeOK, StageTypeOK, ServiceTypeOK
            <4>2. CASE Delete(r)
                <5> DEFINE rows == UNION {Matching(table, TitleOf(r, i)) : i \in Parsed(r)}
                <5>1. table' = [t \in Title |-> IF t \in rows THEN None ELSE table[t]]
                    BY <4>2 DEF Delete
                <5> HIDE DEF rows
                <5> QED
                    BY <4>1, <5>1
            <4> QED
                BY <2>4, <4>2, InsertShape, UpdateShape
        <3>3. \A u \in Title : table'[u] \in Store!Effects(r, u)
            BY <2>4, InsertHasEffect, UpdateHasEffect, DeleteHasEffect
        <3> QED
            BY <3>1, <3>2, <3>3, ChangeApplies DEF Store!Next
    <2>5. CASE UNCHANGED vars
        BY <2>5 DEF vars, Store!storeVars, Fate, FoundTaken, Parsed, Items
    <2> QED
        BY <2>1, <2>2, <2>3, <2>4, <2>5
        DEF Next, RequestStep, FailParse, FailInsert, FailUpdate, DeadlockVictim, FailOnLoss,
           Terminated
<1> QED
    BY <1>1, <1>2, OrderInvariance, PTL DEF Spec, ImplementsStatementStore, Store!Spec

=============================================================================
