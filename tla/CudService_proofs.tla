--------------------------- MODULE CudService_proofs ---------------------------
(***************************************************************************)
(* What the proofs about the three engines have in common: the shape of    *)
(* accepted jobs, what the steps of the service keep, and the counting of  *)
(* requests behind the books on a title.                                   *)
(***************************************************************************)
EXTENDS CudService, FiniteSetTheorems, TLAPS

\* Only accepted jobs of Job wait or run.
JobsInOrder ==
    \A r \in Request :
        /\ phase[r] # "idle" => job[r] \in Job
        /\ phase[r] \in {"queued", "running"} => Accepted(job[r])

-----------------------------------------------------------------------------
(* Jobs and their items.                                                   *)

\* The batch of a job is a sequence of items, numbered from 1.
LEMMA JobShape ==
    ASSUME NEW j \in Job
    PROVE  /\ j.mode \in Mode
           /\ j.items \in Seq(Item)
           /\ DOMAIN j.items = 1..Len(j.items)
           /\ DOMAIN j.items \subseteq Nat
           /\ \A i \in DOMAIN j.items : j.items[i] \in Item
<1>1. j \in [mode : Mode, fault : Fault, items : Seq(Item)]
    BY JobAssumption
<1>2. j.mode \in Mode /\ j.items \in Seq(Item)
    BY <1>1
<1> QED
    BY <1>2

\* The last check an accepted job has passed: no required field is missing.
LEMMA AcceptedHasFields ==
    ASSUME NEW j, Accepted(j)
    PROVE  ~MissingField(j)
<1>1. Checks(j)[7]
    BY DEF Accepted
<1>2. Checks(j)[7] = ~MissingField(j)
    BY DEF Checks
<1> QED
    BY <1>1, <1>2

\* An accepted item names a title, and an accepted insert, or update that
\* brings a feed_url, makes a row the table can hold.
LEMMA AcceptedItem ==
    ASSUME NEW j \in Job, Accepted(j), NEW i \in DOMAIN j.items
    PROVE  /\ j.items[i].title \in Title
           /\ j.mode = "insert" => ContentOf(j.items[i]) \in Content
           /\ j.mode = "update" /\ j.items[i].feed_url # None
                  => ContentOf(j.items[i]) \in Content
<1>1. j.items[i] \in Item /\ j.mode \in Mode
    BY JobShape
<1>2. \A f \in RequiredFields(j.mode) : j.items[i][f] # None
    BY AcceptedHasFields DEF MissingField
<1>3. j.items[i].title # None
    BY <1>1, <1>2 DEF RequiredFields, Mode
<1>4. j.mode \in {"insert", "update"} => j.items[i].publish_date # None
    BY <1>2 DEF RequiredFields
<1>5. j.mode = "insert" => j.items[i].feed_url # None
    BY <1>2 DEF RequiredFields
<1> QED
    BY <1>1, <1>3, <1>4, <1>5 DEF Item, Content, ContentOf

\* The first check a refused job fails decides its status.
LEMMA RejectionStatus ==
    ASSUME NEW j, ~Accepted(j)
    PROVE  Rejection(j) \in {400, 415, 422}
<1> DEFINE C == Checks(j)
           First(n) == /\ ~C[n]
                       /\ \A m \in 1..(n - 1) : C[m]
<1>1. \E n \in 1..7 : ~C[n]
    BY DEF Accepted
<1> HIDE DEF C
<1>2. \E n \in 1..7 : First(n)
    <2>1. CASE ~C[1]
        BY <2>1
    <2>2. CASE C[1] /\ ~C[2]
        BY <2>2
    <2>3. CASE C[1] /\ C[2] /\ ~C[3]
        BY <2>3
    <2>4. CASE C[1] /\ C[2] /\ C[3] /\ ~C[4]
        BY <2>4
    <2>5. CASE C[1] /\ C[2] /\ C[3] /\ C[4] /\ ~C[5]
        BY <2>5
    <2>6. CASE C[1] /\ C[2] /\ C[3] /\ C[4] /\ C[5] /\ ~C[6]
        BY <2>6
    <2>7. CASE C[1] /\ C[2] /\ C[3] /\ C[4] /\ C[5] /\ C[6] /\ ~C[7]
        BY <2>7
    <2> QED
        BY <1>1, <2>1, <2>2, <2>3, <2>4, <2>5, <2>6, <2>7
<1>3. (CHOOSE n \in 1..7 : First(n)) \in 1..7
    BY <1>2
<1>4. \A n \in 1..7 : CheckStatus[n] \in {400, 415, 422}
    BY DEF CheckStatus
<1> QED
    BY <1>3, <1>4 DEF Rejection, C

-----------------------------------------------------------------------------
(* The steps of the service.                                               *)

\* At the start nothing has been asked for.
LEMMA ServiceStart ==
    ASSUME ServiceInit
    PROVE  ServiceTypeOK /\ JobsInOrder
BY InitialTableAssumption DEF ServiceInit, ServiceTypeOK, JobsInOrder, Phase

\* A request runs on with its job, and neither table nor answers change.
LEMMA ServiceFrame ==
    ASSUME ServiceTypeOK, NEW r \in Request, ServiceStep(r)
    PROVE  /\ UNCHANGED <<table, answer>>
           /\ \A s \in Request : phase[s] # "idle" => job'[s] = job[s]
           /\ \A s \in Request :
                 phase'[s] # phase[s] => /\ phase[s] \in {"idle", "queued"}
                                         /\ phase'[s] \in {"queued", "gone"}
BY DEF ServiceTypeOK, ServiceStep, Receive, AcquireTimeout, LoseConnection, Respond,
       CudTimeout

\* The steps of the service keep the types, and only accepted jobs wait.
LEMMA ServiceKeeps ==
    ASSUME ServiceTypeOK, JobsInOrder, NEW r \in Request, ServiceStep(r)
    PROVE  ServiceTypeOK' /\ JobsInOrder'
<1> USE DEF ServiceTypeOK, Phase
<1>1. ASSUME NEW j \in Job, Receive(r, j) PROVE ServiceTypeOK' /\ JobsInOrder'
    <2>1. /\ phase' = [phase EXCEPT ![r] = IF Accepted(j) THEN "queued" ELSE "gone"]
          /\ reply' = [reply EXCEPT ![r] = IF Accepted(j) THEN @ ELSE Rejection(j)]
          /\ job' = [job EXCEPT ![r] = j]
          /\ UNCHANGED <<answer, outcome, table>>
        BY <1>1 DEF Receive
    <2>2. ~Accepted(j) => Rejection(j) \in {400, 415, 422}
        BY RejectionStatus
    <2>3. ServiceTypeOK'
        BY <2>1, <2>2
    <2> QED
        BY <2>1, <2>3 DEF JobsInOrder
<1>2. CASE AcquireTimeout(r)
    BY <1>2 DEF AcquireTimeout, JobsInOrder
<1>3. CASE LoseConnection(r)
    BY <1>3 DEF LoseConnection, JobsInOrder
<1>4. CASE Respond(r)
    <2>1. \A mode, S : HttpStatus(mode, S) \in {200, 201, 400}
        BY DEF HttpStatus
    <2> QED
        BY <1>4, <2>1 DEF Respond, JobsInOrder
<1>5. CASE CudTimeout(r)
    BY <1>5 DEF CudTimeout, JobsInOrder
<1> QED
    BY <1>1, <1>2, <1>3, <1>4, <1>5 DEF ServiceStep

\* Taking a connection keeps them too.
LEMMA AcquireKeeps ==
    ASSUME ServiceTypeOK, JobsInOrder, NEW r \in Request, Acquire(r)
    PROVE  ServiceTypeOK' /\ JobsInOrder'
BY DEF ServiceTypeOK, Phase, JobsInOrder, Acquire

\* And so does the end of a procedure that leaves a table.
LEMMA FinishKeeps ==
    ASSUME ServiceTypeOK, JobsInOrder, NEW r \in Request, phase[r] = "running",
           NEW end \in {"committed", "aborted"}, NEW messages \in Seq(SUBSET Message),
           Finish(r, end, messages), table' \in [Title -> Content \cup {None}]
    PROVE  ServiceTypeOK' /\ JobsInOrder'
<1>1. /\ phase' \in [Request -> Phase]
      /\ answer' \in [Request -> Seq(SUBSET Message)]
      /\ outcome' \in [Request -> {"none", "rows", "error"}]
      /\ UNCHANGED <<job, reply>>
    BY DEF ServiceTypeOK, Finish, Phase
<1>2. \A s \in Request : phase'[s] # phase[s] => s = r /\ phase'[s] = end
    BY DEF ServiceTypeOK, Finish
<1> QED
    BY <1>1, <1>2 DEF ServiceTypeOK, JobsInOrder

-----------------------------------------------------------------------------
(* The life of a request.                                                  *)

\* A request has nothing to do before it arrives.
NothingBeforeArrival == \A r \in Request : phase[r] = "idle" => job[r] = None

\* A reply other than 408 and 500 is the last of its request, and rows are
\* the answer of a procedure that has committed.
RepliesInOrder ==
    \A r \in Request :
        /\ reply[r] \notin {0, 408, 500} => phase[r] \in {"gone", "committed"}
        /\ outcome[r] = "rows" => phase[r] = "committed"

\* What any step of any engine is to the service: its own, the beginning of a
\* procedure, its end, or a statement of it.
ServiceMove ==
    \/ \E r \in Request :
          \/ ServiceStep(r)
          \/ Acquire(r)
          \/ /\ phase[r] = "running"
             /\ \E end \in {"committed", "aborted"}, messages \in Seq(SUBSET Message) :
                    Finish(r, end, messages)
    \/ UNCHANGED <<job, phase, answer, outcome, reply>>

\* The steps of the service keep the order of arrivals and replies.
LEMMA ServiceKeepsOrder ==
    ASSUME ServiceTypeOK, NothingBeforeArrival, RepliesInOrder,
           NEW r \in Request, ServiceStep(r)
    PROVE  NothingBeforeArrival' /\ RepliesInOrder'
<1> USE DEF ServiceTypeOK, NothingBeforeArrival, RepliesInOrder
<1>1. ASSUME NEW j \in Job, Receive(r, j)
      PROVE  NothingBeforeArrival' /\ RepliesInOrder'
    <2>1. /\ phase[r] = "idle"
          /\ phase' = [phase EXCEPT ![r] = IF Accepted(j) THEN "queued" ELSE "gone"]
          /\ reply' = [reply EXCEPT ![r] = IF Accepted(j) THEN @ ELSE Rejection(j)]
          /\ job' = [job EXCEPT ![r] = j]
          /\ UNCHANGED <<answer, outcome, table>>
        BY <1>1 DEF Receive
    <2>2. /\ \A s \in Request \ {r} :
                job'[s] = job[s] /\ phase'[s] = phase[s] /\ reply'[s] = reply[s]
          /\ phase'[r] \in {"queued", "gone"}
          /\ phase'[r] = "queued" => reply'[r] = reply[r]
        BY <2>1
    <2>3. NothingBeforeArrival'
        BY <2>2
    <2>4. RepliesInOrder'
        BY <2>1, <2>2
    <2> QED
        BY <2>3, <2>4
<1>2. CASE AcquireTimeout(r)
    BY <1>2 DEF AcquireTimeout
<1>3. CASE LoseConnection(r)
    BY <1>3 DEF LoseConnection
<1>4. CASE Respond(r)
    BY <1>4 DEF Respond
<1>5. CASE CudTimeout(r)
    BY <1>5 DEF CudTimeout
<1> QED
    BY <1>1, <1>2, <1>3, <1>4, <1>5 DEF ServiceStep

\* And so does every move.
LEMMA MoveKeepsOrder ==
    ASSUME ServiceTypeOK, NothingBeforeArrival, RepliesInOrder, ServiceMove
    PROVE  NothingBeforeArrival' /\ RepliesInOrder'
<1>1. ASSUME NEW r \in Request, Acquire(r)
      PROVE  NothingBeforeArrival' /\ RepliesInOrder'
    BY <1>1 DEF Acquire, ServiceTypeOK, NothingBeforeArrival, RepliesInOrder
<1>2. ASSUME NEW r \in Request, phase[r] = "running",
             NEW end \in {"committed", "aborted"}, NEW messages, Finish(r, end, messages)
      PROVE  NothingBeforeArrival' /\ RepliesInOrder'
    BY <1>2 DEF Finish, ServiceTypeOK, NothingBeforeArrival, RepliesInOrder
<1>3. CASE UNCHANGED <<job, phase, answer, outcome, reply>>
    BY <1>3 DEF NothingBeforeArrival, RepliesInOrder
<1> QED
    BY <1>1, <1>2, <1>3, ServiceKeepsOrder DEF ServiceMove

\* No move brings back a request that is over.
LEMMA OverIsOver ==
    ASSUME ServiceTypeOK, ServiceMove, NEW s \in Request,
           phase[s] \in {"gone", "committed", "aborted"}
    PROVE  phase'[s] = phase[s] /\ answer'[s] = answer[s]
<1>1. ASSUME NEW r \in Request, Acquire(r)
      PROVE  phase'[s] = phase[s] /\ answer'[s] = answer[s]
    BY <1>1 DEF Acquire, ServiceTypeOK
<1>2. ASSUME NEW r \in Request, phase[r] = "running",
             NEW end \in {"committed", "aborted"}, NEW messages, Finish(r, end, messages)
      PROVE  phase'[s] = phase[s] /\ answer'[s] = answer[s]
    BY <1>2 DEF Finish, ServiceTypeOK
<1> QED
    BY <1>1, <1>2, ServiceFrame DEF ServiceMove

-----------------------------------------------------------------------------
(* The books on a title.                                                   *)

\* Requests that inserted a title, less those that deleted it, account for
\* its presence after a step as before, when the step adds one request to one
\* side and the title comes or goes with it.
LEMMA BooksStep ==
    ASSUME IsFiniteSet(Request),
           NEW I \in SUBSET Request, NEW D \in SUBSET Request, NEW J, NEW E,
           NEW start \in Int, NEW p \in Int, NEW q \in Int,
           Cardinality(I) + start = Cardinality(D) + p,
           \/ J = I /\ E = D /\ q = p
           \/ \E r \in Request \ I : J = I \cup {r} /\ E = D /\ q = p + 1
           \/ \E r \in Request \ D : J = I /\ E = D \cup {r} /\ q = p - 1
    PROVE  Cardinality(J) + start = Cardinality(E) + q
<1>1. /\ IsFiniteSet(I) /\ IsFiniteSet(D)
      /\ Cardinality(I) \in Nat /\ Cardinality(D) \in Nat
    BY FS_Subset, FS_CardinalityType
<1>2. CASE J = I /\ E = D /\ q = p
    BY <1>2
<1>3. ASSUME NEW r \in Request \ I, J = I \cup {r}, E = D, q = p + 1
      PROVE  Cardinality(J) + start = Cardinality(E) + q
    <2>1. Cardinality(J) = Cardinality(I) + 1
        BY <1>1, <1>3, FS_AddElement
    <2> QED
        BY <1>1, <1>3, <2>1
<1>4. ASSUME NEW r \in Request \ D, J = I, E = D \cup {r}, q = p - 1
      PROVE  Cardinality(J) + start = Cardinality(E) + q
    <2>1. Cardinality(E) = Cardinality(D) + 1
        BY <1>1, <1>4, FS_AddElement
    <2> QED
        BY <1>1, <1>4, <2>1
<1> QED
    BY <1>2, <1>3, <1>4

=============================================================================
