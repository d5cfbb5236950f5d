------------------------------ MODULE FeedBatch ------------------------------
(***************************************************************************)
(* The data a create/update/delete request carries and the two pure ends   *)
(* of its handler: what process_cud checks before the database is called,  *)
(* and how handle_cud_logic turns the procedure's statuses into an HTTP    *)
(* status.  Nothing here has state.                                        *)
(*                                                                         *)
(* Titles, URLs and dates are opaque values.  image_url stands for both    *)
(* optional URLs: every procedure treats actual_url exactly as image_url.  *)
(***************************************************************************)
EXTENDS Naturals, Sequences, FiniteSets

CONSTANTS
    Title,          \* titles as sent, after trimming
    Fold,           \* Fold[t]: the title t stands for when case is ignored
    FeedUrl, ImageUrl, PublishDate,
    None,           \* an absent JSON field, a NULL column, a missing row
    MaxBatchItems,  \* MAX_BATCH_ITEMS (1000 in the code)
    Job             \* the requests clients may send

Mode == {"insert", "update", "delete"}

\* What is wrong with a request before its items are looked at.
Fault == {"none", "no_json_type", "bad_syntax", "bad_data", "bad_accept",
          "bad_charset"}

\* One CudParams object.
Item == [title : Title \cup {None}, feed_url : FeedUrl \cup {None},
         image_url : ImageUrl \cup {None},
         publish_date : PublishDate \cup {None}]

\* A row of the newsfeed table, apart from its title and its time stamps.
Content == [feed_url : FeedUrl, image_url : ImageUrl \cup {None},
            publish_date : PublishDate]

ASSUME FoldAssumption ==
    /\ Fold \in [Title -> Title]
    /\ \A t \in Title : Fold[Fold[t]] = Fold[t]

ASSUME NoneAssumption ==
    /\ None \notin Title \cup FeedUrl \cup ImageUrl \cup PublishDate
    /\ None \notin Content

ASSUME JobAssumption ==
    /\ MaxBatchItems \in Nat
    /\ Job \subseteq [mode : Mode, fault : Fault, items : Seq(Item)]
    /\ None \notin Job

-----------------------------------------------------------------------------
(* What a request must pass before the database is called.                 *)

\* check_duplicates: titles are compared as sent, case included, and a
\* missing title is not a duplicate of another.
DuplicateTitles(items) ==
    \E i, k \in DOMAIN items :
        /\ i < k
        /\ items[i].title = items[k].title
        /\ items[i].title # None

RequiredFields(mode) ==
    CASE mode = "insert" -> {"title", "feed_url", "publish_date"}
      [] mode = "update" -> {"title", "publish_date"}
      [] mode = "delete" -> {"title"}

MissingField(j) ==
    \E i \in DOMAIN j.items : \E f \in RequiredFields(j.mode) :
        j.items[i][f] = None

\* CudPayload::deserialize: every field is well formed, and the batch is
\* neither empty nor too large.
PayloadValid(j) == j.fault # "bad_data" /\ Len(j.items) \in 1..MaxBatchItems

\* The checks in the order the request meets them: the JSON extractor first,
\* then the headers, the duplicates and the required fields.
Checks(j) ==
    << j.fault # "no_json_type",
       j.fault # "bad_syntax",
       PayloadValid(j),
       j.fault # "bad_accept",
       j.fault # "bad_charset",
       ~DuplicateTitles(j.items),
       ~MissingField(j) >>

CheckStatus == <<415, 400, 422, 400, 415, 422, 422>>

Accepted(j) == \A n \in 1..7 : Checks(j)[n]

\* The HTTP status of a request some check refuses: the first one decides.
Rejection(j) ==
    LET first == CHOOSE n \in 1..7 : /\ ~Checks(j)[n]
                                     /\ \A m \in 1..(n - 1) : Checks(j)[m]
    IN  CheckStatus[first]

-----------------------------------------------------------------------------
(* What the procedures answer, and what the handler makes of it.           *)

\* The message of one result; the procedures pair each with a CudStatus.
Message == {"done", "exists", "not_found"}

CudStatus(m) == IF m = "done" THEN "Success" ELSE "Skipped"

\* parse_status_rows: the statuses of a procedure's answer.  Only which ones
\* occur matters to the handler, and the procedures promise no order.
Statuses(answer) ==
    {CudStatus(m) : m \in UNION {answer[i] : i \in DOMAIN answer}}

\* Mutant of HttpStatus: 201 for every insert, before ADR 0007.
HttpStatusLegacy(mode, statuses) ==
    IF statuses = {"Error"} THEN 400
    ELSE IF mode = "insert" /\ "Error" \notin statuses THEN 201
    ELSE 200

\* handle_cud_logic
HttpStatus(mode, statuses) ==
    LET failed == "Error" \in statuses
        result == statuses \ {"Error"}
    IN  IF failed /\ result = {} THEN 400
        ELSE IF ~failed /\ mode = "insert" /\ "Success" \in result THEN 201
        ELSE 200

\* The columns an item asks the table to hold.
ContentOf(item) ==
    [feed_url |-> item.feed_url, image_url |-> item.image_url,
     publish_date |-> item.publish_date]

=============================================================================
