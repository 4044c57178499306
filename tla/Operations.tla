----------------------------- MODULE Operations -----------------------------
(***************************************************************************)
(* The operations of libs3: what the S3_... functions of object.c,         *)
(* bucket.c, bucket_metadata.c, service.c, service_access_logging.c and    *)
(* multipart.c put between the user's callbacks and request.c.             *)
(*                                                                         *)
(* Each either refuses its call and completes it itself, or allocates      *)
(* callback data and calls request_perform with callbacks of its own.  An  *)
(* operation is a row that says how it differs from the others; an action  *)
(* is one callback, run as the row says.  With a request context the       *)
(* function has returned when the request runs: its local variables are    *)
(* gone and its arguments may change (libs3.h, Threading Rule 1).          *)
(*                                                                         *)
(* Which callbacks request.c makes, and when, is RequestLifecycle; here    *)
(* they come in any order it allows.  The user gives all callbacks.        *)
(***************************************************************************)
EXTENDS Naturals, Sequences

CONSTANTS
  DocLen,      \* longest document that is sent
  MaxCalls     \* bound: user callbacks made while the request runs

ASSUME OperationsAssumption == DocLen \in Nat \ {0} /\ MaxCalls \in Nat

VARIABLES
  op,          \* the operation
  context,     \* a request context was given
  docLen,      \* length of the document to send
  pc,          \* "called", "running", "done"
  frame,       \* the S3_ function has not returned
  data,        \* its callback data: "none", "live", "freed"
  written,     \* bytes of the document copied so far
  received,    \* what S3 was sent
  answered,    \* the headers of a successful response are processed
  status,      \* Request.status
  calls        \* history: the user's callbacks

vars == <<op, context, docLen, pc, frame, data, written, received, answered,
          status, calls>>

-----------------------------------------------------------------------------
(* The operations *)

\* The user's callbacks are given to request.c as they are.
Direct == [data     |-> FALSE,      \* callback data is allocated
           document |-> "none",     \* where the document that is sent is kept
           body     |-> "none",     \* what is done with the response's body
           properties |-> "passed", \* what is done with that callback's result
           complete |-> "user",     \* what the complete callback does
           refusals |-> {}]         \* statuses reported without a request

\* With callback data of the library's.
Wrapped == [Direct EXCEPT !.data = TRUE, !.refusals = {"OutOfMemory"}]

S3_put_object    == [Direct EXCEPT !.document = "user"]
S3_get_object    == [Direct EXCEPT !.body = "user"]
S3_head_object   == Direct
S3_delete_object == Direct
S3_copy_object_range == [Wrapped EXCEPT !.body = "xml"]

\* Mutant of S3_list_service: the result of the properties callback is lost.
ListServiceDropsProperties ==
  [Wrapped EXCEPT !.body = "items", !.properties = "dropped"]

S3_list_service  == [Wrapped EXCEPT !.body = "items"]
S3_test_bucket   == [Wrapped EXCEPT !.body = "xml"]
S3_create_bucket == [Wrapped EXCEPT !.document = "data", !.body = "ignored"]
S3_delete_bucket == Wrapped

\* A batch may be left for the complete callback.
Lister == [Wrapped EXCEPT !.body = "items", !.complete = "batch",
                          !.refusals = @ \cup {"QueryParamsTooLong"}]
S3_list_bucket            == Lister
S3_list_multipart_uploads == Lister
S3_list_parts             == Lister

\* The document is kept and parsed when the request is complete.
S3_get_acl                   == [Wrapped EXCEPT !.body = "kept", !.complete = "convert"]
S3_get_server_access_logging == [Wrapped EXCEPT !.body = "kept", !.complete = "convert"]

\* aclBuffer is a local variable.
S3_set_acl == [Wrapped EXCEPT !.document = "frame",
                              !.refusals = @ \cup {"TooManyGrants", "XmlDocumentTooLarge"}]

\* Mutant of S3_set_server_access_logging: a local variable as in S3_set_acl.
SetLoggingFromFrame ==
  [Wrapped EXCEPT !.document = "frame",
                  !.refusals = @ \cup {"TooManyGrants", "XmlDocumentTooLarge"}]

\* The document is in the callback data.
S3_set_server_access_logging ==
  [Wrapped EXCEPT !.document = "data",
                  !.refusals = @ \cup {"TooManyGrants", "XmlDocumentTooLarge"}]

S3_get_lifecycle == [Wrapped EXCEPT !.body = "kept"]
\* The document is the caller's.
S3_set_lifecycle == [Wrapped EXCEPT !.document = "argument"]

\* The results of malloc are not tested.
S3_initiate_multipart ==
  [Direct EXCEPT !.data = TRUE, !.body = "xml", !.complete = "response"]
S3_complete_multipart_upload ==
  [Direct EXCEPT !.data = TRUE, !.document = "user", !.body = "xml",
                 !.properties = "dropped", !.complete = "response"]
S3_upload_part == [Direct EXCEPT !.document = "user"]
S3_abort_multipart_upload == [Direct EXCEPT !.complete = "none"]

Operations ==
  [put_object |-> S3_put_object, get_object |-> S3_get_object,
   head_object |-> S3_head_object, delete_object |-> S3_delete_object,
   copy_object |-> S3_copy_object_range, list_service |-> S3_list_service,
   test_bucket |-> S3_test_bucket, create_bucket |-> S3_create_bucket,
   delete_bucket |-> S3_delete_bucket, list_bucket |-> S3_list_bucket,
   list_multipart_uploads |-> S3_list_multipart_uploads,
   list_parts |-> S3_list_parts,
   get_acl |-> S3_get_acl, set_acl |-> S3_set_acl,
   get_lifecycle |-> S3_get_lifecycle, set_lifecycle |-> S3_set_lifecycle,
   get_server_access_logging |-> S3_get_server_access_logging,
   set_server_access_logging |-> S3_set_server_access_logging,
   initiate_multipart |-> S3_initiate_multipart,
   upload_part |-> S3_upload_part,
   complete_multipart_upload |-> S3_complete_multipart_upload,
   abort_multipart_upload |-> S3_abort_multipart_upload]

Row == Operations[op]

-----------------------------------------------------------------------------
Init ==
  /\ op \in DOMAIN Operations
  /\ context \in BOOLEAN
  /\ op = "abort_multipart_upload" => ~context
  /\ docLen \in IF Row.document = "none" THEN {0}
                ELSE IF op \in {"set_acl", "set_server_access_logging"}
                     THEN 1 .. DocLen ELSE 0 .. DocLen
  /\ pc = "called" /\ frame = TRUE /\ data = "none"
  /\ written = 0 /\ received = <<>>
  /\ answered = FALSE /\ status = "OK" /\ calls = <<>>

Answers == {"OK", "AbortedByCallback"}

UserCall(kind, result) == calls' = Append(calls, [kind |-> kind, status |-> result])

-----------------------------------------------------------------------------
(* The call *)

\* Mutant of Refuse: no return after the complete callback.
RefuseGoesOn(why) ==
  /\ UserCall("complete", why)
  /\ pc' = "running" /\ data' = "live"
  /\ UNCHANGED frame

\* The document is generated in memory that was allocated before.
Refuse(why) ==
  /\ UserCall("complete", why)
  /\ pc' = "done" /\ frame' = FALSE
  /\ data' = IF why = "XmlDocumentTooLarge" THEN "freed" ELSE data

RefuseCall ==
  /\ pc = "called"
  /\ \E why \in Row.refusals : Refuse(why)
  /\ UNCHANGED <<op, context, docLen, written, received, answered, status>>

\* request_perform; with a context it only adds the request.
Perform ==
  /\ pc = "called"
  /\ pc' = "running"
  /\ data' = IF Row.data THEN "live" ELSE "none"
  /\ frame' = ~context
  /\ UNCHANGED <<op, context, docLen, written, received, answered, status, calls>>

-----------------------------------------------------------------------------
(* The request runs *)

Running == pc = "running" /\ status = "OK"

\* What byte i of the document is when it is copied: 0 for anything else.
ByteRead(i) ==
  IF Row.document \in {"frame", "argument"} /\ ~frame THEN {i, 0} ELSE {i}

ToCopy(bufferSize) ==
  IF bufferSize > docLen - written THEN docLen - written ELSE bufferSize

\* setXmlDataCallback, setSalDataCallback, createBucketDataCallback.
SendDocument ==
  /\ Running /\ Row.document \in {"data", "frame", "argument"}
  /\ Len(received) < docLen
  /\ \E bufferSize \in 1 .. DocLen :
       LET count == ToCopy(bufferSize) IN
         /\ written' = written + count
         /\ \E bytes \in [1 .. count -> 0 .. DocLen + written + count] :
              /\ \A i \in 1 .. count : bytes[i] \in ByteRead(written + i)
              /\ received' = received \o bytes
  /\ UNCHANGED <<op, context, docLen, pc, frame, data, answered, status, calls>>

\* The user's putObjectDataCallback.
SendUsers ==
  /\ Running /\ Row.document = "user" /\ Len(received) < docLen
  /\ Len(calls) < MaxCalls
  /\ \E answer \in Answers :
       /\ UserCall("put", answer)
       /\ status' = answer
       /\ received' = IF answer = "OK" THEN Append(received, Len(received) + 1)
                      ELSE received
  /\ UNCHANGED <<op, context, docLen, pc, frame, data, written, answered>>

\* request_headers_done; from request_finish whatever the status is.
Properties ==
  /\ pc = "running" /\ ~answered
  /\ answered' = TRUE
  /\ \E answer \in Answers :
       /\ UserCall("properties", answer)
       /\ status' = IF Row.properties = "dropped" THEN "OK" ELSE answer
  /\ UNCHANGED <<op, context, docLen, pc, frame, data, written, received>>

\* A body that is not expected.
ReceiveUnexpected ==
  /\ Row.body = "none"
  /\ status' = "InternalError" /\ UNCHANGED calls

\* Into a buffer or a parser of the library's.
ReceiveKept ==
  /\ Row.body \in {"kept", "xml", "items"}
  /\ status' = IF Row.body = "kept" THEN "XmlDocumentTooLarge" ELSE "XmlParseFailure"
  /\ UNCHANGED calls

\* An item or a batch; a parse error behind it takes the place of the answer.
ReceiveItem ==
  /\ Row.body = "items"
  /\ \E answer \in Answers :
       /\ UserCall("item", answer)
       /\ status' \in {answer, "XmlParseFailure"}

ReceiveUsers ==
  /\ Row.body = "user"
  /\ \E answer \in Answers : UserCall("get", answer) /\ status' = answer

\* Pieces of the body that change nothing here are left out.
Receive ==
  /\ Running /\ answered /\ Len(calls) < MaxCalls
  /\ ReceiveUnexpected \/ ReceiveKept \/ ReceiveItem \/ ReceiveUsers
  /\ UNCHANGED <<op, context, docLen, pc, frame, data, written, received, answered>>

-----------------------------------------------------------------------------
(* The end *)

\* What request_finish, or request_perform if it fails, reports.
FinalStatus ==
  IF status # "OK" THEN {status}
  ELSE {"RequestFailed"} \cup IF answered THEN {"OK"} ELSE {}

\* The user's callbacks that a complete callback makes.
Completion(reported) ==
  CASE Row.complete = "none" -> {<<>>}
    [] Row.complete = "response" ->
         {<<[kind |-> "complete", status |-> reported],
            [kind |-> "response", status |-> "OK"]>>}
    [] Row.complete = "batch" ->
         {<<[kind |-> "complete", status |-> reported]>>}
           \cup {<<[kind |-> "item", status |-> answer],
                   [kind |-> "complete", status |-> reported]>> : answer \in Answers}
    [] OTHER -> {<<[kind |-> "complete", status |-> reported]>>}

Finish ==
  /\ pc = "running"
  /\ \E final \in FinalStatus :
       \E reported \in {final} \cup
                       IF Row.complete = "convert" /\ final = "OK"
                       THEN {"XmlParseFailure"} ELSE {} :
         \E made \in Completion(reported) : calls' = calls \o made
  /\ pc' = "done" /\ frame' = FALSE
  /\ data' = IF Row.data THEN "freed" ELSE "none"
  /\ UNCHANGED <<op, context, docLen, written, received, answered, status>>

Next ==
  \/ RefuseCall \/ Perform
  \/ SendDocument \/ SendUsers \/ Properties \/ Receive
  \/ Finish

Spec == Init /\ [][Next]_vars

-----------------------------------------------------------------------------
(* S3 is sent the document the call was for, byte for byte, also when the  *)
(* request runs after the call; except by the two operations that keep it  *)
(* where it does not outlast the call.                                     *)
SentAsGiven ==
  ~(context /\ op \in {"set_acl", "set_lifecycle"}) =>
    \A i \in DOMAIN received : received[i] = i

IsCall(i, kind) == calls[i].kind = kind

\* What a request that callback i refused to go on with is reported as: the
\* answer, or the parse error behind an item.
ReportedAs(kind, answer) ==
  {answer} \cup IF kind = "item" THEN {"XmlParseFailure"} ELSE {}

\* Callback i refused to go on, and is heard.  Not heard are the properties
\* callback of S3_complete_multipart_upload, an upload callback that the
\* properties callback comes after, and the callback for the batch that a
\* complete callback has left.
Refused(i) ==
  /\ calls[i].status # "OK"
  /\ calls[i].kind \in {"put", "get", "properties", "item"}
  /\ IsCall(i, "properties") => op # "complete_multipart_upload"
  /\ IsCall(i, "put") => \A k \in DOMAIN calls : i < k => ~IsCall(k, "properties")
  /\ pc = "done" /\ Row.complete = "batch" /\ i = Len(calls) - 1 => status # "OK"

(* A callback of the user's that refuses to go on ends the request: it is  *)
(* not asked for data or given data or items again, except for the batch   *)
(* that a complete callback has left, and the status it returned is what   *)
(* is reported.                                                            *)
AbortReported ==
  \A i, j \in DOMAIN calls :
    i < j /\ Refused(i) =>
      /\ ~IsCall(j, "put") /\ ~IsCall(j, "get")
      /\ IsCall(j, "item") =>
           pc = "done" /\ Row.complete = "batch" /\ j = Len(calls) - 1
      /\ IsCall(j, "complete") =>
           calls[j].status \in ReportedAs(calls[i].kind, calls[i].status)

(* The user's complete callback is made at most once, when the request is  *)
(* over, and nothing but the response callback of two multipart operations *)
(* comes after it; it is made by every operation, but possibly the one     *)
(* that aborts an upload.  By then the callback data is freed.             *)
CompletedOnce ==
  LET made == {i \in DOMAIN calls : IsCall(i, "complete")} IN
    /\ \A i \in made :
         pc = "done" /\ \A j \in DOMAIN calls : j > i => IsCall(j, "response")
    /\ \A i, j \in made : i = j
    /\ pc = "done" => /\ made = {} => op = "abort_multipart_upload"
                      /\ data # "live"

-----------------------------------------------------------------------------
(* What libs3.h says, and the code does not do.                            *)

\* "All arguments passed to any function must not be modified directly until
\* the function returns": S3_set_lifecycle reads its own after it returned,
\* S3_set_acl a local variable.
SentWhenever == \A i \in DOMAIN received : received[i] = i

\* S3ResponseCompleteCallback "is always made for every request, as the very
\* last callback made for that request".
CompleteComesLast ==
  pc = "done" => calls # <<>> /\ IsCall(Len(calls), "complete")

\* "anything else to immediately abort the request with a status which will be
\* passed to the S3ResponseCompleteCallback for this request", of the
\* properties callback and those for items.
EveryRefusalReported ==
  \A i, j \in DOMAIN calls :
    /\ calls[i].kind \in {"properties", "item"} /\ calls[i].status # "OK"
    /\ IsCall(j, "complete")
    => calls[j].status \in ReportedAs(calls[i].kind, calls[i].status)
=============================================================================
