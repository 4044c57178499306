--------------------------- MODULE OperationsProofs ---------------------------
(***************************************************************************)
(* The safety properties of Operations, for documents of any length and    *)
(* any number of callbacks.                                                *)
(*                                                                         *)
(* SentAsGiven, AbortReported and CompletedOnce speak of the history of a  *)
(* call; IInv adds what the program remembers of it: how much of the       *)
(* document was copied, whether the headers were processed, and a status   *)
(* that is not OK once a callback of the user's has refused.               *)
(***************************************************************************)
EXTENDS Operations, SequenceTheorems, TLAPS

-----------------------------------------------------------------------------
(* The inductive invariant                                                 *)

Statuses ==
  {"OK", "AbortedByCallback", "InternalError", "XmlDocumentTooLarge", "XmlParseFailure",
   "OutOfMemory", "QueryParamsTooLong", "TooManyGrants", "RequestFailed"}

UserCalls == [kind : {"put", "get", "properties", "item", "complete", "response"},
              status : Statuses]

TypeOK ==
  /\ op \in DOMAIN Operations
  /\ context \in BOOLEAN /\ frame \in BOOLEAN /\ answered \in BOOLEAN
  /\ docLen \in Nat /\ written \in 0 .. docLen
  /\ pc \in {"called", "running", "done"}
  /\ data \in {"none", "live", "freed"}
  /\ received \in Seq(Nat)
  /\ status \in Statuses
  /\ calls \in Seq(UserCalls)

\* What is sent is what was copied, byte for byte unless the document may be
\* gone.
Sent ==
  /\ pc = "running" => frame = ~context
  /\ Row.document \in {"data", "frame", "argument"} => Len(received) = written
  /\ SentAsGiven

\* The headers are processed when the properties callback has been made, which
\* is once; before that there are only callbacks for the document.
PropertiesOnce ==
  /\ pc # "done" /\ ~answered => \A i \in DOMAIN calls : IsCall(i, "put")
  /\ \A i, j \in DOMAIN calls : IsCall(i, "properties") /\ IsCall(j, "properties") => i = j

\* A refusal is kept in the status, so that nothing is asked of the user after it.
RefusalKept ==
  pc # "done" =>
    \A i \in DOMAIN calls :
      Refused(i) => /\ status # "OK"
                    /\ status \in ReportedAs(calls[i].kind, calls[i].status)
                    /\ \A j \in DOMAIN calls : i < j =>
                         \A kind \in {"put", "get", "item"} : ~IsCall(j, kind)

\* What can stop a listing.
ListerStatus ==
  Row.complete = "batch" => status \in {"OK", "AbortedByCallback", "XmlParseFailure"}

\* No call is completed before its end.
NotCompleted ==
  /\ pc = "called" => calls = <<>> /\ data = "none"
  /\ pc # "done" => \A i \in DOMAIN calls : ~IsCall(i, "complete")

IInv ==
  /\ TypeOK /\ Sent /\ PropertiesOnce /\ RefusalKept /\ ListerStatus /\ NotCompleted
  /\ AbortReported /\ CompletedOnce

-----------------------------------------------------------------------------
(* The rows                                                                *)

LEMMA OperationNames ==
  op \in DOMAIN Operations <=>
    op \in {"put_object", "get_object", "head_object", "delete_object", "copy_object",
            "list_service", "test_bucket", "create_bucket", "delete_bucket",
            "list_bucket", "list_multipart_uploads", "list_parts", "get_acl", "set_acl",
            "get_lifecycle", "set_lifecycle", "get_server_access_logging",
            "set_server_access_logging", "initiate_multipart", "upload_part",
            "complete_multipart_upload", "abort_multipart_upload"}
BY DEF Operations

\* What the properties need to know of the rows.
LEMMA RowFacts ==
  ASSUME op \in DOMAIN Operations
  PROVE  /\ Row.document \in {"frame", "argument"} => op \in {"set_acl", "set_lifecycle"}
         /\ Row.properties = "dropped" => op = "complete_multipart_upload"
         /\ Row.complete = "batch" => Row.body = "items" /\ Row.document = "none"
         /\ Row.complete = "none" <=> op = "abort_multipart_upload"
         /\ op = "abort_multipart_upload" => Row.refusals = {}
         /\ Row.refusals \subseteq Statuses \ {"OK"}
<1>1. CASE op \in {"put_object", "get_object", "head_object"}
  <2>1. /\ op = "put_object" => Row = S3_put_object
        /\ op = "get_object" => Row = S3_get_object
        /\ op = "head_object" => Row = S3_head_object
    BY DEF Row, Operations
  <2> QED
    BY <1>1, <2>1 DEF Direct, Statuses, S3_put_object, S3_get_object,
       S3_head_object
<1>2. CASE op \in {"delete_object", "upload_part"}
  <2>1. /\ op = "delete_object" => Row = S3_delete_object
        /\ op = "upload_part" => Row = S3_upload_part
    BY DEF Row, Operations
  <2> QED
    BY <1>2, <2>1 DEF Direct, Statuses, S3_delete_object, S3_upload_part
<1>3. CASE op \in {"copy_object", "list_service", "test_bucket"}
  <2>1. /\ op = "copy_object" => Row = S3_copy_object_range
        /\ op = "list_service" => Row = S3_list_service
        /\ op = "test_bucket" => Row = S3_test_bucket
    BY DEF Row, Operations
  <2> QED
    BY <1>3, <2>1 DEF Direct, Wrapped, Statuses, S3_copy_object_range,
       S3_list_service, S3_test_bucket
<1>4. CASE op \in {"create_bucket", "delete_bucket"}
  <2>1. /\ op = "create_bucket" => Row = S3_create_bucket
        /\ op = "delete_bucket" => Row = S3_delete_bucket
    BY DEF Row, Operations
  <2> QED
    BY <1>4, <2>1 DEF Direct, Wrapped, Statuses, S3_create_bucket,
       S3_delete_bucket
<1>5. CASE op \in {"list_bucket", "list_multipart_uploads", "list_parts"}
  <2>1. Row = Lister
    BY <1>5 DEF Row, Operations, S3_list_bucket, S3_list_multipart_uploads, S3_list_parts
  <2> QED
    BY <1>5, <2>1 DEF Direct, Wrapped, Lister, Statuses
<1>6. CASE op \in {"get_acl", "get_lifecycle"}
  <2>1. /\ op = "get_acl" => Row = S3_get_acl
        /\ op = "get_lifecycle" => Row = S3_get_lifecycle
    BY DEF Row, Operations
  <2> QED
    BY <1>6, <2>1 DEF Direct, Wrapped, Statuses, S3_get_acl, S3_get_lifecycle
<1>7. CASE op = "get_server_access_logging"
  <2>1. Row = S3_get_server_access_logging
    BY <1>7 DEF Row, Operations
  <2> QED
    BY <1>7, <2>1 DEF Direct, Wrapped, Statuses, S3_get_server_access_logging
<1>8. CASE op = "set_server_access_logging"
  <2>1. Row = S3_set_server_access_logging
    BY <1>8 DEF Row, Operations
  <2> QED
    BY <1>8, <2>1 DEF Direct, Wrapped, Statuses, S3_set_server_access_logging
<1>9. CASE op = "set_acl"
  <2>1. Row = S3_set_acl
    BY <1>9 DEF Row, Operations
  <2> QED
    BY <1>9, <2>1 DEF Direct, Wrapped, Statuses, S3_set_acl
<1>10. CASE op = "set_lifecycle"
  <2>1. Row = S3_set_lifecycle
    BY <1>10 DEF Row, Operations
  <2> QED
    BY <1>10, <2>1 DEF Direct, Wrapped, Statuses, S3_set_lifecycle
<1>11. CASE op = "initiate_multipart"
  <2>1. Row = S3_initiate_multipart
    BY <1>11 DEF Row, Operations
  <2> QED
    BY <1>11, <2>1 DEF Direct, Statuses, S3_initiate_multipart
<1>12. CASE op = "complete_multipart_upload"
  <2>1. Row = S3_complete_multipart_upload
    BY <1>12 DEF Row, Operations
  <2> QED
    BY <1>12, <2>1 DEF Direct, Statuses, S3_complete_multipart_upload
<1>13. CASE op = "abort_multipart_upload"
  <2>1. Row = S3_abort_multipart_upload
    BY <1>13 DEF Row, Operations
  <2> QED
    BY <1>13, <2>1 DEF Direct, Statuses, S3_abort_multipart_upload
<1> QED
  BY <1>1, <1>2, <1>3, <1>4, <1>5, <1>6, <1>7, <1>8, <1>9, <1>10, <1>11, <1>12,
     <1>13, OperationNames

-----------------------------------------------------------------------------
(* The history                                                             *)

LEMMA AddCall ==
  ASSUME NEW s \in Seq(UserCalls), NEW x \in UserCalls
  PROVE  /\ Append(s, x) \in Seq(UserCalls)
         /\ Len(s) \in Nat
         /\ DOMAIN s = 1 .. Len(s)
         /\ DOMAIN Append(s, x) = 1 .. Len(s) + 1
         /\ Append(s, x)[Len(s) + 1] = x
         /\ \A i \in 1 .. Len(s) : Append(s, x)[i] = s[i]
BY AppendProperties, LenProperties

LEMMA AddCalls ==
  ASSUME NEW s \in Seq(UserCalls), NEW t \in Seq(UserCalls)
  PROVE  /\ s \o t \in Seq(UserCalls)
         /\ Len(s) \in Nat /\ Len(t) \in Nat
         /\ DOMAIN s = 1 .. Len(s)
         /\ Len(s \o t) = Len(s) + Len(t)
         /\ DOMAIN (s \o t) = 1 .. Len(s) + Len(t)
         /\ \A i \in 1 .. Len(s) : (s \o t)[i] = s[i]
         /\ \A i \in Len(s) + 1 .. Len(s) + Len(t) :
              i - Len(s) \in 1 .. Len(t) /\ (s \o t)[i] = t[i - Len(s)]
BY ConcatProperties, LenProperties

\* Before the end the properties follow from what is remembered.
LEMMA Unfinished ==
  ASSUME pc' # "done", RefusalKept', NotCompleted'
  PROVE  AbortReported' /\ CompletedOnce'
<1>1. AbortReported'
  BY DEF RefusalKept, NotCompleted, AbortReported, IsCall
<1>2. CompletedOnce'
  BY DEF NotCompleted, CompletedOnce, IsCall
<1> QED
  BY <1>1, <1>2

\* A callback while the request runs, whose answer becomes the status.
LEMMA CallInv ==
  ASSUME IInv, pc = "running", pc' = "running", op' = op, data' = data,
         NEW kind \in {"put", "get", "properties", "item"}, NEW answer \in Answers,
         UserCall(kind, answer),
         kind = "properties" => ~answered /\ answered' = TRUE,
         kind \in {"get", "item"} => answered,
         kind # "properties" => status = "OK" /\ answered' = answered,
         answer # "OK" => \/ status' # "OK" /\ status' \in ReportedAs(kind, answer)
                          \/ kind = "properties" /\ op = "complete_multipart_upload"
  PROVE  /\ calls' \in Seq(UserCalls)
         /\ PropertiesOnce' /\ RefusalKept' /\ NotCompleted'
         /\ AbortReported' /\ CompletedOnce'
<1> DEFINE n == Len(calls)
           new == [kind |-> kind, status |-> answer]
<1>1. new \in UserCalls /\ new.kind = kind /\ new.status = answer
  BY DEF UserCalls, Statuses, Answers
<1>2. calls \in Seq(UserCalls) /\ calls' = Append(calls, new)
  BY DEF IInv, TypeOK, UserCall
<1> HIDE DEF new
<1>3. /\ calls' \in Seq(UserCalls) /\ n \in Nat /\ DOMAIN calls = 1 .. n
      /\ DOMAIN calls' = 1 .. n + 1 /\ calls'[n + 1] = new
      /\ \A i \in 1 .. n : calls'[i] = calls[i]
  BY <1>1, <1>2, AddCall
<1> HIDE DEF n
<1>4. NotCompleted'
  BY <1>1, <1>3 DEF IInv, NotCompleted, IsCall
<1>5. PropertiesOnce'
  <2>1. ~answered => \A i \in 1 .. n : IsCall(i, "put")
    BY <1>3 DEF IInv, PropertiesOnce
  <2>2. ~answered' => \A i \in 1 .. n + 1 : IsCall(i, "put")'
    <3>1. ~answered' => ~answered /\ kind = "put"
      OBVIOUS
    <3> QED
      BY <1>1, <1>3, <2>1, <3>1 DEF IsCall
  <2>3. ASSUME NEW i \in 1 .. n + 1, NEW j \in 1 .. n + 1,
               IsCall(i, "properties")', IsCall(j, "properties")'
        PROVE  i = j
    <3>1. CASE i \in 1 .. n /\ j \in 1 .. n
      <4>1. IsCall(i, "properties") /\ IsCall(j, "properties")
        BY <1>3, <2>3, <3>1 DEF IsCall
      <4> QED
        BY <1>3, <3>1, <4>1 DEF IInv, PropertiesOnce
    <3>2. CASE kind # "properties"
      <4>1. i # n + 1 /\ j # n + 1
        BY <1>1, <1>3, <2>3, <3>2 DEF IsCall
      <4> QED
        BY <1>3, <3>1, <4>1
    <3>3. CASE kind = "properties"
      <4>1. \A k \in 1 .. n : ~(IsCall(k, "properties")')
        BY <1>3, <2>1, <3>3 DEF IsCall
      <4> QED
        BY <1>3, <2>3, <4>1
    <3> QED
      BY <3>2, <3>3
  <2> QED
    BY <1>3, <2>2, <2>3 DEF PropertiesOnce
\* None that was made before is still heard.
<1>6. \A i \in 1 .. n : ~Refused(i)'
  <2> SUFFICES ASSUME NEW i \in 1 .. n, Refused(i)'
               PROVE  FALSE
    OBVIOUS
  <2>1. CASE kind = "properties"
    <3>1. IsCall(i, "put")
      BY <1>3, <2>1 DEF IInv, PropertiesOnce
    <3>2. calls'[i].kind = "put"
      BY <1>3, <3>1 DEF IsCall
    <3>3. calls'[n + 1].kind = "properties"
      BY <1>1, <1>3, <2>1
    <3>4. n + 1 \in DOMAIN calls' /\ i < n + 1
      BY <1>3
    <3> QED
      BY <3>2, <3>3, <3>4 DEF Refused, IsCall
  <2>2. CASE kind # "properties"
    <3>1. \A k \in 1 .. n : k \in DOMAIN calls' /\ calls'[k] = calls[k]
      BY <1>3
    <3>2. Refused(i)
      BY <1>3, <3>1 DEF Refused, IsCall
    <3>3. ~Refused(i)
      BY <1>3, <2>2 DEF IInv, RefusalKept
    <3> QED
      BY <3>2, <3>3
  <2> QED
    BY <2>1, <2>2
<1>7. RefusalKept'
  <2> SUFFICES ASSUME NEW i \in 1 .. n + 1, Refused(i)'
               PROVE  /\ status' # "OK"
                      /\ status' \in ReportedAs(calls'[i].kind, calls'[i].status)
                      /\ \A j \in 1 .. n + 1 : ~(i < j)
    BY <1>3 DEF RefusalKept
  <2>1. i = n + 1
    BY <1>3, <1>6
  <2>2. calls'[i].kind = kind /\ calls'[i].status = answer
    BY <1>1, <1>3, <2>1
  <2>3. answer # "OK" /\ (kind = "properties" => op # "complete_multipart_upload")
    BY <2>2 DEF Refused, IsCall
  <2> QED
    BY <1>3, <2>1, <2>2, <2>3
<1> QED
  BY <1>3, <1>4, <1>5, <1>7, Unfinished

-----------------------------------------------------------------------------
(* The steps                                                               *)

LEMMA InitIInv == Init => IInv
<1> SUFFICES ASSUME Init PROVE IInv
  OBVIOUS
<1>1. docLen \in Nat /\ written \in 0 .. docLen
  BY OperationsAssumption DEF Init
<1>2. received \in Seq(Nat) /\ calls \in Seq(UserCalls) /\ status \in Statuses
  BY DEF Init, Statuses
<1>3. TypeOK
  BY <1>1, <1>2 DEF Init, TypeOK
<1>4. Sent
  BY DEF Init, Sent, SentAsGiven
<1>5. /\ PropertiesOnce /\ RefusalKept /\ ListerStatus /\ NotCompleted
      /\ AbortReported /\ CompletedOnce
  BY DEF Init, PropertiesOnce, RefusalKept, ListerStatus, NotCompleted, AbortReported, CompletedOnce
<1> QED
  BY <1>3, <1>4, <1>5 DEF IInv

\* The only callback is the complete callback.
LEMMA RefuseCallInv == IInv /\ RefuseCall => IInv'
<1> SUFFICES ASSUME IInv, RefuseCall PROVE IInv'
  OBVIOUS
<1>1. PICK why \in Row.refusals : Refuse(why)
  BY DEF RefuseCall
<1> DEFINE new == [kind |-> "complete", status |-> why]
<1>2. /\ why \in Statuses \ {"OK"} /\ op # "abort_multipart_upload" /\ op' = op
  BY <1>1, RowFacts DEF IInv, TypeOK, RefuseCall
<1>3. calls = <<>> /\ data = "none" /\ calls' = Append(calls, new)
  BY <1>1 DEF IInv, NotCompleted, RefuseCall, Refuse, UserCall
<1>4. new \in UserCalls /\ new.kind = "complete" /\ new.status # "OK"
  BY <1>2 DEF UserCalls
<1> HIDE DEF new
<1>5. calls' \in Seq(UserCalls) /\ DOMAIN calls' = {1} /\ calls'[1] = new
  BY <1>3, <1>4, AddCall
<1>6. TypeOK'
  BY <1>1, <1>5 DEF IInv, TypeOK, RefuseCall, Refuse
<1>7. Sent'
  BY <1>1 DEF IInv, Sent, SentAsGiven, RefuseCall, Refuse, Row
<1>8. PropertiesOnce' /\ RefusalKept' /\ ListerStatus' /\ NotCompleted'
  BY <1>1, <1>4, <1>5 DEF IInv, PropertiesOnce, RefusalKept, ListerStatus, NotCompleted,
     Refuse, RefuseCall, IsCall, Row
<1>9. AbortReported'
  BY <1>5 DEF AbortReported
<1>10. CompletedOnce'
  BY <1>1, <1>2, <1>3, <1>4, <1>5 DEF CompletedOnce, Refuse, IsCall
<1> QED
  BY <1>6, <1>7, <1>8, <1>9, <1>10 DEF IInv

LEMMA PerformInv == IInv /\ Perform => IInv'
<1> SUFFICES ASSUME IInv, Perform PROVE IInv'
  OBVIOUS
<1>1. calls' = <<>> /\ pc' = "running"
  BY DEF IInv, NotCompleted, Perform
<1>2. TypeOK'
  BY DEF IInv, TypeOK, Perform
<1>3. Sent'
  BY DEF IInv, TypeOK, Sent, SentAsGiven, Perform, Row
<1>4. PropertiesOnce' /\ RefusalKept' /\ ListerStatus' /\ NotCompleted'
  BY <1>1 DEF IInv, PropertiesOnce, RefusalKept, ListerStatus, NotCompleted, Perform, Row
<1> QED
  BY <1>1, <1>2, <1>3, <1>4, Unfinished DEF IInv

\* Bytes that the document has lost are only those of a document that does not
\* outlast the call.
LEMMA SendDocumentInv == IInv /\ SendDocument => IInv'
<1> SUFFICES ASSUME IInv, SendDocument PROVE IInv'
  OBVIOUS
<1>1. PICK bufferSize \in 1 .. DocLen :
        LET count == ToCopy(bufferSize) IN
          /\ written' = written + count
          /\ \E bytes \in [1 .. count -> 0 .. DocLen + written + count] :
               /\ \A i \in 1 .. count : bytes[i] \in ByteRead(written + i)
               /\ received' = received \o bytes
  BY DEF SendDocument
<1> DEFINE count == ToCopy(bufferSize)
<1>2. count \in 0 .. docLen - written
  BY OperationsAssumption DEF IInv, TypeOK, ToCopy
<1>3. PICK bytes \in [1 .. count -> 0 .. DocLen + written + count] :
        /\ \A i \in 1 .. count : bytes[i] \in ByteRead(written + i)
        /\ received' = received \o bytes
  BY <1>1
<1>4. written' = written + count
  BY <1>1
<1> HIDE DEF count
<1>5. /\ written \in Nat /\ docLen \in Nat /\ written <= docLen /\ count \in Nat
      /\ Len(received) = written /\ received \in Seq(Nat)
      /\ UNCHANGED <<op, context, docLen, pc, frame, data, answered, status, calls>>
      /\ pc = "running" /\ Row.document \in {"data", "frame", "argument"}
  BY <1>2 DEF IInv, TypeOK, Sent, SendDocument, Running
<1>6. bytes \in Seq(Nat) /\ Len(bytes) = count
  BY <1>3, <1>5, OperationsAssumption
<1>7. /\ received' \in Seq(Nat) /\ Len(received') = written'
      /\ DOMAIN received = 1 .. written /\ DOMAIN received' = 1 .. written + count
      /\ \A i \in 1 .. written : received'[i] = received[i]
      /\ \A i \in written + 1 .. written + count :
           i - written \in 1 .. count /\ received'[i] = bytes[i - written]
  <2>1. /\ received' \in Seq(Nat) /\ Len(received') = written + count
        /\ \A i \in 1 .. written + count : received'[i] =
             IF i <= written THEN received[i] ELSE bytes[i - written]
    BY <1>3, <1>5, <1>6, ConcatProperties
  <2>2. DOMAIN received = 1 .. written /\ DOMAIN received' = 1 .. written + count
    BY <1>5, <2>1, LenProperties
  <2> QED
    BY <1>4, <1>5, <2>1, <2>2
<1>8. TypeOK'
  BY <1>2, <1>4, <1>5, <1>7 DEF IInv, TypeOK
<1>9. SentAsGiven'
  <2> SUFFICES ASSUME ~(context /\ op \in {"set_acl", "set_lifecycle"}),
                      NEW i \in 1 .. written + count
               PROVE  received'[i] = i
    BY <1>5, <1>7 DEF SentAsGiven
  <2>1. CASE i <= written
    <3>1. i \in DOMAIN received /\ received'[i] = received[i]
      BY <1>5, <1>7, <2>1
    <3>2. SentAsGiven
      BY DEF IInv, Sent
    <3> QED
      BY <3>1, <3>2 DEF SentAsGiven
  <2>2. CASE i > written
    <3>1. bytes[i - written] \in ByteRead(written + (i - written))
      BY <1>3, <1>5, <1>7, <2>2
    <3>2. written + (i - written) = i
      BY <1>5
    <3>3. ~(Row.document \in {"frame", "argument"} /\ ~frame)
      BY <1>5, RowFacts DEF IInv, TypeOK, Sent
    <3> QED
      BY <1>5, <1>7, <2>2, <3>1, <3>2, <3>3 DEF ByteRead
  <2> QED
    BY <1>5, <2>1, <2>2
<1>10. Sent'
  BY <1>5, <1>7, <1>9 DEF IInv, Sent
<1> QED
  BY <1>5, <1>8, <1>10 DEF IInv, PropertiesOnce, RefusalKept, ListerStatus, NotCompleted,
     AbortReported, CompletedOnce, Refused, IsCall, Row

LEMMA SendUsersInv == IInv /\ SendUsers => IInv'
<1> SUFFICES ASSUME IInv, SendUsers PROVE IInv'
  OBVIOUS
<1>1. PICK answer \in Answers :
        /\ UserCall("put", answer)
        /\ status' = answer
        /\ received' = IF answer = "OK" THEN Append(received, Len(received) + 1)
                       ELSE received
  BY DEF SendUsers
<1>2. /\ UNCHANGED <<op, context, docLen, pc, frame, data, written, answered>>
      /\ pc = "running" /\ status = "OK" /\ Row.document = "user"
  BY DEF SendUsers, Running
<1>3. /\ calls' \in Seq(UserCalls)
      /\ PropertiesOnce' /\ RefusalKept' /\ NotCompleted'
      /\ AbortReported' /\ CompletedOnce'
  BY <1>1, <1>2, CallInv DEF ReportedAs
<1>4. /\ received \in Seq(Nat) /\ Len(received) \in Nat
      /\ DOMAIN received = 1 .. Len(received)
  BY LenProperties DEF IInv, TypeOK
<1>5. received' \in Seq(Nat) /\ SentAsGiven'
  <2>1. CASE answer = "OK"
    <3>1. received' = Append(received, Len(received) + 1)
      BY <1>1, <2>1
    <3>2. /\ received' \in Seq(Nat) /\ DOMAIN received' = 1 .. Len(received) + 1
          /\ received'[Len(received) + 1] = Len(received) + 1
          /\ \A i \in 1 .. Len(received) : received'[i] = received[i]
      BY <1>4, <3>1, AppendProperties, LenProperties
    <3> QED
      BY <1>2, <1>4, <3>2 DEF IInv, Sent, SentAsGiven
  <2>2. CASE answer # "OK"
    BY <1>1, <1>2, <1>4, <2>2 DEF IInv, Sent, SentAsGiven
  <2> QED
    BY <2>1, <2>2
<1>6. TypeOK'
  BY <1>1, <1>2, <1>3, <1>5 DEF IInv, TypeOK, Answers, Statuses
<1>7. Sent'
  BY <1>2, <1>5 DEF IInv, Sent, Row
<1>8. ListerStatus'
  BY <1>1, <1>2 DEF ListerStatus, Answers, Row
<1> QED
  BY <1>3, <1>6, <1>7, <1>8 DEF IInv

LEMMA PropertiesInv == IInv /\ Properties => IInv'
<1> SUFFICES ASSUME IInv, Properties PROVE IInv'
  OBVIOUS
<1>1. PICK answer \in Answers :
        /\ UserCall("properties", answer)
        /\ status' = IF Row.properties = "dropped" THEN "OK" ELSE answer
  BY DEF Properties
<1>2. /\ UNCHANGED <<op, context, docLen, pc, frame, data, written, received>>
      /\ pc = "running" /\ ~answered /\ answered' = TRUE
  BY DEF Properties
<1>3. answer # "OK" => \/ status' # "OK" /\ status' \in ReportedAs("properties", answer)
                       \/ op = "complete_multipart_upload"
  BY <1>1, RowFacts DEF IInv, TypeOK, ReportedAs
<1>4. /\ calls' \in Seq(UserCalls)
      /\ PropertiesOnce' /\ RefusalKept' /\ NotCompleted'
      /\ AbortReported' /\ CompletedOnce'
  BY <1>1, <1>2, <1>3, CallInv
<1>5. TypeOK'
  BY <1>1, <1>2, <1>4 DEF IInv, TypeOK, Answers, Statuses
<1>6. Sent'
  BY <1>2 DEF IInv, Sent, SentAsGiven, Row
<1>7. ListerStatus'
  BY <1>1, <1>2 DEF ListerStatus, Answers, Row
<1> QED
  BY <1>4, <1>5, <1>6, <1>7 DEF IInv

LEMMA ReceiveInv == IInv /\ Receive => IInv'
<1> SUFFICES ASSUME IInv, Receive PROVE IInv'
  OBVIOUS
<1>1. /\ UNCHANGED <<op, context, docLen, pc, frame, data, written, received, answered>>
      /\ pc = "running" /\ status = "OK" /\ answered
  BY DEF Receive, Running
<1>2. /\ status' \in Statuses /\ calls' \in Seq(UserCalls)
      /\ PropertiesOnce' /\ RefusalKept' /\ ListerStatus' /\ NotCompleted'
      /\ AbortReported' /\ CompletedOnce'
  <2>1. CASE ReceiveUnexpected \/ ReceiveKept
    <3>1. UNCHANGED calls /\ status' # "OK" /\ status' \in Statuses
      BY <2>1 DEF ReceiveUnexpected, ReceiveKept, Statuses
    <3>2. PropertiesOnce' /\ NotCompleted'
      BY <1>1, <3>1 DEF IInv, PropertiesOnce, NotCompleted, IsCall
    <3>3. RefusalKept'
      <4>1. \A i \in DOMAIN calls : ~Refused(i)
        BY <1>1 DEF IInv, RefusalKept
      <4>2. \A i \in DOMAIN calls : ~Refused(i)'
        BY <1>1, <3>1, <4>1 DEF Refused, IsCall
      <4> QED
        BY <3>1, <4>2 DEF RefusalKept
    <3>4. ListerStatus'
      <4>1. Row.complete = "batch" => Row.body = "items"
        BY RowFacts DEF IInv, TypeOK
      <4> QED
        BY <1>1, <2>1, <4>1 DEF ListerStatus, ReceiveUnexpected, ReceiveKept, Row
    <3> QED
      BY <1>1, <3>1, <3>2, <3>3, <3>4, Unfinished DEF IInv, TypeOK
  <2>2. CASE ReceiveItem
    <3>1. PICK answer \in Answers :
            UserCall("item", answer) /\ status' \in {answer, "XmlParseFailure"}
      BY <2>2 DEF ReceiveItem
    <3>2. status' \in Statuses /\ status' \in {"OK", "AbortedByCallback", "XmlParseFailure"}
      BY <3>1 DEF Answers, Statuses
    <3>3. answer # "OK" => status' # "OK" /\ status' \in ReportedAs("item", answer)
      BY <3>1 DEF ReportedAs
    <3>4. ListerStatus'
      BY <3>2 DEF ListerStatus
    <3> QED
      BY <1>1, <3>1, <3>2, <3>3, <3>4, CallInv
  <2>3. CASE ReceiveUsers
    <3>1. PICK answer \in Answers : UserCall("get", answer) /\ status' = answer
      BY <2>3 DEF ReceiveUsers
    <3>2. status' \in Statuses /\ status' \in {"OK", "AbortedByCallback"}
      BY <3>1 DEF Answers, Statuses
    <3>3. answer # "OK" => status' # "OK" /\ status' \in ReportedAs("get", answer)
      BY <3>1 DEF ReportedAs
    <3>4. ListerStatus'
      BY <3>2 DEF ListerStatus
    <3> QED
      BY <1>1, <3>1, <3>2, <3>3, <3>4, CallInv
  <2> QED
    BY <2>1, <2>2, <2>3 DEF Receive
<1>3. TypeOK'
  BY <1>1, <1>2 DEF IInv, TypeOK
<1>4. Sent'
  BY <1>1 DEF IInv, Sent, SentAsGiven, Row
<1> QED
  BY <1>2, <1>3, <1>4 DEF IInv

\* A complete callback makes the user's complete callback unless the upload is
\* aborted; a response callback may follow it, a batch be handed over before it.
LEMMA CompletionShape ==
  ASSUME NEW reported \in Statuses, NEW made \in Completion(reported)
  PROVE  /\ made \in Seq(UserCalls)
         /\ \A k \in 1 .. Len(made) :
              /\ made[k].kind \in {"item", "complete", "response"}
              /\ made[k].kind = "complete" => made[k].status = reported
              /\ made[k].kind = "item" =>
                   Row.complete = "batch" /\ k = 1 /\ Len(made) = 2
         /\ \A k, l \in 1 .. Len(made) : k < l =>
              /\ k = 1 /\ l = 2 /\ Len(made) = 2
              /\ made[1].kind = "complete" =>
                   made[2].kind = "response" /\ Row.complete # "batch"
              /\ made[1].kind = "complete" \/ Row.complete = "batch"
         /\ \A k \in 1 .. Len(made) :
              made[k].kind = "item" => made[k].status \in Answers
         /\ \A k, l \in 1 .. Len(made) :
              made[k].kind = "complete" /\ made[l].kind = "complete" => k = l
         /\ (\A k \in 1 .. Len(made) : made[k].kind # "complete") <=> Row.complete = "none"
<1> DEFINE last == [kind |-> "complete", status |-> reported]
           response == [kind |-> "response", status |-> "OK"]
           batch(answer) == [kind |-> "item", status |-> answer]
<1>1. last \in UserCalls /\ last.kind = "complete" /\ last.status = reported
  BY DEF UserCalls
<1>2. response \in UserCalls /\ response.kind = "response"
  BY DEF UserCalls, Statuses
<1>3. \A answer \in Answers :
        batch(answer) \in UserCalls /\ batch(answer).kind = "item"
          /\ batch(answer).status = answer
  BY DEF UserCalls, Statuses, Answers
<1>4. \/ Row.complete = "none" /\ made = <<>>
      \/ Row.complete # "none" /\ made = <<last>>
      \/ Row.complete = "response" /\ made = <<last, response>>
      \/ Row.complete = "batch" /\ \E answer \in Answers : made = <<batch(answer), last>>
  BY DEF Completion
<1> HIDE DEF last, response, batch
<1>5. CASE Row.complete = "none" /\ made = <<>>
  BY <1>5
<1>6. CASE Row.complete # "none" /\ made = <<last>>
  BY <1>1, <1>6
<1>7. CASE Row.complete = "response" /\ made = <<last, response>>
  BY <1>1, <1>2, <1>7
<1>8. CASE Row.complete = "batch" /\ \E answer \in Answers : made = <<batch(answer), last>>
  <2>1. PICK answer \in Answers : made = <<batch(answer), last>>
    BY <1>8
  <2>2. PICK item : item = batch(answer)
    OBVIOUS
  <2>3. /\ item \in UserCalls /\ item.kind = "item" /\ item.status \in Answers
        /\ made = <<item, last>>
    BY <1>3, <2>1, <2>2
  <2>4. made \in Seq(UserCalls) /\ Len(made) = 2 /\ made[1] = item /\ made[2] = last
    BY <1>1, <2>3
  <2>5. \A k \in 1 .. Len(made) : k = 1 \/ k = 2
    BY <2>4
  <2> QED
    BY <1>1, <1>8, <2>3, <2>4, <2>5
<1> QED
  BY <1>4, <1>5, <1>6, <1>7, <1>8

LEMMA FinishInv == IInv /\ Finish => IInv'
<1> SUFFICES ASSUME IInv, Finish PROVE IInv'
  OBVIOUS
<1>1. PICK final \in FinalStatus :
        \E reported \in {final} \cup
                        IF Row.complete = "convert" /\ final = "OK"
                        THEN {"XmlParseFailure"} ELSE {} :
          \E made \in Completion(reported) : calls' = calls \o made
  BY DEF Finish
<1>2. PICK reported \in {final} \cup
                        IF Row.complete = "convert" /\ final = "OK"
                        THEN {"XmlParseFailure"} ELSE {} :
        \E made \in Completion(reported) : calls' = calls \o made
  BY <1>1
<1>3. PICK made \in Completion(reported) : calls' = calls \o made
  BY <1>2
<1>4. reported \in Statuses /\ (status # "OK" => reported = status)
  BY <1>1, <1>2 DEF IInv, TypeOK, FinalStatus, Statuses
<1>5. /\ pc = "running" /\ pc' = "done" /\ data' # "live"
      /\ UNCHANGED <<op, context, docLen, written, received, answered, status>>
  BY DEF Finish
<1> DEFINE n == Len(calls)
           m == Len(made)
<1>6. /\ calls \in Seq(UserCalls) /\ made \in Seq(UserCalls)
  BY <1>4, CompletionShape DEF IInv, TypeOK
<1>7. /\ calls' \in Seq(UserCalls) /\ n \in Nat /\ m \in Nat
      /\ DOMAIN calls = 1 .. n /\ Len(calls') = n + m /\ DOMAIN calls' = 1 .. n + m
      /\ \A i \in 1 .. n : calls'[i] = calls[i]
      /\ \A i \in n + 1 .. n + m : i - n \in 1 .. m /\ calls'[i] = made[i - n]
  BY <1>3, <1>6, AddCalls
<1>8. /\ \A k \in 1 .. m :
           /\ made[k].kind \in {"item", "complete", "response"}
           /\ made[k].kind = "complete" => made[k].status = reported
           /\ made[k].kind = "item" => Row.complete = "batch" /\ k = 1 /\ m = 2
      /\ \A k, l \in 1 .. m : k < l =>
           /\ k = 1 /\ l = 2 /\ m = 2
           /\ made[1].kind = "complete" =>
                made[2].kind = "response" /\ Row.complete # "batch"
           /\ made[1].kind = "complete" \/ Row.complete = "batch"
      /\ \A k \in 1 .. m : made[k].kind = "item" => made[k].status \in Answers
      /\ \A k, l \in 1 .. m :
           made[k].kind = "complete" /\ made[l].kind = "complete" => k = l
      /\ (\A k \in 1 .. m : made[k].kind # "complete") <=> Row.complete = "none"
  BY <1>4, CompletionShape
<1> HIDE DEF n, m
<1>9. \A i \in 1 .. n : ~IsCall(i, "complete")
  BY <1>5, <1>7 DEF IInv, NotCompleted
<1>10. TypeOK'
  BY <1>5, <1>7 DEF IInv, TypeOK, Finish
<1>11. Sent'
  BY <1>5 DEF IInv, Sent, SentAsGiven, Row
<1>12. PropertiesOnce'
  <2>1. \A i \in DOMAIN calls' : IsCall(i, "properties")' =>
          i \in 1 .. n /\ IsCall(i, "properties")
    <3> SUFFICES ASSUME NEW i \in DOMAIN calls', IsCall(i, "properties")'
                 PROVE  i \in 1 .. n /\ IsCall(i, "properties")
      OBVIOUS
    <3>1. i \in n + 1 .. n + m => FALSE
      BY <1>7, <1>8 DEF IsCall
    <3>2. i \in 1 .. n
      BY <1>7, <3>1
    <3> QED
      BY <1>7, <3>2 DEF IsCall
  <2> QED
    BY <1>5, <1>7, <2>1 DEF IInv, PropertiesOnce
<1>13. RefusalKept' /\ ListerStatus' /\ NotCompleted'
  BY <1>5 DEF IInv, RefusalKept, ListerStatus, NotCompleted, Row
<1>14. AbortReported'
  <2> SUFFICES ASSUME NEW i \in 1 .. n + m, NEW j \in 1 .. n + m, i < j, Refused(i)'
               PROVE  /\ calls'[j].kind # "put" /\ calls'[j].kind # "get"
                      /\ calls'[j].kind = "item" => Row.complete = "batch" /\ j = n + m - 1
                      /\ calls'[j].kind = "complete" =>
                           calls'[j].status \in ReportedAs(calls'[i].kind, calls'[i].status)
    BY <1>5, <1>7 DEF AbortReported, IsCall, Row
  <2>1. CASE i \in 1 .. n
    <3>1. \A k \in 1 .. n : k \in DOMAIN calls' /\ calls'[k] = calls[k]
      BY <1>7
    <3>2. Refused(i)
      BY <1>5, <1>7, <2>1, <3>1 DEF Refused, IsCall
    <3>3. /\ status # "OK" /\ status \in ReportedAs(calls[i].kind, calls[i].status)
          /\ \A k \in 1 .. n : i < k => \A kind \in {"put", "get", "item"} : ~IsCall(k, kind)
      BY <1>5, <1>7, <2>1, <3>2 DEF IInv, RefusalKept
    <3>4. CASE j \in 1 .. n
      BY <1>7, <1>9, <3>3, <3>4 DEF IsCall
    <3>5. CASE j \in n + 1 .. n + m
      <4>1. j - n \in 1 .. m /\ calls'[j] = made[j - n] /\ calls'[i] = calls[i]
        BY <1>7, <2>1, <3>5
      <4>2. calls'[j].kind \in {"item", "complete", "response"}
        BY <1>8, <4>1
      <4>3. calls'[j].kind = "complete" => calls'[j].status = status
        BY <1>4, <1>8, <3>3, <4>1
      <4>4. calls'[j].kind = "item" => Row.complete = "batch" /\ j = n + m - 1
        BY <1>7, <1>8, <4>1
      <4> QED
        BY <3>3, <4>1, <4>2, <4>3, <4>4
    <3> QED
      BY <1>7, <3>4, <3>5
  <2>2. CASE i \in n + 1 .. n + m
    <3>1. /\ i - n \in 1 .. m /\ j - n \in 1 .. m /\ i - n < j - n
          /\ calls'[i] = made[i - n] /\ calls'[j] = made[j - n]
      BY <1>7, <2>2
    <3>2. j - n = 2 /\ m = 2 /\ i - n = 1
      BY <1>8, <3>1
    <3>3. calls'[i].kind = "item"
      BY <1>8, <3>1 DEF Refused
    <3>4. Row.complete = "batch" /\ i = n + m - 1
      BY <1>7, <1>8, <3>1, <3>2, <3>3
    <3>5. status # "OK"
      BY <1>5, <1>7, <3>4 DEF Refused, Row
    <3>6. calls'[i].status = "AbortedByCallback"
      BY <1>8, <3>1, <3>3 DEF Refused, Answers
    <3>7. status \in ReportedAs(calls'[i].kind, calls'[i].status)
      BY <3>3, <3>4, <3>5, <3>6 DEF IInv, ListerStatus, ReportedAs
    <3>8. calls'[j].kind \in {"complete", "response"}
      BY <1>8, <3>1, <3>2
    <3> QED
      BY <1>4, <1>8, <3>1, <3>5, <3>7, <3>8
  <2> QED
    BY <1>7, <2>1, <2>2
<1>15. CompletedOnce'
  <2>1. ASSUME NEW i \in DOMAIN calls', IsCall(i, "complete")'
        PROVE  i \in n + 1 .. n + m /\ i - n \in 1 .. m /\ made[i - n].kind = "complete"
    BY <1>7, <1>9, <2>1 DEF IsCall
  <2>2. ASSUME NEW i \in DOMAIN calls', IsCall(i, "complete")',
               NEW j \in DOMAIN calls', j > i
        PROVE  j = i + 1 /\ IsCall(j, "response")'
    <3>1. /\ i - n \in 1 .. m /\ j - n \in 1 .. m /\ i - n < j - n
          /\ calls'[j] = made[j - n] /\ made[i - n].kind = "complete"
      BY <1>7, <2>1, <2>2
    <3>2. i - n = 1 /\ j - n = 2 /\ made[2].kind = "response"
      BY <1>8, <3>1
    <3>3. j = i + 1
      BY <1>7, <3>2
    <3> QED
      BY <3>1, <3>2, <3>3 DEF IsCall
  <2>3. ASSUME NEW i \in DOMAIN calls', IsCall(i, "complete")',
               NEW j \in DOMAIN calls', IsCall(j, "complete")'
        PROVE  i = j
    <3>1. i \in n + 1 .. n + m /\ j \in n + 1 .. n + m /\ i - n = j - n
      BY <1>8, <2>1, <2>3
    <3> QED
      BY <1>7, <3>1
  <2>4. (\A i \in DOMAIN calls' : ~(IsCall(i, "complete")'))
          => op' = "abort_multipart_upload"
    <3>1. ASSUME NEW k \in 1 .. m, made[k].kind = "complete"
          PROVE  n + k \in DOMAIN calls' /\ calls'[n + k].kind = "complete"
      <4>1. n + k \in n + 1 .. n + m /\ n + k - n = k
        BY <1>7
      <4>2. calls'[n + k] = made[k]
        BY <1>7, <4>1
      <4>3. n + k \in 1 .. n + m
        BY <1>7, <4>1
      <4> QED
        BY <1>7, <3>1, <4>2, <4>3
    <3>2. (\A i \in DOMAIN calls' : ~(IsCall(i, "complete")'))
            <=> (\A k \in 1 .. m : made[k].kind # "complete")
      BY <2>1, <3>1 DEF IsCall
    <3> QED
      BY <1>5, <1>8, <3>2, RowFacts DEF IInv, TypeOK
  <2> QED
    BY <1>5, <2>2, <2>3, <2>4 DEF CompletedOnce
<1> QED
  BY <1>10, <1>11, <1>12, <1>13, <1>14, <1>15 DEF IInv

-----------------------------------------------------------------------------
(* The theorems                                                            *)

LEMMA NextInv == IInv /\ [Next]_vars => IInv'
<1>1. IInv /\ UNCHANGED vars => IInv'
  BY DEF vars, IInv, TypeOK, Sent, SentAsGiven, PropertiesOnce, RefusalKept, NotCompleted,
     ListerStatus, AbortReported, CompletedOnce, Refused, IsCall, Row
<1> QED
  BY <1>1, RefuseCallInv, PerformInv, SendDocumentInv, SendUsersInv, PropertiesInv,
     ReceiveInv, FinishInv DEF Next

\* What an operation remembers of a call agrees with the callbacks it has made and
\* with the bytes it has sent, for every operation, document and number of callbacks.
THEOREM Invariance == Spec => []IInv
BY InitIInv, NextInv, PTL DEF Spec

\* S3 is sent the document the call was for, byte for byte, also by the operations
\* that keep it in their callback data for a request that runs later; S3_set_acl
\* and S3_set_lifecycle with a request context are left out.
THEOREM DocumentSentAsGiven == Spec => []SentAsGiven
<1>1. IInv => SentAsGiven
  BY DEF IInv, Sent
<1> QED
  BY <1>1, Invariance, PTL

\* A callback of the user's that refuses, and is heard, ends the call and gives it
\* its status, through every wrapper the library puts around the callback.  Not
\* heard are those that Refused names.
THEOREM AbortIsReported == Spec => []AbortReported
<1>1. IInv => AbortReported
  BY DEF IInv
<1> QED
  BY <1>1, Invariance, PTL

\* Every call of every operation but S3_abort_multipart_upload is completed once,
\* by a refusal or at the end of its request, and its callback data is freed by
\* then; only a response callback may come after that.
THEOREM CallCompletedOnce == Spec => []CompletedOnce
<1>1. IInv => CompletedOnce
  BY DEF IInv
<1> QED
  BY <1>1, Invariance, PTL
=============================================================================
