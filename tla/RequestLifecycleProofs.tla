------------------------ MODULE RequestLifecycleProofs ------------------------
(***************************************************************************)
(* The safety properties of RequestLifecycle, for any size of the upload,  *)
(* any number and size of pieces, any final HTTP codes and any statuses a  *)
(* user's callback may return.                                             *)
(*                                                                         *)
(* CallbacksInOrder, AbortIsFinal and OkIsSuccess speak of the history of  *)
(* the callbacks; IInv adds what a request remembers of it in              *)
(* propertiesCallbackMade, httpResponseCode, aborted and status.  The      *)
(* steps are proved by what they do to calls: nothing, a toS3 call, a call *)
(* of request_headers_done with or without a fromS3 call, the complete     *)
(* call.                                                                   *)
(***************************************************************************)
EXTENDS RequestLifecycle, SequenceTheorems, TLAPS

-----------------------------------------------------------------------------
(* Lemmas on the statuses                                                  *)

\* request_finish changes no status but OK.
LEMMA FinalStatusKeeps ==
  ASSUME NEW s, NEW error, NEW code, s # "OK"
  PROVE  FinalStatus(s, error, code) = s
BY DEF FinalStatus

\* What it takes for request_finish to report OK.
LEMMA FinalStatusOk ==
  ASSUME NEW s, NEW error \in ErrorCodes, NEW code,
         FinalStatus(s, error, code) = "OK"
  PROVE  /\ s = "OK"
         /\ error = "none"
         /\ Success(code) \/ code = 100
<1>1. s = "OK"
  BY FinalStatusKeeps
<1>2. error = "none"
  BY <1>1 DEF FinalStatus, ConvertErrorCode, ErrorCodes, HttpCodeToStatus
<1>3. Success(code) \/ HttpCodeToStatus(code) = "OK"
  BY <1>1, <1>2 DEF FinalStatus, ConvertErrorCode
<1>4. HttpCodeToStatus(code) = "OK" => code = 100
  BY DEF HttpCodeToStatus
<1> QED
  BY <1>1, <1>2, <1>3, <1>4

LEMMA HttpCodes == \A code \in {0, 100, 307} \cup FinalCodes : code \in 0 .. 599
<1>1. \A code \in FinalCodes : code \in 101 .. 599
  BY LifecycleAssumption
<1> QED
  BY <1>1

\* What request_finish reports is a status.
LEMMA FinalStatusType ==
  ASSUME NEW s \in Statuses, NEW error \in ErrorCodes, NEW code \in 0 .. 599
  PROVE  FinalStatus(s, error, code) \in Statuses
<1>1. HttpCodeToStatus(code) \in Statuses
  BY DEF Statuses
<1>2. ConvertErrorCode(error, s) \in Statuses
  BY DEF ConvertErrorCode, ErrorCodes, Statuses
<1> QED
  BY <1>1, <1>2 DEF FinalStatus

\* A transfer that failed, other than by being too short, is no success.
LEMMA CurlFailure ==
  ASSUME NEW s \in Statuses, NEW code \in CurlCodes
  PROVE  /\ RecordCurlResult(s, code) \in Statuses
         /\ s # "OK" => RecordCurlResult(s, code) = s
         /\ code \notin {"OK", "PARTIAL_FILE"} => RecordCurlResult(s, code) # "OK"
<1>1. CurlCodeToStatus(code) \in Statuses
  BY DEF Statuses
<1>2. code \notin {"OK", "PARTIAL_FILE"} => CurlCodeToStatus(code) # "OK"
  BY DEF CurlCodeToStatus
<1> QED
  BY <1>1, <1>2 DEF RecordCurlResult

-----------------------------------------------------------------------------
(* Lemmas on the history                                                   *)

\* A call added at the end leaves the others where they are.
LEMMA AddCall ==
  ASSUME NEW s \in Seq(CallRecords), NEW x \in CallRecords
  PROVE  /\ s \o <<x>> \in Seq(CallRecords)
         /\ Len(s) \in Nat
         /\ DOMAIN s = 1 .. Len(s)
         /\ Len(s \o <<x>>) = Len(s) + 1
         /\ DOMAIN (s \o <<x>>) = 1 .. Len(s) + 1
         /\ (s \o <<x>>)[Len(s) + 1] = x
         /\ \A i \in 1 .. Len(s) : (s \o <<x>>)[i] = s[i]
<1>1. <<x>> \in Seq(CallRecords) /\ Len(<<x>>) = 1 /\ <<x>>[1] = x
  OBVIOUS
<1>2. Len(s) \in Nat /\ DOMAIN s = 1 .. Len(s)
  BY LenProperties
<1>3. /\ s \o <<x>> \in Seq(CallRecords)
      /\ Len(s \o <<x>>) = Len(s) + 1
      /\ \A i \in 1 .. Len(s) + 1 : (s \o <<x>>)[i] =
           IF i <= Len(s) THEN s[i] ELSE <<x>>[i - Len(s)]
  BY <1>1, ConcatProperties
<1>4. DOMAIN (s \o <<x>>) = 1 .. Len(s) + 1
  BY <1>3, LenProperties
<1>5. (s \o <<x>>)[Len(s) + 1] = x
  BY <1>1, <1>2, <1>3
<1>6. \A i \in 1 .. Len(s) : (s \o <<x>>)[i] = s[i]
  BY <1>2, <1>3
<1> QED
  BY <1>2, <1>3, <1>4, <1>5, <1>6

\* A call is made with what its callback returned.
LEMMA CallIsRecord ==
  /\ \A ret \in -1 .. MaxLen : [callback |-> "toS3", result |-> ret] \in CallRecords
  /\ \A callback \in {"properties", "fromS3", "complete"}, s \in Statuses :
       [callback |-> callback, result |-> s] \in CallRecords
BY DEF CallRecords

\* What request_headers_done can do: nothing if the headers were processed
\* before; otherwise the properties callback is made for a success, if there
\* is one, or nothing that keeps a success.
LEMMA HeadersDoneFacts ==
  ASSUME TypeOK, NEW h \in HeadersDone
  PROVE  /\ h.status \in Statuses
         /\ h.code \in {0, 100, 307} \cup FinalCodes
         /\ propertiesCallbackMade =>
              h.status = status /\ h.code = httpResponseCode /\ h.made = <<>>
         /\ h.made = <<>> \/ h.made = Call("properties", h.status)
         /\ h.made = <<>> => h.status \in {status, "InternalError"}
         /\ ~propertiesCallbackMade /\ Success(h.code) /\ "properties" \in registered
              => h.made = Call("properties", h.status)
<1>1. CallbackStatuses \subseteq Statuses /\ "InternalError" \in Statuses
  BY DEF Statuses
<1>2. ~Success(0)
  BY DEF Success
<1>3. CASE propertiesCallbackMade
  BY <1>3 DEF HeadersDone, TypeOK
<1>4. CASE ~propertiesCallbackMade
  <2>1. CASE h = [status |-> "InternalError", code |-> 0, made |-> <<>>]
    <3>1. h.status = "InternalError" /\ h.code = 0 /\ h.made = <<>>
      BY <2>1
    <3> QED
      BY <1>1, <1>2, <1>4, <3>1
  <2>2. CASE "properties" \in registered /\ Success(wireCode)
               /\ \E s \in CallbackStatuses :
                    h = [status |-> s, code |-> wireCode, made |-> Call("properties", s)]
    <3>1. PICK s \in CallbackStatuses :
            h = [status |-> s, code |-> wireCode, made |-> Call("properties", s)]
      BY <2>2
    <3>2. h.status = s /\ h.code = wireCode /\ h.made = Call("properties", s)
      BY <3>1
    <3>3. h.made # <<>>
      BY <3>2 DEF Call
    <3>4. s \in Statuses /\ wireCode \in {0, 100, 307} \cup FinalCodes
      BY <1>1 DEF TypeOK
    <3> QED
      BY <1>4, <3>2, <3>3, <3>4
  <2>3. CASE ~("properties" \in registered /\ Success(wireCode))
               /\ h = [status |-> status, code |-> wireCode, made |-> <<>>]
    BY <1>4, <2>3 DEF TypeOK
  <2> QED
    BY <1>4, <2>1, <2>2, <2>3 DEF HeadersDone
<1> QED
  BY <1>3, <1>4

-----------------------------------------------------------------------------
(* The initial state, and steps that make no callback                      *)

LEMMA InitInv == Init => IInv
<1> SUFFICES ASSUME Init PROVE IInv
  OBVIOUS
<1> USE DEF Init
<1>1. TypeOK
  <2>1. "OK" \in Statuses
    BY DEF Statuses
  <2>2. calls \in Seq(CallRecords)
    BY EmptySeq
  <2>3. toS3CallbackBytesRemaining \in 0 .. UploadSize /\ chunks \in 0 .. MaxChunks
    BY LifecycleAssumption
  <2> QED
    BY <2>1, <2>2, <2>3 DEF TypeOK, ErrorCodes
<1>2. HeadersFirst /\ PropertiesMade /\ AbortStops /\ AbortKept /\ FailureKept
  BY DEF HeadersFirst, PropertiesMade, AbortStops, AbortKept, FailureKept
<1>3. CallbacksInOrder /\ AbortIsFinal /\ OkIsSuccess
  BY DEF CallbacksInOrder, AbortIsFinal, OkIsSuccess
<1> QED
  BY <1>1, <1>2, <1>3 DEF IInv

\* A step that leaves what the invariant relates alone.
LEMMA QuietInv ==
  ASSUME IInv, TypeOK',
         UNCHANGED <<registered, phase, aborted, curlResult, status,
                     headerVars, errorCode, calls>>
  PROVE  IInv'
<1> USE DEF IInv, headerVars
<1>1. HeadersFirst' /\ PropertiesMade' /\ FailureKept'
  BY DEF HeadersFirst, PropertiesMade, FailureKept, IsCall
<1>2. AbortStops' /\ AbortKept' /\ AbortIsFinal' /\ OkIsSuccess'
  BY DEF AbortStops, AbortKept, AbortIsFinal, OkIsSuccess, IsCall, IsAbort, Refusal,
         PropertiesAfter, Transferring
<1>3. CallbacksInOrder'
  BY DEF CallbacksInOrder, IsCall
<1> QED
  BY <1>1, <1>2, <1>3

LEMMA ReceiveInterimInv == IInv /\ ReceiveInterim => IInv'
<1> SUFFICES ASSUME IInv, ReceiveInterim PROVE IInv'
  OBVIOUS
<1>1. TypeOK'
  BY DEF IInv, TypeOK, ReceiveInterim, headerVars, uploadVars
<1> QED
  BY <1>1, QuietInv DEF ReceiveInterim

LEMMA ReceiveFinalInv == IInv /\ ReceiveFinal => IInv'
<1> SUFFICES ASSUME IInv, ReceiveFinal PROVE IInv'
  OBVIOUS
<1>1. TypeOK'
  BY DEF IInv, TypeOK, ReceiveFinal, headerVars, uploadVars
<1> QED
  BY <1>1, QuietInv DEF ReceiveFinal

LEMMA ReadAtEndInv == IInv /\ ReadAtEnd => IInv'
<1> SUFFICES ASSUME IInv, ReadAtEnd PROVE IInv'
  OBVIOUS
<1>1. TypeOK'
  BY DEF IInv, TypeOK, ReadAtEnd, headerVars, wireVars
<1> QED
  BY <1>1, QuietInv DEF ReadAtEnd

LEMMA StutterInv == IInv /\ UNCHANGED vars => IInv'
<1> SUFFICES ASSUME IInv, UNCHANGED vars PROVE IInv'
  OBVIOUS
<1>1. TypeOK'
  BY DEF IInv, TypeOK, vars
<1> QED
  BY <1>1, QuietInv DEF vars, headerVars

\* The transfer ends.  A status some callback caused is kept, or replaced by
\* Interrupted.
LEMMA TransferEndsInv ==
  ASSUME IInv, phase = "transfer", phase' = "ended",
         curlResult' \in CurlCodes \cup {"none", "removed"},
         status' \in Statuses,
         status # "OK" => status' \in {status, "Interrupted"},
         curlResult' \notin {"OK", "PARTIAL_FILE"} => status' # "OK",
         UNCHANGED <<registered, wireVars, chunks, aborted, headerVars,
                     uploadVars, errorCode, calls>>
  PROVE  IInv'
<1> USE DEF IInv, headerVars
<1>1. TypeOK'
  BY DEF TypeOK, wireVars, uploadVars
<1>2. HeadersFirst' /\ PropertiesMade' /\ FailureKept'
  BY DEF HeadersFirst, PropertiesMade, FailureKept, IsCall
<1>3. AbortStops'
  BY DEF AbortStops, IsCall, IsAbort, Transferring
<1>4. AbortKept'
  <2> SUFFICES ASSUME NEW i \in DOMAIN calls, IsAbort(i)
               PROVE  status' \in {Refusal(i), "Interrupted"}
    BY DEF AbortKept, IsCall, IsAbort, Refusal
  <2>1. status \in {Refusal(i), "Interrupted"}
    BY DEF AbortKept
  <2>2. Refusal(i) # "OK"
    BY DEF IsAbort, IsCall, Refusal
  <2> QED
    BY <2>1, <2>2
<1>5. CallbacksInOrder'
  BY DEF CallbacksInOrder, IsCall
<1>6. AbortIsFinal' /\ OkIsSuccess'
  BY DEF AbortIsFinal, OkIsSuccess, IsCall, IsAbort, Refusal, PropertiesAfter
<1> QED
  BY <1>1, <1>2, <1>3, <1>4, <1>5, <1>6

LEMMA CurlEndsInv == IInv /\ CurlEnds => IInv'
<1> SUFFICES ASSUME IInv, CurlEnds PROVE IInv'
  OBVIOUS
<1>1. curlResult' \in CurlCodes
  BY DEF CurlEnds, PossibleResults, CurlCodes
<1>2. status \in Statuses
  BY DEF IInv, TypeOK
<1>3. /\ status' \in Statuses
      /\ status # "OK" => status' = status
      /\ curlResult' \notin {"OK", "PARTIAL_FILE"} => status' # "OK"
  BY <1>1, <1>2, CurlFailure DEF CurlEnds
<1> QED
  BY <1>1, <1>3, TransferEndsInv DEF CurlEnds

LEMMA InterruptInv == IInv /\ Interrupt => IInv'
<1> SUFFICES ASSUME IInv, Interrupt PROVE IInv'
  OBVIOUS
<1>1. "Interrupted" \in Statuses
  BY DEF Statuses
<1> QED
  BY <1>1, TransferEndsInv DEF Interrupt
-----------------------------------------------------------------------------
(* A callback for upload data                                              *)

\* A toS3 call is added; the user's -1 stops the transfer.
LEMMA ReadCallInv ==
  ASSUME IInv, TypeOK', Transferring,
         NEW ret \in -1 .. MaxLen,
         calls' = calls \o Call("toS3", ret),
         ret = -1 => aborted' # "no" /\ status' = "AbortedByCallback",
         UNCHANGED <<registered, phase, headerVars>>
  PROVE  IInv'
<1> DEFINE n == Len(calls)
<1>1. /\ n \in Nat /\ DOMAIN calls = 1 .. n
      /\ DOMAIN calls' = 1 .. n + 1 /\ Len(calls') = n + 1
      /\ calls'[n + 1] = [callback |-> "toS3", result |-> ret]
      /\ \A i \in 1 .. n : calls'[i] = calls[i]
  BY AddCall, CallIsRecord DEF IInv, TypeOK, Call
<1>2. phase = "transfer" /\ phase' = "transfer" /\ aborted = "no"
  BY DEF Transferring
\* No callback has asked to abort so far.
<1>3. \A i \in 1 .. n : ~IsCall(i, "complete") /\ ~IsAbort(i)
  BY <1>1, <1>2 DEF IInv, AbortStops, Transferring, CallbacksInOrder
<1> HIDE DEF n
<1>4. HeadersFirst'
  <2>1. HeadersFirst
    BY DEF IInv
  <2> QED
    BY <1>1, <2>1 DEF HeadersFirst, IsCall, headerVars
<1>5. PropertiesMade'
  <2>1. PropertiesMade
    BY DEF IInv
  <2> QED
    BY <1>1, <2>1 DEF PropertiesMade, IsCall, headerVars
\* This one does if it returned -1.
<1>6. \A i \in 1 .. n + 1 : IsAbort(i)' =>
         /\ i = n + 1 /\ ret = -1 /\ IsCall(i, "toS3")'
  <2> SUFFICES ASSUME NEW i \in 1 .. n + 1, IsAbort(i)'
               PROVE  i = n + 1 /\ ret = -1 /\ IsCall(i, "toS3")'
    OBVIOUS
  <2>1. CASE i \in 1 .. n
    BY <1>1, <1>3, <2>1 DEF IsAbort, IsCall
  <2>2. CASE i = n + 1
    <3>1. IsCall(i, "toS3")'
      BY <1>1, <2>2 DEF IsCall
    <3> QED
      BY <1>1, <2>2, <3>1 DEF IsAbort
  <2> QED
    BY <1>1, <2>1, <2>2
<1>7. AbortStops'
  BY <1>1, <1>6 DEF AbortStops, Transferring
<1>8. AbortKept'
  BY <1>1, <1>6 DEF AbortKept, Refusal
<1>9. FailureKept' /\ OkIsSuccess'
  BY <1>2 DEF FailureKept, OkIsSuccess
<1>10. CallbacksInOrder'
  <2>1. \A i \in DOMAIN calls' : ~IsCall(i, "complete")'
    BY <1>1, <1>3 DEF IsCall
  <2>2. \A i, j \in DOMAIN calls' :
          IsCall(i, "properties")' /\ IsCall(j, "properties")' => i = j
    BY <1>1 DEF IInv, CallbacksInOrder, IsCall
  <2>3. ASSUME NEW i \in DOMAIN calls', IsCall(i, "fromS3")', "properties" \in registered'
        PROVE  \E k \in 1 .. i - 1 : IsCall(k, "properties")'
    <3>1. i \in 1 .. n /\ IsCall(i, "fromS3")
      BY <1>1, <2>3 DEF IsCall
    <3>2. PICK k \in 1 .. i - 1 : IsCall(k, "properties")
      BY <1>1, <2>3, <3>1 DEF IInv, CallbacksInOrder
    <3>3. k \in 1 .. n
      BY <1>1, <3>1
    <3> QED
      BY <1>1, <3>2, <3>3 DEF IsCall
  <2> QED
    BY <1>2, <2>1, <2>2, <2>3 DEF CallbacksInOrder
<1>11. AbortIsFinal'
  BY <1>1, <1>6 DEF AbortIsFinal
<1> QED
  BY <1>4, <1>5, <1>7, <1>8, <1>9, <1>10, <1>11 DEF IInv

\* The size that curl_read_func passes to the user is within both limits.
LEMMA CutSize ==
  ASSUME NEW a \in Nat, NEW b \in Nat
  PROVE  Min({a, b}) \in Nat /\ Min({a, b}) <= a /\ Min({a, b}) <= b
<1>1. \E x \in {a, b} : \A y \in {a, b} : x <= y
  OBVIOUS
<1> QED
  BY <1>1 DEF Min

LEMMA ReadDataInv == IInv /\ ReadData => IInv'
<1> SUFFICES ASSUME IInv, ReadData PROVE IInv'
  OBVIOUS
<1>1. PICK size \in 1 .. MaxLen :
        \E ret \in 0 .. Min({size, toS3CallbackBytesRemaining}) :
          /\ toS3CallbackBytesRemaining' = toS3CallbackBytesRemaining - ret
          /\ eof' = (ret = 0)
          /\ calls' = calls \o Call("toS3", ret)
  BY DEF ReadData
<1>2. PICK ret \in 0 .. Min({size, toS3CallbackBytesRemaining}) :
        /\ toS3CallbackBytesRemaining' = toS3CallbackBytesRemaining - ret
        /\ eof' = (ret = 0)
        /\ calls' = calls \o Call("toS3", ret)
  BY <1>1
<1>3. toS3CallbackBytesRemaining \in 0 .. UploadSize /\ UploadSize \in Nat /\ MaxLen \in Nat
  BY LifecycleAssumption DEF IInv, TypeOK
<1>4. /\ Min({size, toS3CallbackBytesRemaining}) \in Nat
      /\ Min({size, toS3CallbackBytesRemaining}) <= size
      /\ Min({size, toS3CallbackBytesRemaining}) <= toS3CallbackBytesRemaining
  <2>1. size \in Nat /\ toS3CallbackBytesRemaining \in Nat
    BY <1>3
  <2> QED
    BY <2>1, CutSize
<1>5. ret \in Nat /\ ret <= MaxLen /\ ret <= toS3CallbackBytesRemaining
  BY <1>3, <1>4
<1>6. toS3CallbackBytesRemaining' \in 0 .. UploadSize
  BY <1>2, <1>3, <1>5
<1>7. calls' \in Seq(CallRecords)
  <2>1. [callback |-> "toS3", result |-> ret] \in CallRecords
    BY <1>3, <1>5, CallIsRecord
  <2> QED
    BY <1>2, <2>1, AddCall DEF IInv, TypeOK, Call
<1>8. TypeOK'
  BY <1>2, <1>6, <1>7 DEF IInv, TypeOK, ReadData, wireVars, headerVars
<1>9. ret \in -1 .. MaxLen /\ ret # -1
  BY <1>3, <1>5
<1> QED
  BY <1>2, <1>8, <1>9, ReadCallInv DEF ReadData, Reading

LEMMA ReadAbortedInv == IInv /\ ReadAborted => IInv'
<1> SUFFICES ASSUME IInv, ReadAborted PROVE IInv'
  OBVIOUS
<1>1. -1 \in -1 .. MaxLen
  BY LifecycleAssumption
<1>2. calls' \in Seq(CallRecords)
  BY <1>1, AddCall, CallIsRecord DEF IInv, TypeOK, ReadAborted, Call
<1>3. "AbortedByCallback" \in Statuses
  BY DEF Statuses
<1>4. TypeOK'
  BY <1>2, <1>3 DEF IInv, TypeOK, ReadAborted, wireVars, headerVars, uploadVars
<1> QED
  BY <1>1, <1>4, ReadCallInv DEF ReadAborted, Reading
-----------------------------------------------------------------------------
(* Body data                                                               *)

\* What request_headers_done adds to the history: nothing, or one call.
LEMMA AddMade ==
  ASSUME TypeOK, NEW h \in HeadersDone
  PROVE  /\ calls \o h.made \in Seq(CallRecords)
         /\ Len(calls) \in Nat /\ DOMAIN calls = 1 .. Len(calls)
         /\ \A i \in 1 .. Len(calls) : (calls \o h.made)[i] = calls[i]
         /\ \/ h.made = <<>> /\ Len(calls \o h.made) = Len(calls)
            \/ /\ h.made # <<>> /\ ~propertiesCallbackMade
               /\ Len(calls \o h.made) = Len(calls) + 1
               /\ (calls \o h.made)[Len(calls) + 1] =
                    [callback |-> "properties", result |-> h.status]
<1>1. calls \in Seq(CallRecords)
  BY DEF TypeOK
<1>2. Len(calls) \in Nat /\ DOMAIN calls = 1 .. Len(calls)
  BY <1>1, LenProperties
<1>3. CASE h.made = <<>>
  <2>1. calls \o h.made = calls
    BY <1>1, <1>3, ConcatEmptySeq
  <2> QED
    BY <1>1, <1>2, <1>3, <2>1
<1>4. CASE h.made # <<>>
  <2> DEFINE x == [callback |-> "properties", result |-> h.status]
  <2>1. h.made = <<x>> /\ ~propertiesCallbackMade
    BY <1>4, HeadersDoneFacts DEF Call
  <2>2. x \in CallRecords
    BY HeadersDoneFacts, CallIsRecord
  <2> HIDE DEF x
  <2>3. /\ calls \o h.made \in Seq(CallRecords)
        /\ Len(calls \o h.made) = Len(calls) + 1
        /\ (calls \o h.made)[Len(calls) + 1] = x
        /\ \A i \in 1 .. Len(calls) : (calls \o h.made)[i] = calls[i]
    BY <1>1, <2>1, <2>2, AddCall
  <2> QED
    BY <1>2, <1>4, <2>1, <2>3 DEF x
<1> QED
  BY <1>3, <1>4

\* The history after a data or complete call is added to it, or not.
LEMMA AddData ==
  ASSUME NEW m \in Seq(CallRecords), NEW x \in CallRecords,
         NEW data \in {<<>>, <<x>>}
  PROVE  /\ m \o data \in Seq(CallRecords)
         /\ Len(m) \in Nat /\ DOMAIN m = 1 .. Len(m)
         /\ \A i \in 1 .. Len(m) : (m \o data)[i] = m[i]
         /\ \/ data = <<>> /\ Len(m \o data) = Len(m)
            \/ /\ data # <<>>
               /\ Len(m \o data) = Len(m) + 1
               /\ (m \o data)[Len(m) + 1] = x
<1>1. Len(m) \in Nat /\ DOMAIN m = 1 .. Len(m)
  BY LenProperties
<1>2. CASE data = <<>>
  <2>1. m \o data = m
    BY <1>2, ConcatEmptySeq
  <2> QED
    BY <1>1, <1>2, <2>1
<1>3. CASE data # <<>>
  <2>1. data = <<x>>
    BY <1>3
  <2>2. /\ m \o data \in Seq(CallRecords)
        /\ Len(m \o data) = Len(m) + 1
        /\ (m \o data)[Len(m) + 1] = x
        /\ \A i \in 1 .. Len(m) : (m \o data)[i] = m[i]
    BY <2>1, AddCall
  <2> QED
    BY <1>1, <1>3, <2>2
<1> QED
  BY <1>2, <1>3

\* The history after curl_write_func or request_finish: the properties call,
\* if the headers were not processed before, then the data call, if there is
\* one, or the complete call.
LEMMA AddCalls ==
  ASSUME TypeOK, NEW h \in HeadersDone, NEW last \in CallRecords,
         NEW data \in {<<>>, <<last>>},
         calls' = (calls \o h.made) \o data
  PROVE  /\ calls' \in Seq(CallRecords)
         /\ Len(calls) \in Nat /\ Len(calls') \in Nat /\ Len(calls) <= Len(calls')
         /\ DOMAIN calls = 1 .. Len(calls) /\ DOMAIN calls' = 1 .. Len(calls')
         /\ \A i \in 1 .. Len(calls) : calls'[i] = calls[i]
         /\ h.made # <<>> =>
              /\ ~propertiesCallbackMade
              /\ Len(calls) + 1 <= Len(calls')
              /\ data = <<>> => Len(calls') = Len(calls) + 1
              /\ calls'[Len(calls) + 1] =
                   [callback |-> "properties", result |-> h.status]
         /\ \A i \in Len(calls) + 1 .. Len(calls') :
              \/ h.made # <<>> /\ i = Len(calls) + 1
              \/ /\ data # <<>> /\ i = Len(calls')
                 /\ calls'[i] = last
         /\ data # <<>> =>
              /\ Len(calls) + 1 <= Len(calls')
              /\ calls'[Len(calls')] = last
<1> DEFINE m == calls \o h.made
           n == Len(calls)
           k == Len(m)
           N == Len(calls')
           properties == [callback |-> "properties", result |-> h.status]
<1>1. /\ m \in Seq(CallRecords)
      /\ n \in Nat /\ DOMAIN calls = 1 .. n
      /\ \A i \in 1 .. n : m[i] = calls[i]
      /\ \/ h.made = <<>> /\ k = n
         \/ /\ h.made # <<>> /\ ~propertiesCallbackMade
            /\ k = n + 1 /\ m[n + 1] = properties
  BY AddMade
<1>2. calls' = m \o data
  OBVIOUS
<1> HIDE DEF m
<1>3. /\ calls' \in Seq(CallRecords)
      /\ \A i \in 1 .. k : calls'[i] = m[i]
      /\ \/ data = <<>> /\ N = k
         \/ data # <<>> /\ N = k + 1 /\ calls'[k + 1] = last
  <2>1. /\ m \o data \in Seq(CallRecords)
        /\ \A i \in 1 .. Len(m) : (m \o data)[i] = m[i]
        /\ \/ data = <<>> /\ Len(m \o data) = Len(m)
           \/ /\ data # <<>>
              /\ Len(m \o data) = Len(m) + 1
              /\ (m \o data)[Len(m) + 1] = last
    BY <1>1, AddData
  <2> QED
    BY <1>2, <2>1
<1>4. DOMAIN calls' = 1 .. N /\ N \in Nat
  BY <1>3, LenProperties
<1> HIDE DEF n, k, N, properties
<1>5. /\ n <= N /\ k \in Nat
      /\ \A i \in 1 .. n : calls'[i] = calls[i]
  BY <1>1, <1>3
<1>6. h.made # <<>> =>
        /\ ~propertiesCallbackMade
        /\ n + 1 <= N
        /\ data = <<>> => N = n + 1
        /\ calls'[n + 1] = properties
  <2> SUFFICES ASSUME h.made # <<>>
               PROVE  /\ ~propertiesCallbackMade
                      /\ n + 1 <= N
                      /\ data = <<>> => N = n + 1
                      /\ calls'[n + 1] = properties
    OBVIOUS
  <2>1. ~propertiesCallbackMade /\ k = n + 1 /\ m[n + 1] = properties
    BY <1>1
  <2>2. n + 1 \in 1 .. k
    BY <1>1, <2>1
  <2>3. calls'[n + 1] = properties
    BY <1>3, <2>1, <2>2
  <2> QED
    BY <1>1, <1>3, <2>1, <2>3
<1>7. \A i \in n + 1 .. N :
        \/ h.made # <<>> /\ i = n + 1
        \/ data # <<>> /\ i = N /\ calls'[i] = last
  <2> SUFFICES ASSUME NEW i \in n + 1 .. N
               PROVE  \/ h.made # <<>> /\ i = n + 1
                      \/ data # <<>> /\ i = N /\ calls'[i] = last
    OBVIOUS
  <2>1. CASE i <= k
    BY <1>1, <1>5, <2>1
  <2>2. CASE ~(i <= k)
    <3>1. i \in Int /\ n + 1 <= i /\ i <= N
      BY <1>1, <1>4
    <3>2. data # <<>> /\ N = k + 1 /\ calls'[k + 1] = last
      BY <1>3, <1>5, <2>2, <3>1
    <3>3. i = k + 1
      BY <1>5, <2>2, <3>1, <3>2
    <3> QED
      BY <3>2, <3>3
  <2> QED
    BY <2>1, <2>2
<1>8. data # <<>> => n + 1 <= N /\ calls'[N] = last
  <2> SUFFICES ASSUME data # <<>>
               PROVE  n + 1 <= N /\ calls'[N] = last
    OBVIOUS
  <2>1. N = k + 1 /\ calls'[k + 1] = last
    BY <1>3
  <2> QED
    BY <1>1, <2>1
<1> QED
  BY <1>1, <1>3, <1>4, <1>5, <1>6, <1>7, <1>8 DEF n, N, properties

\* The properties call comes once and before any fromS3 call.
LEMMA HeadersInOrder ==
  ASSUME IInv, NEW h \in HeadersDone, NEW last \in CallRecords,
         NEW data \in {<<>>, <<last>>},
         last.callback \in {"fromS3", "complete"},
         calls' = (calls \o h.made) \o data,
         propertiesCallbackMade' = TRUE, httpResponseCode' = h.code,
         registered' = registered,
         data # <<>> /\ last.callback = "fromS3" => Success(h.code)
  PROVE  /\ HeadersFirst' /\ PropertiesMade'
         /\ \A i, j \in DOMAIN calls' :
              IsCall(i, "properties")' /\ IsCall(j, "properties")' => i = j
         /\ \A i \in DOMAIN calls' :
              IsCall(i, "fromS3")' /\ "properties" \in registered' =>
                \E k \in 1 .. i - 1 : IsCall(k, "properties")'
<1> DEFINE n == Len(calls)
           N == Len(calls')
<1>1. /\ n \in Nat /\ N \in Nat /\ n <= N
      /\ DOMAIN calls = 1 .. n /\ DOMAIN calls' = 1 .. N
      /\ \A i \in 1 .. n : calls'[i] = calls[i]
      /\ h.made # <<>> =>
           /\ ~propertiesCallbackMade
           /\ n + 1 <= N
           /\ calls'[n + 1] = [callback |-> "properties", result |-> h.status]
      /\ \A i \in n + 1 .. N :
           \/ h.made # <<>> /\ i = n + 1
           \/ data # <<>> /\ i = N /\ calls'[i] = last
  BY AddCalls DEF IInv
<1> HIDE DEF n, N
<1>2. h.made # <<>> =>
        n + 1 \in 1 .. N /\ \A i \in 1 .. N : i = n + 1 => IsCall(i, "properties")'
  <2> SUFFICES ASSUME h.made # <<>>, NEW i \in 1 .. N, i = n + 1
               PROVE  n + 1 \in 1 .. N /\ IsCall(i, "properties")'
    BY <1>1
  <2>1. calls'[i] = [callback |-> "properties", result |-> h.status]
    BY <1>1
  <2> QED
    BY <1>1, <2>1 DEF IsCall
<1>3. HeadersFirst'
  BY DEF HeadersFirst
<1>4. PropertiesMade'
  <2> SUFFICES ASSUME Success(h.code), "properties" \in registered
               PROVE  \E i \in 1 .. N : IsCall(i, "properties")'
    BY <1>1 DEF PropertiesMade, Success
  <2>1. CASE ~propertiesCallbackMade
    <3>1. h.made = Call("properties", h.status)
      BY <2>1, HeadersDoneFacts DEF IInv
    <3>2. h.made # <<>>
      BY <3>1 DEF Call
    <3> QED
      BY <1>2, <3>2
  <2>2. CASE propertiesCallbackMade
    <3>1. PICK i \in 1 .. n : IsCall(i, "properties")
      BY <1>1, <2>2, HeadersDoneFacts DEF IInv, PropertiesMade
    <3> QED
      BY <1>1, <3>1 DEF IsCall
  <2> QED
    BY <2>1, <2>2
<1>5. ASSUME NEW i \in 1 .. N, NEW j \in 1 .. N,
             IsCall(i, "properties")', IsCall(j, "properties")'
      PROVE  i = j
  <2>1. \A k \in 1 .. n : IsCall(k, "properties")' =>
          IsCall(k, "properties") /\ propertiesCallbackMade
    BY <1>1 DEF IInv, HeadersFirst, IsCall
  <2>2. \A k \in n + 1 .. N : IsCall(k, "properties")' =>
          k = n + 1 /\ ~propertiesCallbackMade
    BY <1>1 DEF IsCall
  <2>3. CASE i \in 1 .. n /\ j \in 1 .. n
    <3>1. IsCall(i, "properties") /\ IsCall(j, "properties")
      BY <1>5, <2>1, <2>3
    <3>2. CallbacksInOrder
      BY DEF IInv
    <3> QED
      BY <1>1, <2>3, <3>1, <3>2 DEF CallbacksInOrder
  <2>4. CASE i \in 1 .. n /\ j \in n + 1 .. N
    BY <1>5, <2>1, <2>2, <2>4
  <2>5. CASE i \in n + 1 .. N /\ j \in 1 .. n
    BY <1>5, <2>1, <2>2, <2>5
  <2>6. CASE i \in n + 1 .. N /\ j \in n + 1 .. N
    BY <1>5, <2>2, <2>6
  <2> QED
    BY <1>1, <1>5, <2>3, <2>4, <2>5, <2>6
<1>6. ASSUME NEW i \in 1 .. N, IsCall(i, "fromS3")', "properties" \in registered'
      PROVE  \E k \in 1 .. i - 1 : IsCall(k, "properties")'
  <2>1. CASE i \in 1 .. n
    <3>1. PICK k \in 1 .. i - 1 : IsCall(k, "properties")
      BY <1>1, <1>6, <2>1 DEF IInv, CallbacksInOrder, IsCall
    <3>2. k \in 1 .. n
      BY <1>1, <2>1
    <3> QED
      BY <1>1, <3>1, <3>2 DEF IsCall
  <2>2. CASE i \in n + 1 .. N
    <3>1. i = N /\ data # <<>> /\ last.callback = "fromS3"
      <4>1. ~(h.made # <<>> /\ i = n + 1)
        BY <1>2, <1>6 DEF IsCall
      <4>2. i = N /\ data # <<>> /\ calls'[i] = last
        BY <1>1, <2>2, <4>1
      <4> QED
        BY <1>6, <4>2 DEF IsCall
    <3>2. PICK k \in 1 .. N : IsCall(k, "properties")'
      BY <1>1, <1>4, <1>6, <3>1 DEF PropertiesMade, Success
    <3>3. k # i
      BY <1>6, <3>2 DEF IsCall
    <3> QED
      BY <1>1, <3>1, <3>2, <3>3
  <2> QED
    BY <1>1, <2>1, <2>2
<1> QED
  BY <1>1, <1>3, <1>4, <1>5, <1>6

\* curl_write_func: what a callback returns in it is the new status, and
\* anything but OK stops the transfer.
LEMMA WriteCallInv ==
  ASSUME IInv, NEW h \in HeadersDone, NEW s \in Statuses,
         NEW data \in {<<>>, Call("fromS3", s)},
         Write(h), WriteResult(s), errorCode' \in ErrorCodes,
         calls' = (calls \o h.made) \o data,
         h.status # "OK" => s = h.status /\ data = <<>>,
         data # <<>> => Success(h.code)
  PROVE  IInv'
<1> DEFINE n == Len(calls)
           N == Len(calls')
           last == [callback |-> "fromS3", result |-> s]
<1>1. last \in CallRecords /\ data \in {<<>>, <<last>>}
  BY CallIsRecord DEF Call
<1>2. /\ calls' \in Seq(CallRecords)
      /\ n \in Nat /\ N \in Nat /\ n <= N
      /\ DOMAIN calls = 1 .. n /\ DOMAIN calls' = 1 .. N
      /\ \A i \in 1 .. n : calls'[i] = calls[i]
      /\ h.made # <<>> =>
           /\ ~propertiesCallbackMade
           /\ n + 1 <= N
           /\ data = <<>> => N = n + 1
           /\ calls'[n + 1] = [callback |-> "properties", result |-> h.status]
      /\ \A i \in n + 1 .. N :
           \/ h.made # <<>> /\ i = n + 1
           \/ /\ data # <<>> /\ i = N
              /\ calls'[i] = last
  <2> HIDE DEF last
  <2> QED
    BY <1>1, AddCalls DEF IInv
<1>3. phase = "transfer" /\ phase' = "transfer" /\ aborted = "no" /\ registered' = registered
  BY DEF Write, Transferring
\* No callback has asked to abort so far.
<1>4. \A i \in 1 .. n : ~IsCall(i, "complete") /\ ~IsAbort(i)
  BY <1>2, <1>3 DEF IInv, AbortStops, Transferring, CallbacksInOrder
<1> HIDE DEF n, N
\* One that does now makes the last of the new calls.
<1>5. \A i \in 1 .. N : ~IsCall(i, "complete")'
  <2> TAKE i \in 1 .. N
  <2>1. CASE i \in 1 .. n
    BY <1>2, <1>4, <2>1 DEF IsCall
  <2>2. CASE i \in n + 1 .. N
    <3>1. \/ calls'[i] = [callback |-> "properties", result |-> h.status]
          \/ calls'[i] = [callback |-> "fromS3", result |-> s]
      BY <1>2, <2>2
    <3>2. CASE calls'[i] = [callback |-> "properties", result |-> h.status]
      BY <3>2 DEF IsCall
    <3>3. CASE calls'[i] = [callback |-> "fromS3", result |-> s]
      BY <3>3 DEF IsCall
    <3> QED
      BY <3>1, <3>2, <3>3
  <2> QED
    BY <1>2, <2>1, <2>2
<1>6. \A i \in 1 .. N : IsAbort(i)' =>
        i = N /\ s # "OK" /\ ~IsCall(i, "toS3")' /\ calls'[i].result = s
  <2> TAKE i \in 1 .. N
  <2>1. CASE i \in 1 .. n
    BY <1>2, <1>4, <2>1 DEF IsAbort, IsCall
  <2>2. CASE i \in n + 1 .. N
    <3>1. CASE h.made # <<>> /\ i = n + 1
      <4>1. calls'[i] = [callback |-> "properties", result |-> h.status]
        BY <1>2, <3>1
      <4>2. h.status # "OK" => s = h.status /\ i = N
        BY <1>2, <3>1
      <4> QED
        BY <4>1, <4>2 DEF IsAbort, IsCall
    <3>2. CASE i = N /\ calls'[i] = [callback |-> "fromS3", result |-> s]
      BY <3>2 DEF IsAbort, IsCall
    <3> QED
      BY <1>2, <2>2, <3>1, <3>2
  <2> QED
    BY <1>2, <2>1, <2>2
<1>7. TypeOK'
  <2>1. httpResponseCode' \in {0, 100, 307} \cup FinalCodes
    BY HeadersDoneFacts DEF IInv, Write
  <2>2. chunks' \in 0 .. MaxChunks
    BY LifecycleAssumption DEF IInv, TypeOK, Write
  <2> QED
    BY <1>2, <2>1, <2>2 DEF IInv, TypeOK, Write, WriteResult, wireVars, uploadVars
<1>8. /\ HeadersFirst' /\ PropertiesMade'
      /\ \A i, j \in DOMAIN calls' :
           IsCall(i, "properties")' /\ IsCall(j, "properties")' => i = j
      /\ \A i \in DOMAIN calls' :
           IsCall(i, "fromS3")' /\ "properties" \in registered' =>
             \E k \in 1 .. i - 1 : IsCall(k, "properties")'
  <2>1. last.callback = "fromS3" /\ propertiesCallbackMade' = TRUE /\ httpResponseCode' = h.code
    BY DEF Write
  <2> HIDE DEF last
  <2> QED
    BY <1>3, <1>1, <2>1, HeadersInOrder
<1>9. AbortStops' /\ AbortKept'
  BY <1>2, <1>6 DEF AbortStops, AbortKept, Refusal, WriteResult, Transferring
<1>10. FailureKept' /\ OkIsSuccess'
  BY <1>3 DEF FailureKept, OkIsSuccess
<1>11. CallbacksInOrder'
  BY <1>2, <1>3, <1>5, <1>8 DEF CallbacksInOrder
<1>12. AbortIsFinal'
  BY <1>2, <1>6 DEF AbortIsFinal
<1> QED
  BY <1>7, <1>8, <1>9, <1>10, <1>11, <1>12 DEF IInv
LEMMA WriteRefusedInv == IInv /\ WriteRefused => IInv'
<1> SUFFICES ASSUME IInv, WriteRefused PROVE IInv'
  OBVIOUS
<1>1. PICK h \in HeadersDone :
        /\ h.status # "OK" /\ Write(h) /\ WriteResult(h.status)
        /\ calls' = calls \o h.made
        /\ UNCHANGED errorCode
  BY DEF WriteRefused
<1>2. h.status \in Statuses /\ errorCode' \in ErrorCodes
  BY <1>1, HeadersDoneFacts DEF IInv, TypeOK
<1>3. calls' = (calls \o h.made) \o <<>>
  BY <1>1, AddMade, ConcatEmptySeq DEF IInv
<1> QED
  BY <1>1, <1>2, <1>3, WriteCallInv

LEMMA WriteErrorDocumentInv == IInv /\ WriteErrorDocument => IInv'
<1> SUFFICES ASSUME IInv, WriteErrorDocument PROVE IInv'
  OBVIOUS
<1>1. PICK h \in HeadersDone :
        /\ h.status = "OK" /\ Write(h)
        /\ \/ WriteResult("OK") /\ errorCode' \in {errorCode, "listed", "unlisted"}
           \/ WriteResult("XmlParseFailure") /\ UNCHANGED errorCode
        /\ calls' = calls \o h.made
  BY DEF WriteErrorDocument
<1>2. PICK s \in {"OK", "XmlParseFailure"} : WriteResult(s)
  BY <1>1
<1>3. s \in Statuses
  BY DEF Statuses
<1>4. errorCode' \in ErrorCodes
  BY <1>1 DEF IInv, TypeOK, ErrorCodes
<1>5. calls' = (calls \o h.made) \o <<>>
  BY <1>1, AddMade, ConcatEmptySeq DEF IInv
<1> QED
  BY <1>1, <1>2, <1>3, <1>4, <1>5, WriteCallInv

LEMMA WriteToUserInv == IInv /\ WriteToUser => IInv'
<1> SUFFICES ASSUME IInv, WriteToUser PROVE IInv'
  OBVIOUS
<1>1. PICK h \in HeadersDone, s \in CallbackStatuses :
        /\ h.status = "OK" /\ Success(h.code)
        /\ Write(h) /\ WriteResult(s)
        /\ calls' = calls \o h.made \o Call("fromS3", s)
        /\ UNCHANGED errorCode
  BY DEF WriteToUser
<1>2. s \in Statuses
  BY DEF Statuses
<1>3. errorCode' \in ErrorCodes
  BY <1>1 DEF IInv, TypeOK
<1> QED
  BY <1>1, <1>2, <1>3, WriteCallInv

LEMMA WriteUnexpectedInv == IInv /\ WriteUnexpected => IInv'
<1> SUFFICES ASSUME IInv, WriteUnexpected PROVE IInv'
  OBVIOUS
<1>1. PICK h \in HeadersDone :
        /\ h.status = "OK" /\ Write(h) /\ WriteResult("InternalError")
        /\ calls' = calls \o h.made
        /\ UNCHANGED errorCode
  BY DEF WriteUnexpected
<1>2. "InternalError" \in Statuses
  BY DEF Statuses
<1>3. errorCode' \in ErrorCodes
  BY <1>1 DEF IInv, TypeOK
<1>4. calls' = (calls \o h.made) \o <<>>
  BY <1>1, AddMade, ConcatEmptySeq DEF IInv
<1> QED
  BY <1>1, <1>2, <1>3, <1>4, WriteCallInv

-----------------------------------------------------------------------------
(* request_finish                                                          *)

\* The complete call is the last, with a status that keeps every refusal made
\* before.
LEMMA FinishInv == IInv /\ request_finish => IInv'
<1> SUFFICES ASSUME IInv, request_finish PROVE IInv'
  OBVIOUS
<1>1. PICK h \in HeadersDone :
        /\ httpResponseCode' = h.code
        /\ status' = FinalStatus(h.status, errorCode, h.code)
        /\ calls' = calls \o h.made \o Call("complete", status')
  BY DEF request_finish
<1>2. PICK s : s = FinalStatus(h.status, errorCode, h.code)
  OBVIOUS
<1> DEFINE n == Len(calls)
           N == Len(calls')
           last == [callback |-> "complete", result |-> s]
<1>3. /\ h.status \in Statuses
      /\ h.code \in {0, 100, 307} \cup FinalCodes
      /\ errorCode \in ErrorCodes
  BY HeadersDoneFacts DEF IInv, TypeOK
<1>4. status' = s /\ s \in Statuses
  <2>1. h.code \in 0 .. 599
    BY <1>3, HttpCodes
  <2> QED
    BY <1>1, <1>2, <1>3, <2>1, FinalStatusType
<1>5. last \in CallRecords /\ calls' = (calls \o h.made) \o <<last>>
  BY <1>1, <1>4, CallIsRecord DEF Call
<1>6. /\ phase = "ended" /\ phase' = "completed"
      /\ propertiesCallbackMade' = TRUE /\ registered' = registered
  BY DEF request_finish
<1>7. /\ calls' \in Seq(CallRecords)
      /\ n \in Nat /\ N \in Nat /\ n <= N
      /\ DOMAIN calls = 1 .. n /\ DOMAIN calls' = 1 .. N
      /\ \A i \in 1 .. n : calls'[i] = calls[i]
      /\ h.made # <<>> =>
           /\ ~propertiesCallbackMade
           /\ calls'[n + 1] = [callback |-> "properties", result |-> h.status]
      /\ \A i \in n + 1 .. N :
           \/ h.made # <<>> /\ i = n + 1
           \/ i = N /\ calls'[i] = last
      /\ n + 1 <= N /\ calls'[N] = last
  <2> DEFINE data == <<last>>
  <2>1. data \in {<<>>, <<last>>} /\ data # <<>>
    OBVIOUS
  <2>2. calls' = (calls \o h.made) \o data
    BY <1>5
  <2> HIDE DEF last, data
  <2> QED
    BY <1>5, <2>1, <2>2, AddCalls DEF IInv
<1>8. /\ HeadersFirst' /\ PropertiesMade'
      /\ \A i, j \in DOMAIN calls' :
           IsCall(i, "properties")' /\ IsCall(j, "properties")' => i = j
      /\ \A i \in DOMAIN calls' :
           IsCall(i, "fromS3")' /\ "properties" \in registered' =>
             \E k \in 1 .. i - 1 : IsCall(k, "properties")'
  <2> DEFINE data == <<last>>
  <2>1. data \in {<<>>, <<last>>} /\ last.callback = "complete"
    OBVIOUS
  <2>2. calls' = (calls \o h.made) \o data
    BY <1>5
  <2> HIDE DEF last, data
  <2> QED
    BY <1>1, <1>5, <1>6, <2>1, <2>2, HeadersInOrder
<1> HIDE DEF n, N
\* Which of the calls is which.
<1>9. \A i \in 1 .. n :
        /\ ~IsCall(i, "complete") /\ ~IsCall(i, "complete")'
        /\ IsCall(i, "toS3")' <=> IsCall(i, "toS3")
        /\ IsCall(i, "fromS3")' <=> IsCall(i, "fromS3")
        /\ IsAbort(i)' <=> IsAbort(i)
  BY <1>6, <1>7 DEF IInv, CallbacksInOrder, IsCall, IsAbort
<1>10. \A i \in n + 1 .. N : i # N =>
         /\ ~IsCall(i, "complete")' /\ ~IsCall(i, "toS3")' /\ ~IsCall(i, "fromS3")'
         /\ calls'[i].result = h.status /\ (IsAbort(i)' => h.status # "OK")
  <2> TAKE i \in n + 1 .. N
  <2> HAVE i # N
  <2>1. calls'[i] = [callback |-> "properties", result |-> h.status]
    BY <1>7
  <2> QED
    BY <2>1 DEF IsCall, IsAbort
<1>11. \A i \in 1 .. N : i = N =>
         /\ IsCall(i, "complete")' /\ ~IsCall(i, "toS3")' /\ ~IsCall(i, "fromS3")'
         /\ calls'[i].result = s
  BY <1>7 DEF IsCall
<1>12. /\ propertiesCallbackMade => h.status = status
       /\ h.made = <<>> => h.status = status \/ h.status = "InternalError"
  BY HeadersDoneFacts DEF IInv
\* A refusal of the properties or the data callback is what is reported; one
\* of the upload callback, if the headers are not processed after it.
<1>13. \A i \in 1 .. n : IsAbort(i) =>
         \/ s \in {Refusal(i), "Interrupted"} /\ s # "OK"
         \/ IsCall(i, "toS3") /\ s = "InternalError"
         \/ IsCall(i, "toS3") /\ h.made # <<>>
  <2> SUFFICES ASSUME NEW i \in 1 .. n, IsAbort(i),
                      ~(IsCall(i, "toS3") /\ h.made # <<>>)
               PROVE  \/ s \in {Refusal(i), "Interrupted"} /\ s # "OK"
                      \/ IsCall(i, "toS3") /\ s = "InternalError"
    OBVIOUS
  <2>1. calls[i] \in CallRecords
    BY <1>7, ElementOfSeq DEF IInv, TypeOK, n
  <2>2. IsCall(i, "toS3") \/ IsCall(i, "properties") \/ IsCall(i, "fromS3")
    BY <1>9, <2>1 DEF CallRecords, IsCall
  <2>3. h.status = status \/ (IsCall(i, "toS3") /\ h.status = "InternalError")
    <3>1. CASE IsCall(i, "toS3")
      <4>1. h.made = <<>>
        BY <3>1
      <4> QED
        BY <3>1, <4>1, <1>12
    <3>2. CASE ~IsCall(i, "toS3")
      <4>1. HeadersFirst
        BY DEF IInv
      <4>2. propertiesCallbackMade
        BY <1>7, <2>2, <3>2, <4>1 DEF HeadersFirst
      <4> QED
        BY <4>2, <1>12
    <3> QED
      BY <3>1, <3>2
  <2>4. status \in {Refusal(i), "Interrupted"}
    BY <1>6, <1>7 DEF IInv, AbortKept
  <2>5. Refusal(i) # "OK"
    BY DEF IsAbort, IsCall, Refusal
  <2> QED
    BY <1>2, <2>3, <2>4, <2>5, FinalStatusKeeps
\* In which case the properties callback follows it.
<1>14. h.made # <<>> => \A i \in 1 .. n : PropertiesAfter(i)'
  <2> SUFFICES ASSUME h.made # <<>>, NEW i \in 1 .. n
               PROVE  PropertiesAfter(i)'
    OBVIOUS
  <2>1. calls'[n + 1] = [callback |-> "properties", result |-> h.status]
    BY <1>7
  <2>2. n + 1 \in DOMAIN calls' /\ n + 1 > i
    BY <1>7
  <2> QED
    BY <2>1, <2>2 DEF PropertiesAfter, IsCall
<1>15. h.status # "OK" => s = h.status
  BY <1>2, FinalStatusKeeps
<1> HIDE DEF last
<1>16. TypeOK'
  BY <1>1, <1>3, <1>4, <1>6, <1>7 DEF IInv, TypeOK, request_finish, wireVars, uploadVars
<1>17. AbortStops' /\ AbortKept' /\ FailureKept'
  BY <1>6 DEF AbortStops, AbortKept, FailureKept, Transferring
<1>18. CallbacksInOrder'
  <2>1. \A i \in 1 .. N : IsCall(i, "complete")' <=> i = N
    BY <1>7, <1>9, <1>10, <1>11
  <2> QED
    BY <1>6, <1>7, <1>8, <2>1 DEF CallbacksInOrder, N
<1>19. AbortIsFinal'
  <2> SUFFICES ASSUME NEW i \in 1 .. N, ~IsCall(i, "complete")', IsAbort(i)',
                      NEW j \in i + 1 .. N
               PROVE  /\ ~IsCall(j, "toS3")' /\ ~IsCall(j, "fromS3")'
                      /\ IsCall(j, "complete")' =>
                           \/ calls'[j].result \in {Refusal(i)', "Interrupted"}
                           \/ /\ IsCall(i, "toS3")'
                              /\ calls'[j].result = "InternalError" \/ PropertiesAfter(i)'
    BY <1>7 DEF AbortIsFinal, N
  <2>1. j \in 1 .. N /\ i \in Int /\ j \in Int /\ i < j
    BY <1>7
  <2>2. CASE j \in 1 .. n
    <3>1. i \in 1 .. n
      BY <1>7, <2>1, <2>2
    <3>2. ~IsCall(j, "toS3") /\ ~IsCall(j, "fromS3")
      BY <1>7, <1>9, <2>2, <3>1 DEF IInv, AbortIsFinal, n
    <3> QED
      BY <1>9, <2>2, <3>2
  <2>3. CASE j \in n + 1 .. N /\ j # N
    BY <1>10, <2>3
  <2>4. CASE j = N
    <3> SUFFICES \/ s \in {Refusal(i)', "Interrupted"}
                 \/ /\ IsCall(i, "toS3")'
                    /\ s = "InternalError" \/ PropertiesAfter(i)'
      BY <1>11, <2>1, <2>4
    <3>1. CASE i \in 1 .. n
      <4>1. Refusal(i)' = Refusal(i)
        BY <1>7, <1>9, <3>1 DEF Refusal
      <4> QED
        BY <1>9, <1>13, <1>14, <3>1, <4>1
    <3>2. CASE i \in n + 1 .. N
      <4>1. Refusal(i)' = h.status /\ h.status # "OK"
        BY <1>10, <2>1, <2>4, <3>2 DEF Refusal
      <4> QED
        BY <1>15, <4>1
    <3> QED
      BY <1>7, <2>1, <3>1, <3>2
  <2> QED
    BY <1>7, <2>1, <2>2, <2>3, <2>4
<1>20. OkIsSuccess'
  <2> SUFFICES ASSUME s = "OK"
               PROVE  /\ Success(h.code) \/ h.code = 100
                      /\ errorCode = "none"
                      /\ \A i \in 1 .. N : IsAbort(i)' =>
                           IsCall(i, "toS3")' /\ PropertiesAfter(i)'
    BY <1>1, <1>4, <1>7 DEF OkIsSuccess, request_finish, Success
  <2>1. h.status = "OK" /\ errorCode = "none" /\ (Success(h.code) \/ h.code = 100)
    BY <1>2, <1>3, FinalStatusOk
  <2>2. ASSUME NEW i \in 1 .. N, IsAbort(i)'
        PROVE  IsCall(i, "toS3")' /\ PropertiesAfter(i)'
    <3>1. CASE i \in 1 .. n
      <4>1. IsAbort(i)
        BY <1>9, <2>2, <3>1
      <4>2. IsCall(i, "toS3") /\ h.made # <<>>
        BY <1>13, <3>1, <4>1
      <4>3. IsCall(i, "toS3")'
        BY <1>9, <3>1, <4>2
      <4>4. PropertiesAfter(i)'
        BY <1>14, <3>1, <4>2
      <4> QED
        BY <4>3, <4>4
    <3>2. CASE i \in n + 1 .. N /\ i # N
      BY <1>10, <2>1, <2>2, <3>2
    <3>3. CASE i = N
      <4>1. ~IsCall(i, "toS3")' /\ calls'[i].result = "OK"
        BY <1>11, <2>2, <3>3
      <4>2. ~IsAbort(i)'
        BY <4>1 DEF IsAbort
      <4> QED
        BY <2>2, <4>2
    <3> QED
      BY <1>7, <2>2, <3>1, <3>2, <3>3
  <2> QED
    BY <2>1, <2>2
<1> QED
  BY <1>8, <1>16, <1>17, <1>18, <1>19, <1>20 DEF IInv

-----------------------------------------------------------------------------
(* The theorems                                                            *)

LEMMA NextInv == IInv /\ [Next]_vars => IInv'
BY ReceiveInterimInv, ReceiveFinalInv, ReadAtEndInv, ReadDataInv,
   ReadAbortedInv, WriteRefusedInv, WriteErrorDocumentInv, WriteToUserInv,
   WriteUnexpectedInv, CurlEndsInv, InterruptInv, FinishInv, StutterInv
   DEF Next, Finished

\* What a request remembers between two of curl's callbacks always agrees with
\* the callbacks that were made.
THEOREM Invariance == Spec => []IInv
BY InitInv, NextInv, PTL DEF Spec

\* The complete callback is made once and last, the properties callback at
\* most once and before the data (request_headers_done, request_finish).
THEOREM CallbacksMadeInOrder == Spec => []CallbacksInOrder
<1>1. IInv => CallbacksInOrder
  BY DEF IInv
<1> QED
  BY <1>1, Invariance, PTL

\* A callback's refusal ends the data callbacks and is what is reported, but
\* that an upload callback's gives way to what processing the headers after it
\* results in (curl_read_func, curl_write_func, request_finish).
THEOREM AbortsAreFinal == Spec => []AbortIsFinal
<1>1. IInv => AbortIsFinal
  BY DEF IInv
<1> QED
  BY <1>1, Invariance, PTL

\* OK is reported for a 2xx response, or the code 100, without an error code,
\* and after no refusal but one of the upload callback that a properties
\* callback came after (request_finish).
THEOREM OkMeansSuccess == Spec => []OkIsSuccess
<1>1. IInv => OkIsSuccess
  BY DEF IInv
<1> QED
  BY <1>1, Invariance, PTL

\* No upload sends more than the size the user announced (curl_read_func).
THEOREM TypeCorrect == Spec => []TypeOK
<1>1. IInv => TypeOK
  BY DEF IInv
<1> QED
  BY <1>1, Invariance, PTL

\* Of a transfer that failed, with anything but PARTIAL_FILE, OK is reported
\* only when the properties callback said so in request_finish itself, after
\* curl_easy_perform or process_request_context recorded the failure.
THEOREM FailuresReported == Spec => FailureReported
<1> DEFINE Shown == calls' = calls \o Call("properties", "OK") \o Call("complete", "OK")
<1>1. ASSUME IInv, [Next]_vars
      PROVE  [phase = "ended" /\ curlResult \notin {"OK", "PARTIAL_FILE"} =>
                status' # "OK" \/ Shown]_phase
  <2> SUFFICES ASSUME phase' # phase, phase = "ended", status' = "OK",
                      curlResult \notin {"OK", "PARTIAL_FILE"}
               PROVE  Shown
    OBVIOUS
  <2>1. request_finish
    BY <1>1 DEF Next, vars, Finished, Transferring, ReceiveInterim, ReceiveFinal,
                Reading, ReadAtEnd, ReadData, ReadAborted, WriteRefused,
                WriteErrorDocument, WriteToUser, WriteUnexpected, Write,
                CurlEnds, Interrupt
  <2>2. status # "OK"
    BY <1>1 DEF IInv, FailureKept
  <2>3. PICK h \in HeadersDone :
          /\ status' = FinalStatus(h.status, errorCode, h.code)
          /\ calls' = calls \o h.made \o Call("complete", status')
    BY <2>1 DEF request_finish
  <2>4. h.status = "OK"
    BY <2>3, FinalStatusKeeps
  <2>5. h.made = Call("properties", "OK")
    BY <1>1, <2>2, <2>4, HeadersDoneFacts DEF IInv
  <2> QED
    BY <2>3, <2>5
<1> QED
  BY <1>1, Invariance, PTL DEF Spec, FailureReported
===============================================================================
