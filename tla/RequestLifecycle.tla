-------------------------- MODULE RequestLifecycle --------------------------
(***************************************************************************)
(* One S3 request between request_get and request_release                  *)
(* (src/src/request.c): the callbacks curl makes into libs3 while the      *)
(* transfer runs, the callbacks libs3 makes to its user from inside them,  *)
(* and the status that is reported in the end.                             *)
(*                                                                         *)
(* curl and the server are the environment.  They choose when header and   *)
(* body data arrive, when upload data is wanted, and how the transfer      *)
(* ends; curl makes one callback at a time.  The user's callbacks choose   *)
(* what they return.  A step is one curl callback, the end of the          *)
(* transfer, or request_finish.                                            *)
(***************************************************************************)
EXTENDS RequestStatus, Sequences, FiniteSetsExt

CONSTANTS
  UploadSize,        \* toS3CallbackTotalSize
  MaxLen,            \* the largest piece curl asks curl_read_func for
  MaxChunks,         \* bound: body pieces curl passes to curl_write_func
  FinalCodes,        \* HTTP codes of the final response
  CallbackStatuses   \* statuses a user callback may return

ASSUME LifecycleAssumption ==
  /\ UploadSize \in Nat /\ MaxLen \in Nat \ {0} /\ MaxChunks \in Nat
  /\ FinalCodes \subseteq 101 .. 599
  /\ "OK" \in CallbackStatuses

VARIABLES
  registered,                  \* the user callbacks given for this request
  phase,                       \* "transfer", "ended", "completed"
  wireCode,                    \* the code curl_easy_getinfo would return
  final,                       \* the final response's headers have arrived
  chunks,                      \* body pieces received
  eof,                         \* curl_read_func has returned 0
  aborted,                     \* the curl callback that told curl to stop
  curlResult,                  \* how the transfer ended
  status,                      \* Request.status
  httpResponseCode,            \* Request.httpResponseCode
  propertiesCallbackMade,      \* Request.propertiesCallbackMade
  toS3CallbackBytesRemaining,  \* Request.toS3CallbackBytesRemaining
  errorCode,                   \* what errorParser has of the <Code>
  calls                        \* history: the user callbacks made

vars == <<registered, phase, wireCode, final, chunks, eof, aborted, curlResult,
          status, httpResponseCode, propertiesCallbackMade,
          toS3CallbackBytesRemaining, errorCode, calls>>

headerVars == <<httpResponseCode, propertiesCallbackMade>>
uploadVars == <<eof, toS3CallbackBytesRemaining>>
wireVars   == <<wireCode, final>>

Callbacks == {"properties", "toS3", "fromS3"}

Call(callback, result) == <<[callback |-> callback, result |-> result]>>

Init ==
  /\ registered \in SUBSET Callbacks
  /\ phase = "transfer"
  /\ wireCode = 0
  /\ final = FALSE
  /\ chunks = 0
  /\ eof = FALSE
  /\ aborted = "no"
  /\ curlResult = "none"
  /\ status = "OK"
  /\ httpResponseCode = 0
  /\ propertiesCallbackMade = FALSE
  /\ toS3CallbackBytesRemaining = UploadSize
  /\ errorCode = "none"
  /\ calls = <<>>

-----------------------------------------------------------------------------
(* request_headers_done: what it can leave in status and httpResponseCode, *)
(* and the callback it makes.  The properties callback's result replaces   *)
(* the status, whatever it was.                                            *)

\* Mutant of HeadersDone: no `if (request->propertiesCallbackMade) return`.
HeadersDoneAgain ==
  IF "properties" \in registered /\ Success(wireCode)
  THEN {[status |-> s, code |-> wireCode, made |-> Call("properties", s)] :
          s \in CallbackStatuses}
  ELSE {[status |-> status, code |-> wireCode, made |-> <<>>]}

HeadersDone ==
  IF propertiesCallbackMade
  THEN {[status |-> status, code |-> httpResponseCode, made |-> <<>>]}
  ELSE {[status |-> "InternalError", code |-> 0, made |-> <<>>]} \cup
       IF "properties" \in registered /\ Success(wireCode)
       THEN {[status |-> s, code |-> wireCode, made |-> Call("properties", s)] :
               s \in CallbackStatuses}
       ELSE {[status |-> status, code |-> wireCode, made |-> <<>>]}

-----------------------------------------------------------------------------
(* The transfer *)

Transferring == phase = "transfer" /\ aborted = "no"

\* The status line of an interim response, or of a redirect curl follows.
ReceiveInterim ==
  /\ Transferring /\ ~final
  /\ wireCode' \in {100, 307}
  /\ UNCHANGED <<registered, phase, final, chunks, aborted, curlResult, status,
                 headerVars, uploadVars, errorCode, calls>>

\* The headers of the final response.  Some versions of curl go on reporting
\* 100 (the comment in request_finish).
ReceiveFinal ==
  /\ Transferring /\ ~final
  /\ final' = TRUE
  /\ wireCode' \in FinalCodes \cup ({wireCode} \cap {100})
  /\ UNCHANGED <<registered, phase, chunks, aborted, curlResult, status,
                 headerVars, uploadVars, errorCode, calls>>

\* curl_read_func first checks the status, which curl's own stopping on an
\* abort keeps at OK.
Reading == Transferring /\ ~eof /\ status = "OK"

\* curl_read_func when there is no callback or all bytes were supplied.
ReadAtEnd ==
  /\ Reading
  /\ "toS3" \notin registered \/ toS3CallbackBytesRemaining = 0
  /\ eof' = TRUE
  /\ UNCHANGED <<registered, phase, wireVars, chunks, aborted, curlResult, status,
                 headerVars, toS3CallbackBytesRemaining, errorCode, calls>>

\* Mutant of ReadData: the size curl asks for is not cut to what remains.
ReadDataUncut ==
  /\ Reading
  /\ "toS3" \in registered /\ toS3CallbackBytesRemaining # 0
  /\ \E size \in 1 .. MaxLen : \E ret \in 0 .. size :
       /\ toS3CallbackBytesRemaining' = toS3CallbackBytesRemaining - ret
       /\ eof' = (ret = 0)
       /\ calls' = calls \o Call("toS3", ret)
  /\ UNCHANGED <<registered, phase, wireVars, chunks, aborted, curlResult, status,
                 headerVars, errorCode>>

\* curl_read_func passing data on; the user supplies some of it or none.
ReadData ==
  /\ Reading
  /\ "toS3" \in registered /\ toS3CallbackBytesRemaining # 0
  /\ \E size \in 1 .. MaxLen :
       \E ret \in 0 .. Min({size, toS3CallbackBytesRemaining}) :
         /\ toS3CallbackBytesRemaining' = toS3CallbackBytesRemaining - ret
         /\ eof' = (ret = 0)
         /\ calls' = calls \o Call("toS3", ret)
  /\ UNCHANGED <<registered, phase, wireVars, chunks, aborted, curlResult, status,
                 headerVars, errorCode>>

\* curl_read_func when the user's callback returns a negative number.
ReadAborted ==
  /\ Reading
  /\ "toS3" \in registered /\ toS3CallbackBytesRemaining # 0
  /\ status' = "AbortedByCallback"
  /\ aborted' = "read"
  /\ calls' = calls \o Call("toS3", -1)
  /\ UNCHANGED <<registered, phase, wireVars, chunks, curlResult, headerVars,
                 uploadVars, errorCode>>

\* curl_write_func up to the status check: body data of the final response.
Write(h) ==
  /\ Transferring /\ final
  /\ chunks < MaxChunks
  /\ chunks' = chunks + 1
  /\ propertiesCallbackMade' = TRUE
  /\ httpResponseCode' = h.code
  /\ UNCHANGED <<registered, phase, wireVars, curlResult, uploadVars>>

\* Anything but OK makes it return 0, on which curl gives up.
WriteResult(s) ==
  /\ status' = s
  /\ aborted' = IF s = "OK" THEN "no" ELSE "write"

WriteRefused ==
  \E h \in HeadersDone :
    /\ h.status # "OK"
    /\ Write(h) /\ WriteResult(h.status)
    /\ calls' = calls \o h.made
    /\ UNCHANGED errorCode

\* error_parser_add: the piece completes the <Code>, or not, or is not XML.
WriteErrorDocument ==
  \E h \in HeadersDone :
    /\ h.status = "OK" /\ ~Success(h.code)
    /\ Write(h)
    /\ \/ WriteResult("OK") /\ errorCode' \in {errorCode, "listed", "unlisted"}
       \/ WriteResult("XmlParseFailure") /\ UNCHANGED errorCode
    /\ calls' = calls \o h.made

\* Mutant of WriteToUser: no `if (request->status != S3StatusOK) return 0`.
WriteToUserUnchecked ==
  \E h \in HeadersDone, s \in CallbackStatuses :
    /\ Success(h.code) /\ "fromS3" \in registered
    /\ Write(h) /\ WriteResult(s)
    /\ calls' = calls \o h.made \o Call("fromS3", s)
    /\ UNCHANGED errorCode

WriteToUser ==
  \E h \in HeadersDone, s \in CallbackStatuses :
    /\ h.status = "OK" /\ Success(h.code) /\ "fromS3" \in registered
    /\ Write(h) /\ WriteResult(s)
    /\ calls' = calls \o h.made \o Call("fromS3", s)
    /\ UNCHANGED errorCode

\* S3 sent data nobody asked for.
WriteUnexpected ==
  \E h \in HeadersDone :
    /\ h.status = "OK" /\ Success(h.code) /\ "fromS3" \notin registered
    /\ Write(h) /\ WriteResult("InternalError")
    /\ calls' = calls \o h.made
    /\ UNCHANGED errorCode

-----------------------------------------------------------------------------
(* The end of the transfer, and request_finish *)

\* The results curl can give at this point.
PossibleResults ==
  CASE aborted = "read"  -> {"ABORTED_BY_CALLBACK"}
    [] aborted = "write" -> {"WRITE_ERROR"}
    [] OTHER ->
         {"OPERATION_TIMEDOUT", "RECV_ERROR", "OUT_OF_MEMORY"} \cup
         IF final THEN {"OK", "PARTIAL_FILE"}
         ELSE {"COULDNT_RESOLVE_HOST", "COULDNT_CONNECT", "PEER_FAILED_VERIFICATION"}

\* Mutant of CurlEnds: failed transfers are not taken from curl.
CurlEndsOnlyWell ==
  /\ phase = "transfer"
  /\ phase' = "ended"
  /\ curlResult' \in PossibleResults \cap {"OK"}
  /\ UNCHANGED <<registered, wireVars, chunks, aborted, status, headerVars,
                 uploadVars, errorCode, calls>>

\* curl_easy_perform returns, or process_request_context reads the message.
CurlEnds ==
  /\ phase = "transfer"
  /\ phase' = "ended"
  /\ curlResult' \in PossibleResults
  /\ status' = RecordCurlResult(status, curlResult')
  /\ UNCHANGED <<registered, wireVars, chunks, aborted, headerVars, uploadVars,
                 errorCode, calls>>

\* S3_destroy_request_context takes the request away from curl, at any point
\* outside a curl callback; curl may have given up already without
\* process_request_context having seen it.
Interrupt ==
  /\ phase = "transfer"
  /\ phase' = "ended"
  /\ curlResult' = "removed"
  /\ status' = "Interrupted"
  /\ UNCHANGED <<registered, wireVars, chunks, aborted, headerVars, uploadVars,
                 errorCode, calls>>

request_finish ==
  /\ phase = "ended"
  /\ phase' = "completed"
  /\ \E h \in HeadersDone :
       /\ httpResponseCode' = h.code
       /\ status' = FinalStatus(h.status, errorCode, h.code)
       /\ calls' = calls \o h.made \o Call("complete", status')
  /\ propertiesCallbackMade' = TRUE
  /\ UNCHANGED <<registered, wireVars, chunks, aborted, curlResult, uploadVars,
                 errorCode>>

Finished == phase = "completed" /\ UNCHANGED vars

Next ==
  \/ ReceiveInterim \/ ReceiveFinal
  \/ ReadAtEnd \/ ReadData \/ ReadAborted
  \/ WriteRefused \/ WriteErrorDocument \/ WriteToUser \/ WriteUnexpected
  \/ CurlEnds \/ Interrupt \/ request_finish
  \/ Finished

Spec == Init /\ [][Next]_vars

\* setup_curl makes curl give up on a transfer that stays slow for 15 seconds
\* (CURLOPT_LOW_SPEED_TIME), so that every transfer ends; what follows runs
\* in the same call.
FairSpec == Spec /\ WF_vars(CurlEnds) /\ WF_vars(request_finish)

-----------------------------------------------------------------------------
\* Every status the code of these callbacks can set or a callback return.
Statuses ==
  CallbackStatuses
    \cup {CurlCodeToStatus(code) : code \in CurlCodes}
    \cup {HttpCodeToStatus(code) : code \in 0 .. 599}
    \cup {"OK", "InternalError", "XmlParseFailure", "AbortedByCallback",
          "Interrupted", "ErrorListed", "ErrorUnknown"}

CallRecords ==
  [callback : {"toS3"}, result : -1 .. MaxLen]
    \cup [callback : {"properties", "fromS3", "complete"}, result : Statuses]

(* The type invariant. *)
TypeOK ==
  /\ registered \subseteq Callbacks
  /\ phase \in {"transfer", "ended", "completed"}
  /\ wireCode \in {0, 100, 307} \cup FinalCodes
  /\ final \in BOOLEAN /\ eof \in BOOLEAN /\ propertiesCallbackMade \in BOOLEAN
  /\ chunks \in 0 .. MaxChunks
  /\ aborted \in {"no", "read", "write"}
  /\ curlResult \in CurlCodes \cup {"none", "removed"}
  /\ httpResponseCode \in {0, 100, 307} \cup FinalCodes
  /\ toS3CallbackBytesRemaining \in 0 .. UploadSize
  /\ errorCode \in ErrorCodes
  /\ status \in Statuses
  /\ calls \in Seq(CallRecords)

IsCall(i, callback) == calls[i].callback = callback

\* A callback that told libs3 to abort the request.
IsAbort(i) ==
  CASE IsCall(i, "toS3") -> calls[i].result = -1
    [] OTHER             -> calls[i].result # "OK"

(* The complete callback is made once and is the last callback of a        *)
(* request (libs3.h, S3ResponseCompleteCallback); the properties callback  *)
(* is made at most once, and before any data, although the write callback  *)
(* and request_finish both call request_headers_done.                      *)
CallbacksInOrder ==
  /\ \A i \in DOMAIN calls :
       IsCall(i, "complete") <=> (phase = "completed" /\ i = Len(calls))
  /\ \A i, j \in DOMAIN calls :
       IsCall(i, "properties") /\ IsCall(j, "properties") => i = j
  /\ \A i \in DOMAIN calls :
       IsCall(i, "fromS3") /\ "properties" \in registered =>
         \E k \in 1 .. i - 1 : IsCall(k, "properties")

\* The status that a callback which aborts asks for (libs3.h).
Refusal(i) ==
  IF IsCall(i, "toS3") THEN "AbortedByCallback" ELSE calls[i].result

PropertiesAfter(i) ==
  \E k \in DOMAIN calls : k > i /\ IsCall(k, "properties")

(* Once any callback has asked to abort, no data callback is made; and the *)
(* status it asked for is the one the complete callback gets, unless the   *)
(* context was destroyed meanwhile.  The refusal of the upload callback    *)
(* can come before the headers; what request_finish makes of them then     *)
(* replaces it: InternalError, or the result of the properties callback.   *)
AbortIsFinal ==
  \A i \in DOMAIN calls : ~IsCall(i, "complete") /\ IsAbort(i) =>
    \A j \in i + 1 .. Len(calls) :
      /\ ~IsCall(j, "toS3") /\ ~IsCall(j, "fromS3")
      /\ IsCall(j, "complete") =>
           \/ calls[j].result \in {Refusal(i), "Interrupted"}
           \/ /\ IsCall(i, "toS3")
              /\ calls[j].result = "InternalError" \/ PropertiesAfter(i)

(* A request reported OK got a 2xx response (or the 100 that the code      *)
(* forgives), no error code, and no refusal: only that of the upload       *)
(* callback may have been forgotten, for a properties callback made after  *)
(* it.                                                                     *)
OkIsSuccess ==
  phase = "completed" /\ status = "OK" =>
    /\ Success(httpResponseCode) \/ httpResponseCode = 100
    /\ errorCode = "none"
    /\ \A i \in DOMAIN calls :
         IsAbort(i) => IsCall(i, "toS3") /\ PropertiesAfter(i)

(* A request that curl could not carry through is not reported OK, unless  *)
(* curl calls it PARTIAL_FILE, which request_curl_code_to_status forgives, *)
(* or request_finish is the first to process its headers and the           *)
(* properties callback it makes says OK.                                   *)
FailureReported ==
  [][phase = "ended" /\ curlResult \notin {"OK", "PARTIAL_FILE"} =>
       \/ status' # "OK"
       \/ calls' = calls \o Call("properties", "OK") \o Call("complete", "OK")]_phase

(* Every request completes: the complete callback is always made.          *)
EveryRequestCompletes == <>(phase = "completed")

-----------------------------------------------------------------------------
(* What libs3.h says, and the code does not do: a negative return of       *)
(* S3PutObjectDataCallback aborts the request with AbortedByCallback,      *)
(* "which will be pased to the response complete callback for this         *)
(* request".  request_finish may process the headers after it.             *)
UploadRefusalReported ==
  \A i, j \in DOMAIN calls :
    IsCall(i, "toS3") /\ IsAbort(i) /\ IsCall(j, "complete") =>
      calls[j].result \in {Refusal(i), "Interrupted"}

-----------------------------------------------------------------------------
(* The inductive invariant of the safety properties.                       *)

\* The callbacks that can be made only once the headers were processed, by a
\* call of request_headers_done.
HeadersFirst ==
  \A i \in DOMAIN calls :
    IsCall(i, "properties") \/ IsCall(i, "fromS3") => propertiesCallbackMade

PropertiesMade ==
  propertiesCallbackMade /\ Success(httpResponseCode)
    /\ "properties" \in registered =>
      \E i \in DOMAIN calls : IsCall(i, "properties")

\* A callback that asks to abort stops the transfer, ...
AbortStops ==
  \A i \in DOMAIN calls : ~IsCall(i, "complete") /\ IsAbort(i) => ~Transferring

\* ... and what it returned stays in Request.status.
AbortKept ==
  phase # "completed" =>
    \A i \in DOMAIN calls : IsAbort(i) => status \in {Refusal(i), "Interrupted"}

\* So does the failure of the transfer.
FailureKept ==
  phase = "ended" /\ curlResult \notin {"OK", "PARTIAL_FILE"} => status # "OK"

(* The four properties' invariant: they, and what a request has to         *)
(* remember between two of curl's callbacks for them to hold.              *)
IInv ==
  /\ TypeOK
  /\ HeadersFirst
  /\ PropertiesMade
  /\ AbortStops
  /\ AbortKept
  /\ FailureKept
  /\ CallbacksInOrder
  /\ AbortIsFinal
  /\ OkIsSuccess
=============================================================================
