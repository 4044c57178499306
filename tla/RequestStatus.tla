--------------------------- MODULE RequestStatus ---------------------------
(***************************************************************************)
(* How libs3 turns what curl and S3 report into an S3Status: the curl      *)
(* result (request_curl_code_to_status), the <Code> of an S3 error         *)
(* document (error_parser_convert_status) and the HTTP response code       *)
(* (request_finish), and which statuses S3_status_is_retryable names.      *)
(* A status is written without its S3Status prefix.                        *)
(***************************************************************************)
EXTENDS Integers

\* One curl result per class the code tells apart; RECV_ERROR and
\* ABORTED_BY_CALLBACK stand for those the switch leaves to its default.
CurlCodes ==
  {"OK", "OUT_OF_MEMORY", "COULDNT_RESOLVE_HOST", "COULDNT_CONNECT",
   "WRITE_ERROR", "OPERATION_TIMEDOUT", "PARTIAL_FILE",
   "PEER_FAILED_VERIFICATION", "RECV_ERROR", "ABORTED_BY_CALLBACK"}

CurlCodeToStatus(code) ==
  CASE code = "OUT_OF_MEMORY"                        -> "OutOfMemory"
    [] code = "COULDNT_RESOLVE_HOST"                 -> "NameLookupError"
    [] code = "COULDNT_CONNECT"                      -> "FailedToConnect"
    [] code \in {"WRITE_ERROR", "OPERATION_TIMEDOUT"} -> "ErrorRequestTimeout"
    [] code = "PARTIAL_FILE"                         -> "OK"
    [] code = "PEER_FAILED_VERIFICATION"             -> "ServerFailedVerification"
    [] OTHER                                         -> "InternalError"

\* Mutant of RecordCurlResult: the result is ignored.
RecordNoCurlResult(status, code) == status

\* The status recorded when curl is done with a transfer: one recorded before
\* is kept.
RecordCurlResult(status, code) ==
  IF code # "OK" /\ status = "OK" THEN CurlCodeToStatus(code) ELSE status

Success(httpCode) == httpCode \in 200 .. 299

HttpCodeToStatus(httpCode) ==
  CASE httpCode = 0   -> "ConnectionFailed"
    [] httpCode = 100 -> "OK"
    [] httpCode = 301 -> "ErrorPermanentRedirect"
    [] httpCode = 307 -> "HttpErrorMovedTemporarily"
    [] httpCode = 400 -> "HttpErrorBadRequest"
    [] httpCode = 403 -> "HttpErrorForbidden"
    [] httpCode = 404 -> "HttpErrorNotFound"
    [] httpCode = 405 -> "ErrorMethodNotAllowed"
    [] httpCode = 409 -> "HttpErrorConflict"
    [] httpCode = 411 -> "ErrorMissingContentLength"
    [] httpCode = 412 -> "ErrorPreconditionFailed"
    [] httpCode = 416 -> "ErrorInvalidRange"
    [] httpCode = 500 -> "ErrorInternalError"
    [] httpCode = 501 -> "ErrorNotImplemented"
    [] httpCode = 503 -> "ErrorSlowDown"
    [] OTHER          -> "HttpErrorUnknown"

\* What the <Code> of the error document says: nothing yet, a code that
\* error_parser_convert_status lists, or one it does not.
ErrorCodes == {"none", "listed", "unlisted"}

ConvertErrorCode(errorCode, status) ==
  CASE errorCode = "none"     -> status
    [] errorCode = "listed"   -> "ErrorListed"
    [] errorCode = "unlisted" -> "ErrorUnknown"

\* Mutant of FinalStatus: the HTTP response code is not looked at.
FinalStatusNoHttp(status, errorCode, httpCode) ==
  IF status # "OK" THEN status ELSE ConvertErrorCode(errorCode, status)

\* The status request_finish reports, from the one it has after
\* request_headers_done.
FinalStatus(status, errorCode, httpCode) ==
  LET converted == IF status = "OK" THEN ConvertErrorCode(errorCode, status)
                   ELSE status
  IN  IF converted # "OK" \/ Success(httpCode) THEN converted
      ELSE HttpCodeToStatus(httpCode)

Retryable ==
  {"NameLookupError", "FailedToConnect", "ConnectionFailed",
   "ErrorInternalError", "ErrorOperationAborted", "ErrorRequestTimeout"}
=============================================================================
