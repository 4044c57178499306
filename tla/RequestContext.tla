--------------------------- MODULE RequestContext ---------------------------
(***************************************************************************)
(* A request context (src/src/request_context.c) and the requests that     *)
(* request_perform adds to it: the circular list of Requests, the curl     *)
(* multi handle that runs them, the functions that run, process and        *)
(* destroy the context, and the user code that runs inside complete        *)
(* callbacks and may issue further requests on the same context.           *)
(*                                                                         *)
(* A context is used by one thread at a time (libs3.h, Threading Rules),   *)
(* so there is a single point of control, pc.  A Request comes from and    *)
(* goes back to the pool of module RequestPool, here any Request not in    *)
(* use: the pool may return the one just released, or a new one.  What     *)
(* happens during a transfer is module RequestLifecycle's subject; here a  *)
(* transfer receives its headers and is done.                              *)
(***************************************************************************)
EXTENDS RequestStatus, FiniteSets, Sequences

CONSTANTS
  Calls,                   \* the requests the application makes, one each
  Requests,                \* the Request structures
  NoCall, NoRequest,
  MaxPending,              \* the application's bound on calls not completed
  Results,                 \* curl results of a transfer
  Adverse,                 \* values of adverse
  MaxAdverseCalls          \* bound: calls made when curl fails

ASSUME ContextAssumption ==
  /\ NoCall \notin Calls /\ NoRequest \notin Requests
  /\ MaxPending \in Nat \ {0}
  /\ Results \subseteq CurlCodes
  /\ Adverse \subseteq SUBSET {"curl", "verifyPeer", "destroy"}
  /\ MaxAdverseCalls \in Nat

VARIABLES
  \* S3RequestContext
  requests,        \* head of the list
  curl_mode,       \* "MultiPerform" or "MultiSocket"
  verifyPeerSet, verifyPeer,
  \* the curl multi handle
  running,         \* Requests whose transfer goes on
  messages,        \* completions not read yet, in no order: [request, result]
  \* the Requests
  prev, next, status, propertiesCallbackMade,
  wireCode,        \* HTTP response code received, 0 if none
  sslVerify,       \* CURLOPT_SSL_VERIFYPEER of the curl handle
  call,            \* callbackData: the call a Request serves, or served last
  inUse,           \* Requests got from the pool and not released
  leaked,          \* Requests request_perform forgets: nothing refers to them
  \* the application
  submitted,       \* calls made
  reported,        \* statuses passed to each call's complete callback
  forgotten,       \* calls whose Request the context lost sight of
  \* control
  adverse,         \* what is hard in this behaviour: curl's own functions may
                   \* return an error, the verifyPeer flags take all values,
                   \* complete callbacks of S3_destroy_request_context issue
                   \* requests
  globalVerifyPeer,
  pc, op, current, rFirst, rNext, retry, requestsRemaining, returned

contextVars == <<requests, curl_mode, verifyPeerSet, verifyPeer>>
multiVars   == <<running, messages>>
links       == <<prev, next>>
transfer    == <<status, propertiesCallbackMade, wireCode, sslVerify>>
owners      == <<call, inUse, leaked>>
appVars     == <<submitted, reported, forgotten>>
settings    == <<adverse, globalVerifyPeer>>
control     == <<pc, op, current, rFirst, rNext, retry, requestsRemaining, returned>>

vars == <<contextVars, multiVars, links, transfer, owners, appVars, settings, control>>

Attached == running \cup {m.request : m \in messages}

Pending == {c \in submitted : reported[c] = <<>>}

\* The Requests on the list: those in every set that holds its head and with
\* a Request the next one.
Listed ==
  {r \in Requests :
     \A S \in SUBSET Requests :
       ({requests} \cup {next[s] : s \in S}) \ {NoRequest} \subseteq S => r \in S}

\* Requests the pool can return.
Available == Requests \ (inUse \cup leaked)

Init ==
  /\ requests = NoRequest
  /\ curl_mode \in {"MultiPerform", "MultiSocket"}
  /\ verifyPeerSet = FALSE /\ verifyPeer = FALSE
  /\ running = {} /\ messages = {}
  /\ prev = [r \in Requests |-> NoRequest]
  /\ next = [r \in Requests |-> NoRequest]
  /\ status = [r \in Requests |-> "OK"]
  /\ propertiesCallbackMade = [r \in Requests |-> FALSE]
  /\ wireCode = [r \in Requests |-> 0]
  /\ sslVerify = [r \in Requests |-> FALSE]
  /\ call = [r \in Requests |-> NoCall]
  /\ inUse = {}
  /\ leaked = {}
  /\ submitted = {}
  /\ reported = [c \in Calls |-> <<>>]
  /\ forgotten = {}
  /\ adverse \in Adverse
  /\ globalVerifyPeer \in IF "verifyPeer" \in adverse THEN BOOLEAN ELSE {TRUE}
  /\ pc = "user" /\ op = "none"
  /\ current = NoRequest /\ rFirst = NoRequest /\ rNext = NoRequest
  /\ retry = FALSE
  /\ requestsRemaining = 0
  /\ returned = "OK"

S3_set_request_context_verify_peer(flag) ==
  /\ "verifyPeer" \in adverse /\ pc = "user"
  /\ verifyPeerSet' = TRUE
  /\ verifyPeer' = flag
  /\ UNCHANGED <<requests, curl_mode, multiVars, links, transfer, owners,
                 appVars, settings, control>>

-----------------------------------------------------------------------------
(* request_perform, called by the application's own code or by one of its  *)
(* complete callbacks                                                      *)

Submit(c) ==
  /\ pc \in {"user", "callback"}
  /\ op = "destroy" => "destroy" \in adverse
  /\ "curl" \in adverse => Cardinality(submitted) < MaxAdverseCalls
  /\ c \notin submitted
  /\ Cardinality(Pending) < MaxPending
  /\ submitted' = submitted \cup {c}
  /\ UNCHANGED <<curl_mode, verifyPeerSet, verifyPeer, messages, settings,
                 op, current, rFirst, rNext, retry, requestsRemaining, returned>>

\* The history keeps the first two statuses: enough to see a second one.
Report(c, s) ==
  reported' = [reported EXCEPT ![c] = IF Len(@) < 2 THEN Append(@, s) ELSE @]

\* setup_request or request_get fails.
SubmitRejected(c) ==
  /\ Submit(c)
  /\ Report(c, "FailedToInitializeRequest")
  /\ UNCHANGED <<requests, running, links, transfer, owners, forgotten, pc>>

\* Mutant of OverridesVerifyPeer: `verifyPeerRequest = context->verifyPeerSet`
\* without testing that it is set.
OverridesAlways == verifyPeerSet # globalVerifyPeer

\* request_get, and the per-context override of verifyPeer: the handle's
\* option is changed only if verifyPeerSet differs from the global flag.
OverridesVerifyPeer == verifyPeerSet /\ verifyPeerSet # globalVerifyPeer

Prepare(r) ==
  /\ r \in Available
  /\ status' = [status EXCEPT ![r] = "OK"]
  /\ propertiesCallbackMade' = [propertiesCallbackMade EXCEPT ![r] = FALSE]
  /\ wireCode' = [wireCode EXCEPT ![r] = 0]
  /\ sslVerify' = [sslVerify EXCEPT
       ![r] = IF OverridesVerifyPeer THEN verifyPeer ELSE globalVerifyPeer]

\* request_get has cleared the links of r: the list is read after that.
LinkAfterClearing(r) ==
  LET clearedPrev == [prev EXCEPT ![r] = NoRequest]
      clearedNext == [next EXCEPT ![r] = NoRequest]
      last        == clearedPrev[requests]
  IN  IF requests = NoRequest
      THEN /\ prev' = [clearedPrev EXCEPT ![r] = r]
           /\ next' = [clearedNext EXCEPT ![r] = r]
           /\ requests' = r
           /\ UNCHANGED pc
      ELSE /\ prev' = [clearedPrev EXCEPT ![r] = last, ![requests] = r]
           /\ UNCHANGED requests
           /\ IF last = NoRequest  \* `requests->prev->next` with a null prev
              THEN next' = clearedNext /\ pc' = "crashed"
              ELSE next' = [clearedNext EXCEPT ![r] = requests, ![last] = r]
                   /\ UNCHANGED pc

\* While S3_destroy_request_context goes through the list it may come past
\* the new Request or not.
SubmitAdded(c) ==
  \E r \in Requests :
    /\ Submit(c)
    /\ Prepare(r)
    /\ LinkAfterClearing(r)
    /\ running' = running \cup {r}
    /\ call' = [call EXCEPT ![r] = c]
    /\ inUse' = inUse \cup {r}
    /\ forgotten' = IF op = "destroy" THEN forgotten \cup {c} ELSE forgotten
    /\ UNCHANGED <<leaked, reported>>

\* curl_multi_add_handle fails: request_finish is called at once.
SubmitNotAdded(c) ==
  \E r \in Requests :
    /\ "curl" \in adverse
    /\ Submit(c)
    /\ Prepare(r)
    /\ prev' = [prev EXCEPT ![r] = NoRequest]
    /\ next' = [next EXCEPT ![r] = NoRequest]
    /\ \E s \in {"OutOfMemory", "InternalError"} : Report(c, FinalStatus(s, "none", 0))
    /\ call' = [call EXCEPT ![r] = c]
    /\ UNCHANGED <<requests, running, inUse, leaked, forgotten, pc>>

\* Changing the option fails: the call is reported, the Request forgotten.
SubmitOptionFails(c) ==
  \E r \in Requests :
    /\ "curl" \in adverse /\ OverridesVerifyPeer
    /\ Submit(c)
    /\ Prepare(r)
    /\ prev' = [prev EXCEPT ![r] = NoRequest]
    /\ next' = [next EXCEPT ![r] = NoRequest]
    /\ leaked' = leaked \cup {r}
    /\ Report(c, "FailedToInitializeRequest")
    /\ call' = [call EXCEPT ![r] = c]
    /\ UNCHANGED <<requests, running, inUse, forgotten, pc>>

request_perform(c) ==
  SubmitRejected(c) \/ SubmitAdded(c) \/ SubmitNotAdded(c) \/ SubmitOptionFails(c)

-----------------------------------------------------------------------------
(* curl.  It makes progress inside curl_multi_perform, or inside the       *)
(* application's curl_multi_socket_action.                                 *)

CurlActive == pc = "perform" \/ (pc = "user" /\ curl_mode = "MultiSocket")

ReceiveHeaders(r) ==
  /\ CurlActive /\ r \in running /\ wireCode[r] = 0
  /\ \E code \in {200, 404} : wireCode' = [wireCode EXCEPT ![r] = code]
  /\ UNCHANGED <<contextVars, multiVars, links, status, propertiesCallbackMade,
                 sslVerify, owners, appVars, settings, control>>

\* The first data of a successful response makes the properties callback.
ReceiveData(r) ==
  /\ CurlActive /\ r \in running /\ wireCode[r] = 200
  /\ ~propertiesCallbackMade[r]
  /\ propertiesCallbackMade' = [propertiesCallbackMade EXCEPT ![r] = TRUE]
  /\ UNCHANGED <<contextVars, multiVars, links, status, wireCode, sslVerify,
                 owners, appVars, settings, control>>

TransferDone(r) ==
  /\ CurlActive /\ r \in running
  /\ running' = running \ {r}
  /\ \E result \in Results :
       /\ result = "OK" => wireCode[r] # 0
       /\ messages' = messages \cup {[request |-> r, result |-> result]}
  /\ UNCHANGED <<contextVars, links, transfer, owners, appVars,
                 settings, control>>

-----------------------------------------------------------------------------
(* S3_runonce_request_context, S3_runall_request_context and               *)
(* S3_process_request_context                                              *)

Enter(function, at) ==
  /\ pc = "user"
  /\ op' = function
  /\ pc' = at
  /\ retry' = FALSE
  /\ UNCHANGED <<contextVars, multiVars, links, transfer, owners, appVars,
                 settings, current, rFirst, rNext, requestsRemaining,
                 returned>>

S3_runonce_request_context == Enter("runonce", "perform")
S3_runall_request_context  == Enter("runall", "perform")
S3_process_request_context == Enter("process", "process")

Leave(s) ==
  /\ pc' = "user"
  /\ op' = "none"
  /\ returned' = s
  /\ retry' = FALSE

\* Mutant of PerformReturns: retry is not reset.
PerformKeepsRetry ==
  /\ pc = "perform"
  /\ pc' = "process"
  /\ requestsRemaining' = Cardinality(running)
  /\ UNCHANGED <<contextVars, multiVars, links, transfer, owners, appVars,
                 settings, op, current, rFirst, rNext, retry, returned>>

PerformReturns ==
  /\ pc = "perform"
  /\ pc' = "process"
  /\ requestsRemaining' = Cardinality(running)
  /\ retry' = FALSE
  /\ UNCHANGED <<contextVars, multiVars, links, transfer, owners, appVars,
                 settings, op, current, rFirst, rNext, returned>>

\* curl_multi_fdset or curl_multi_perform returns an error.
PerformFails ==
  /\ "curl" \in adverse /\ pc = "perform"
  /\ \E s \in {"OutOfMemory", "InternalError"} : Leave(s)
  /\ UNCHANGED <<contextVars, multiVars, links, transfer, owners, appVars,
                 settings, current, rFirst, rNext, requestsRemaining>>

\* Mutant of Unlink: the next Request's prev is not corrected.
UnlinkForwardOnly(r) ==
  IF prev[r] = next[r]
  THEN requests' = NoRequest /\ UNCHANGED links
  ELSE /\ requests' = next[r]
       /\ next' = [next EXCEPT ![prev[r]] = next[r]]
       /\ UNCHANGED prev

\* Mutant of Unlink: the only Request of the list is not treated apart.
UnlinkKeepsLast(r) ==
  /\ requests' = next[r]
  /\ next' = [next EXCEPT ![prev[r]] = next[r]]
  /\ prev' = [prev EXCEPT ![next[r]] = prev[r]]

\* The Request is taken from the list.
Unlink(r) ==
  IF prev[r] = next[r]
  THEN requests' = NoRequest /\ UNCHANGED links
  ELSE /\ requests' = next[r]
       /\ next' = [next EXCEPT ![prev[r]] = next[r]]
       /\ prev' = [prev EXCEPT ![next[r]] = prev[r]]

\* The calls of the Requests that are lost when r is taken from the list: of
\* two, Unlink takes one for the only one, and a Request that was lost before
\* takes the head of the list to where it is itself.
Dropped(r) ==
  IF prev[r] = next[r] \/ r \notin Listed
  THEN {call[s] : s \in Listed \ {r}}
  ELSE {}

\* Mutant of ProcessMessage: retry is not set after a callback.
ProcessMessageNoRetry ==
  /\ pc = "process"
  /\ \E m \in messages :
       /\ messages' = messages \ {m}
       /\ Unlink(m.request)
       /\ status' = [status EXCEPT ![m.request] = RecordCurlResult(@, m.result)]
       /\ current' = m.request
       /\ forgotten' = forgotten \cup Dropped(m.request)
  /\ pc' = "finish"
  /\ UNCHANGED <<curl_mode, verifyPeerSet, verifyPeer, running, propertiesCallbackMade,
                 wireCode, sslVerify, owners, submitted, reported, settings, op,
                 rFirst, rNext, retry, requestsRemaining, returned>>

\* One round of the loop of process_request_context, up to request_finish.
ProcessMessage ==
  /\ pc = "process"
  /\ \E m \in messages :
       /\ messages' = messages \ {m}
       /\ Unlink(m.request)
       /\ status' = [status EXCEPT ![m.request] = RecordCurlResult(@, m.result)]
       /\ \/ /\ current' = m.request
             /\ pc' = "finish"
             /\ retry' = TRUE
             /\ forgotten' = forgotten \cup Dropped(m.request)
             /\ UNCHANGED <<op, returned>>
          \/ /\ "curl" \in adverse  \* curl_multi_remove_handle fails
             /\ Leave("InternalError")
             /\ forgotten' = forgotten \cup Dropped(m.request) \cup {call[m.request]}
             /\ UNCHANGED current
  /\ UNCHANGED <<curl_mode, verifyPeerSet, verifyPeer, running, propertiesCallbackMade,
                 wireCode, sslVerify, owners, submitted, reported, settings, rFirst,
                 rNext, requestsRemaining>>

\* curl_easy_getinfo fails: the message is gone, the Request still listed.
ProcessFails ==
  /\ "curl" \in adverse /\ pc = "process"
  /\ \E m \in messages : messages' = messages \ {m}
  /\ Leave("InternalError")
  /\ UNCHANGED <<contextVars, running, links, transfer, owners, appVars,
                 settings, current, rFirst, rNext, requestsRemaining>>

\* No more messages: perform again after a callback was made, or for
\* S3_runall_request_context while transfers are running; else return.
ProcessDone ==
  /\ pc = "process" /\ messages = {}
  /\ IF op # "process" /\ (retry \/ (op = "runall" /\ requestsRemaining # 0))
     THEN pc' = "perform" /\ UNCHANGED <<op, returned, retry>>
     ELSE Leave("OK")
  /\ UNCHANGED <<contextVars, multiVars, links, transfer, owners, appVars,
                 settings, current, rFirst, rNext, requestsRemaining>>

-----------------------------------------------------------------------------
(* S3_destroy_request_context *)

\* Mutant of S3_destroy_request_context: the context is freed, nothing else.
DestroyOnlyFrees ==
  /\ pc = "user"
  /\ op' = "destroy"
  /\ rFirst' = requests
  /\ current' = requests
  /\ pc' = "freed"
  /\ UNCHANGED <<contextVars, multiVars, links, transfer, owners, appVars,
                 settings, rNext, retry, requestsRemaining, returned>>

S3_destroy_request_context ==
  /\ pc = "user"
  /\ op' = "destroy"
  /\ rFirst' = requests
  /\ current' = requests
  /\ pc' = IF requests = NoRequest THEN "freed" ELSE "destroy"
  /\ UNCHANGED <<contextVars, multiVars, links, transfer, owners, appVars,
                 settings, rNext, retry, requestsRemaining, returned>>

\* Mutant of DestroyNext: no curl_multi_remove_handle.
DestroyNextKeepsHandle ==
  /\ pc = "destroy"
  /\ status' = [status EXCEPT ![current] = "Interrupted"]
  /\ rNext' = next[current]
  /\ pc' = "finish"
  /\ UNCHANGED <<contextVars, multiVars, links, propertiesCallbackMade, wireCode,
                 sslVerify, owners, appVars, settings, op, current, rFirst,
                 retry, requestsRemaining, returned>>

\* One round of its loop, up to request_finish.
DestroyNext ==
  /\ pc = "destroy"
  /\ status' = [status EXCEPT ![current] = "Interrupted"]
  /\ running' = running \ {current}
  /\ messages' = {m \in messages : m.request # current}
  /\ rNext' = next[current]
  /\ pc' = "finish"
  /\ UNCHANGED <<contextVars, links, propertiesCallbackMade, wireCode, sslVerify,
                 owners, appVars, settings, op, current, rFirst, retry,
                 requestsRemaining, returned>>

-----------------------------------------------------------------------------
(* request_finish: the callbacks, the user code in the complete callback,  *)
(* and request_release when it returns                                     *)

Finish ==
  /\ pc = "finish"
  /\ \E ret \in {"OK", "AbortedByCallback"} :
       LET first == ~propertiesCallbackMade[current] /\ Success(wireCode[current])
           s     == FinalStatus(IF first THEN ret ELSE status[current],
                                "none", wireCode[current])
       IN  /\ status' = [status EXCEPT ![current] = s]
           /\ Report(call[current], s)
  /\ propertiesCallbackMade' = [propertiesCallbackMade EXCEPT ![current] = TRUE]
  /\ pc' = "callback"
  /\ UNCHANGED <<contextVars, multiVars, links, wireCode, sslVerify, owners,
                 submitted, forgotten, settings, op, current, rFirst, rNext,
                 retry, requestsRemaining, returned>>

\* Mutant of Release: the loop of S3_destroy_request_context waits for a null
\* next, as for a list that is not circular.
ReleaseUntilNull ==
  /\ pc = "callback"
  /\ inUse' = inUse \ {current}
  /\ IF op = "destroy"
     THEN /\ pc' = IF rNext = NoRequest THEN "freed" ELSE "destroy"
          /\ current' = rNext
     ELSE pc' = "process" /\ current' = NoRequest
  /\ UNCHANGED <<contextVars, multiVars, links, transfer, call, leaked, appVars,
                 settings, op, rFirst, rNext, retry, requestsRemaining,
                 returned>>

Release ==
  /\ pc = "callback"
  /\ inUse' = inUse \ {current}
  /\ IF op = "destroy"
     THEN /\ pc' = IF rNext = rFirst THEN "freed" ELSE "destroy"
          /\ current' = rNext
     ELSE pc' = "process" /\ current' = NoRequest
  /\ UNCHANGED <<contextVars, multiVars, links, transfer, call, leaked, appVars,
                 settings, op, rFirst, rNext, retry, requestsRemaining,
                 returned>>

\* After S3_destroy_request_context, or a crash, nothing happens.
Stopped == pc \in {"freed", "crashed"} /\ UNCHANGED vars

-----------------------------------------------------------------------------
Next ==
  \/ \E c \in Calls : request_perform(c)
  \/ \E flag \in BOOLEAN : S3_set_request_context_verify_peer(flag)
  \/ \E r \in Requests : ReceiveHeaders(r) \/ ReceiveData(r) \/ TransferDone(r)
  \/ S3_runonce_request_context \/ S3_runall_request_context
  \/ S3_process_request_context
  \/ PerformReturns \/ PerformFails
  \/ ProcessMessage \/ ProcessFails \/ ProcessDone
  \/ S3_destroy_request_context \/ DestroyNext
  \/ Finish \/ Release
  \/ Stopped

Spec == Init /\ [][Next]_vars

Library ==
  PerformReturns \/ ProcessMessage \/ ProcessDone \/ DestroyNext \/ Finish \/ Release

\* The library's code runs to its next return; user callbacks return; and
\* every transfer that curl gets to run ends (CURLOPT_LOW_SPEED_TIME).
FairSpec ==
  /\ Spec
  /\ WF_vars(Library)
  /\ \A r \in Requests : SF_vars(TransferDone(r))

-----------------------------------------------------------------------------
(* No call is completed twice, whatever runs, fails or is destroyed; and   *)
(* none is completed that was not made.                                    *)
CompletedAtMostOnce ==
  \A c \in Calls : /\ Len(reported[c]) <= 1
                   /\ c \notin submitted => reported[c] = <<>>

(* The list is a ring of Requests that are in use: neither adding to it    *)
(* nor removing from it ever leaves a released Request where               *)
(* S3_destroy_request_context would finish it again.                       *)
ListIsRing ==
  op # "destroy" =>
    \A r \in Listed : /\ r \in inUse
                      /\ next[prev[r]] = r /\ prev[next[r]] = r
                      /\ reported[call[r]] = <<>>

(* Two Requests never serve the same call, and a Request that curl runs or *)
(* has a message for is in use: a message is never read for a Request that *)
(* was given back to the pool.                                             *)
AttachedInUse ==
  /\ Attached \subseteq inUse
  /\ \A r, s \in inUse : call[r] = call[s] => r = s

(* When S3_runall_request_context returns S3StatusOK no call is left       *)
(* uncompleted, also those that complete callbacks made while it ran; but  *)
(* those that an error of curl's took off the list.                        *)
RunallDrains ==
  [][op = "runall" /\ op' = "none" /\ returned' = "OK" /\ "curl" \notin adverse
     => Pending = {}]_vars

(* A context told to verify the peer certificate does, one told nothing    *)
(* does what S3_initialize was told, and neither does what the last        *)
(* request on the same handle did.  A context told not to verify may still *)
(* do so: see ContextFlagUsed.                                             *)
VerificationNotWeakened ==
  [][\A r \in Requests : r \in running' \ running =>
       /\ verifyPeerSet /\ verifyPeer => sslVerify'[r]
       /\ ~verifyPeerSet => sslVerify'[r] = globalVerifyPeer
       /\ sslVerify'[r] \in {verifyPeer, globalVerifyPeer}]_running

(* S3_runall_request_context returns: nothing keeps it busy forever.       *)
RunallTerminates == op = "runall" ~> op # "runall"

(* S3_destroy_request_context only ever meets Requests whose calls are not *)
(* completed, also after a complete callback of its own has changed the    *)
(* list that it read the next one from: so it goes round as often as there *)
(* are calls, and ends.                                                    *)
DestroyMeetsLive ==
  pc = "destroy" => current \in inUse /\ reported[call[current]] = <<>>

Ledger == INSTANCE RequestLedger
  WITH phase       <- IF pc = "freed" THEN "closed"
                      ELSE IF op = "destroy" THEN "closing" ELSE "open",
       failing     <- "curl" \in adverse,
       outstanding <- Pending \ forgotten,
       forgotten   <- Pending \cap forgotten,
       completed   <- {c \in Calls : reported[c] # <<>>}

(* A context keeps the ledger, whatever callbacks issue and curl fails to  *)
(* do, in running as in destroying: of the calls that it does not complete *)
(* each was lost when another was taken from the list, or with an error of *)
(* curl's, or was made when the context was being destroyed.               *)
ImplementsRequestLedger == Ledger!Spec

-----------------------------------------------------------------------------
(* What libs3.h says, and the code does not do in every case.              *)

(* Destroying a context completes the requests in it.                      *)
DestroyCompletesAll == pc = "freed" => Pending = {}

(* "If this is called, the context's value of verifyPeer will be used": it *)
(* is not if S3_initialize was told to verify, as verifyPeerSet is         *)
(* compared with the global flag.                                          *)
ContextFlagUsed ==
  [][\A r \in Requests : r \in running' \ running /\ verifyPeerSet
       => sslVerify'[r] = verifyPeer]_running
=============================================================================
