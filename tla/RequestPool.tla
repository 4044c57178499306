---------------------------- MODULE RequestPool ----------------------------
(***************************************************************************)
(* The pool of idle Request structures of src/src/request.c, and the       *)
(* global mutex that guards it.                                            *)
(*                                                                         *)
(* A Request carries a CURL easy handle, hence an open connection, so a    *)
(* finished Request is kept on requestStackG for the next caller.  Every   *)
(* thread of the program takes Requests from the stack (request_get) and   *)
(* gives them back (request_release, at the end of request_finish); the    *)
(* stack is shared by all threads and all request contexts.                *)
(*                                                                         *)
(* An action is one step of one thread between two points at which         *)
(* another thread can be seen: the mutex operations, the test of the       *)
(* count, the stack access, and the unlocked work on a Request the thread  *)
(* owns.  What a Request is used for in between is RequestLifecycle's and  *)
(* RequestContext's business.                                              *)
(***************************************************************************)
EXTENDS Integers

CONSTANTS
  Threads,             \* threads that call libs3
  Requests,            \* addresses malloc can return for a Request
  REQUEST_STACK_SIZE,  \* capacity of requestStackG
  NoRequest,           \* the null Request pointer
  NoThread             \* the mutex is not held

ASSUME PoolAssumption ==
  /\ REQUEST_STACK_SIZE \in Nat \ {0}
  /\ NoRequest \notin Requests
  /\ NoThread \notin Threads

VARIABLES
  apiUp,               \* request_api_initialize has run, deinitialize has not
  mutex,               \* holder of requestStackMutexG
  requestStackG,       \* the array
  requestStackCountG,  \* the number of its slots in use
  live,                \* Requests allocated and not freed
  slist,               \* Requests whose headers field owns a curl_slist
  leaked,              \* Requests that lost the pointer to their curl_slist
  pc,                  \* where each thread is
  request,             \* the local variable request of each thread
  inUse                \* Requests each thread got and has not released

vars == <<apiUp, mutex, requestStackG, requestStackCountG, live, slist, leaked,
          pc, request, inUse>>

poolVars == <<requestStackG, requestStackCountG>>
heapVars == <<live, slist, leaked>>

Slots == 0 .. REQUEST_STACK_SIZE - 1

\* The Requests that are on the stack.
Idle == {requestStackG[i] : i \in 0 .. requestStackCountG - 1}

\* The points at which a thread holds requestStackMutexG.
Locked == {"getTest", "getPop", "getUnlock", "putTest", "putStore", "putCount",
           "putUnlock", "putFull"}

Points == Locked \cup {"out", "getLock", "getReuse", "getNew", "setup",
                       "putLock", "destroy"}

Goto(t, from, to) == pc[t] = from /\ pc' = [pc EXCEPT ![t] = to]

Lock(t) == mutex = NoThread /\ mutex' = t

Unlock == mutex' = NoThread

Init ==
  /\ apiUp = FALSE
  /\ mutex = NoThread
  /\ requestStackG = [i \in Slots |-> NoRequest]
  /\ requestStackCountG = 0
  /\ live = {}
  /\ slist = {}
  /\ leaked = {}
  /\ pc = [t \in Threads |-> "out"]
  /\ request = [t \in Threads |-> NoRequest]
  /\ inUse = [t \in Threads |-> {}]

-----------------------------------------------------------------------------
(* request_api_initialize and request_api_deinitialize.  The program calls *)
(* the second only when it is done with the library (libs3.h, Threading    *)
(* Rules and S3_deinitialize): no thread is inside a call and none has a   *)
(* request in progress.                                                    *)

ApiInitialize ==
  /\ ~apiUp
  /\ apiUp' = TRUE
  /\ mutex' = NoThread
  /\ requestStackCountG' = 0
  /\ UNCHANGED <<requestStackG, heapVars, pc, request, inUse>>

\* `while (requestStackCountG--)` leaves the count at -1.
ApiDeinitialize ==
  /\ apiUp
  /\ \A t \in Threads : pc[t] = "out" /\ inUse[t] = {}
  /\ apiUp' = FALSE
  /\ requestStackCountG' = -1
  /\ live' = live \ Idle
  /\ slist' = slist \ Idle
  /\ UNCHANGED <<mutex, requestStackG, leaked, pc, request, inUse>>

-----------------------------------------------------------------------------
(* request_get *)

\* A thread enters request_perform and reaches request_get.
GetCall(t) ==
  /\ apiUp
  /\ Goto(t, "out", "getLock")
  /\ UNCHANGED <<apiUp, mutex, poolVars, heapVars, request, inUse>>

GetLock(t) ==
  /\ Goto(t, "getLock", "getTest")
  /\ Lock(t)
  /\ UNCHANGED <<apiUp, poolVars, heapVars, request, inUse>>

GetTest(t) ==
  /\ Goto(t, "getTest", IF requestStackCountG # 0 THEN "getPop" ELSE "getUnlock")
  /\ UNCHANGED <<apiUp, mutex, poolVars, heapVars, request, inUse>>

\* Mutant of GetPop: `requestStackG[requestStackCountG - 1]`, no decrement.
GetPopKeepsCount(t) ==
  /\ Goto(t, "getPop", "getUnlock")
  /\ request' = [request EXCEPT ![t] = requestStackG[requestStackCountG - 1]]
  /\ UNCHANGED <<apiUp, mutex, poolVars, heapVars, inUse>>

\* Mutant of GetPop: the oldest Request is taken, the newest moved in its place.
GetPopOldest(t) ==
  /\ Goto(t, "getPop", "getUnlock")
  /\ requestStackCountG' = requestStackCountG - 1
  /\ request' = [request EXCEPT ![t] = requestStackG[0]]
  /\ requestStackG' = [requestStackG EXCEPT ![0] = requestStackG[requestStackCountG - 1]]
  /\ UNCHANGED <<apiUp, mutex, heapVars, inUse>>

GetPop(t) ==
  /\ Goto(t, "getPop", "getUnlock")
  /\ requestStackCountG' = requestStackCountG - 1
  /\ request' = [request EXCEPT ![t] = requestStackG[requestStackCountG - 1]]
  /\ UNCHANGED <<apiUp, mutex, requestStackG, heapVars, inUse>>

GetUnlock(t) ==
  /\ Goto(t, "getUnlock", IF request[t] # NoRequest THEN "getReuse" ELSE "getNew")
  /\ Unlock
  /\ UNCHANGED <<apiUp, poolVars, heapVars, request, inUse>>

\* Mutant of GetReuse: the headers of the previous use are not freed.
GetReuseKeepsHeaders(t) ==
  /\ Goto(t, "getReuse", "setup")
  /\ UNCHANGED <<apiUp, mutex, poolVars, heapVars, request, inUse>>

\* request_deinitialize: free the headers of the previous use.
GetReuse(t) ==
  /\ Goto(t, "getReuse", "setup")
  /\ slist' = slist \ {request[t]}
  /\ UNCHANGED <<apiUp, mutex, poolVars, live, leaked, request, inUse>>

\* malloc and curl_easy_init.
GetNew(t) ==
  /\ Goto(t, "getNew", "setup")
  /\ \E r \in Requests \ live :
       /\ live' = live \cup {r}
       /\ request' = [request EXCEPT ![t] = r]
  /\ UNCHANGED <<apiUp, mutex, poolVars, slist, leaked, inUse>>

\* One of the two fails; what the first one allocated is freed.
GetNewFails(t) ==
  /\ Goto(t, "getNew", "out")
  /\ UNCHANGED <<apiUp, mutex, poolVars, heapVars, request, inUse>>

\* `request->headers = 0`, compose_uri, setup_curl and the setup callback all
\* succeed: the caller has its Request.
GetReturn(t) ==
  /\ Goto(t, "setup", "out")
  /\ leaked' = leaked \cup (slist \cap {request[t]})
  /\ slist' = slist \cup {request[t]}
  /\ inUse' = [inUse EXCEPT ![t] = @ \cup {request[t]}]
  /\ request' = [request EXCEPT ![t] = NoRequest]
  /\ UNCHANGED <<apiUp, mutex, poolVars, live>>

\* Mutant of GetReturnFails: no `return status` after the free.
GetReturnFailsGoesOn(t) ==
  /\ Goto(t, "setup", "out")
  /\ leaked' = leaked \cup {request[t]}
  /\ live' = live \ {request[t]}
  /\ slist' = slist \ {request[t]}
  /\ inUse' = [inUse EXCEPT ![t] = @ \cup {request[t]}]
  /\ request' = [request EXCEPT ![t] = NoRequest]
  /\ UNCHANGED <<apiUp, mutex, poolVars>>

\* compose_uri, setup_curl or the setup callback fails: the Request is freed
\* with its curl handle, but the headers setup_curl had built are not.
GetReturnFails(t) ==
  /\ Goto(t, "setup", "out")
  /\ \E headersBuilt \in BOOLEAN :
       leaked' = IF headersBuilt \/ request[t] \in slist
                 THEN leaked \cup {request[t]} ELSE leaked
  /\ live' = live \ {request[t]}
  /\ slist' = slist \ {request[t]}
  /\ request' = [request EXCEPT ![t] = NoRequest]
  /\ UNCHANGED <<apiUp, mutex, poolVars, inUse>>

-----------------------------------------------------------------------------
(* request_release, and request_destroy when the stack is full *)

PutCall(t) ==
  /\ \E r \in inUse[t] :
       /\ request' = [request EXCEPT ![t] = r]
       /\ inUse' = [inUse EXCEPT ![t] = @ \ {r}]
  /\ Goto(t, "out", "putLock")
  /\ UNCHANGED <<apiUp, mutex, poolVars, heapVars>>

PutLock(t) ==
  /\ Goto(t, "putLock", "putTest")
  /\ Lock(t)
  /\ UNCHANGED <<apiUp, poolVars, heapVars, request, inUse>>

\* Mutant of PutTest: `>` for `==`, a full stack takes one more.
PutTestOffByOne(t) ==
  /\ Goto(t, "putTest",
          IF requestStackCountG > REQUEST_STACK_SIZE THEN "putFull" ELSE "putStore")
  /\ UNCHANGED <<apiUp, mutex, poolVars, heapVars, request, inUse>>

PutTest(t) ==
  /\ Goto(t, "putTest",
          IF requestStackCountG = REQUEST_STACK_SIZE THEN "putFull" ELSE "putStore")
  /\ UNCHANGED <<apiUp, mutex, poolVars, heapVars, request, inUse>>

\* `requestStackG[requestStackCountG++] = request`, the store and the increment.
PutStore(t) ==
  /\ Goto(t, "putStore", "putCount")
  /\ requestStackG' = [requestStackG EXCEPT ![requestStackCountG] = request[t]]
  /\ UNCHANGED <<apiUp, mutex, requestStackCountG, heapVars, request, inUse>>

PutCount(t) ==
  /\ Goto(t, "putCount", "putUnlock")
  /\ requestStackCountG' = requestStackCountG + 1
  /\ request' = [request EXCEPT ![t] = NoRequest]
  /\ UNCHANGED <<apiUp, mutex, requestStackG, heapVars, inUse>>

PutUnlock(t) ==
  /\ Goto(t, "putUnlock", "out")
  /\ Unlock
  /\ UNCHANGED <<apiUp, poolVars, heapVars, request, inUse>>

\* Mutant of PutFull: no pthread_mutex_unlock on the way to request_destroy.
PutFullKeepsLock(t) ==
  /\ Goto(t, "putFull", "destroy")
  /\ UNCHANGED <<apiUp, mutex, poolVars, heapVars, request, inUse>>

PutFull(t) ==
  /\ Goto(t, "putFull", "destroy")
  /\ Unlock
  /\ UNCHANGED <<apiUp, poolVars, heapVars, request, inUse>>

\* request_destroy, outside the lock.
Destroy(t) ==
  /\ Goto(t, "destroy", "out")
  /\ live' = live \ {request[t]}
  /\ slist' = slist \ {request[t]}
  /\ request' = [request EXCEPT ![t] = NoRequest]
  /\ UNCHANGED <<apiUp, mutex, poolVars, leaked, inUse>>

-----------------------------------------------------------------------------
Critical(t) ==
  \/ GetTest(t) \/ GetPop(t) \/ GetUnlock(t)
  \/ PutTest(t) \/ PutStore(t) \/ PutCount(t) \/ PutUnlock(t) \/ PutFull(t)

Step(t) ==
  \/ GetCall(t) \/ GetLock(t) \/ GetReuse(t) \/ GetNew(t) \/ GetNewFails(t)
  \/ GetReturn(t) \/ GetReturnFails(t)
  \/ PutCall(t) \/ PutLock(t) \/ Destroy(t)
  \/ Critical(t)

Next == ApiInitialize \/ ApiDeinitialize \/ \E t \in Threads : Step(t)

Spec == Init /\ [][Next]_vars

\* A thread that holds the mutex runs no callback and does no I/O: it is
\* always able to go on, and the scheduler eventually runs it.
FairSpec == Spec /\ \A t \in Threads : WF_vars(Critical(t))

-----------------------------------------------------------------------------
(* The type invariant. *)
TypeOK ==
  /\ apiUp \in BOOLEAN
  /\ mutex \in Threads \cup {NoThread}
  /\ requestStackG \in [Slots -> Requests \cup {NoRequest}]
  /\ requestStackCountG \in -1 .. REQUEST_STACK_SIZE
  /\ live \subseteq Requests
  /\ slist \subseteq Requests
  /\ leaked \subseteq Requests
  /\ pc \in [Threads -> Points]
  /\ request \in [Threads -> Requests \cup {NoRequest}]
  /\ inUse \in [Threads -> SUBSET Requests]

(* No Request has two owners: two slots of the stack, two threads, or the  *)
(* stack and a thread (request_get and request_release racing on           *)
(* requestStackG and requestStackCountG).                                  *)
ExclusiveOwnership ==
  /\ \A i, j \in 0 .. requestStackCountG - 1 :
       requestStackG[i] = requestStackG[j] => i = j
  /\ \A t \in Threads :
       /\ request[t] \notin Idle \cup inUse[t]
       /\ inUse[t] \cap Idle = {}
  /\ \A t, u \in Threads :
       t # u => /\ inUse[t] \cap inUse[u] = {}
                /\ request[t] \notin inUse[u]
                /\ request[t] = request[u] => request[t] = NoRequest

(* Whatever the stack holds or a thread uses is allocated memory: the      *)
(* stack never hands out a Request that request_destroy or a failing       *)
(* request_get has freed.                                                  *)
NoDanglingRequest ==
  /\ Idle \subseteq live
  /\ \A t \in Threads :
       /\ inUse[t] \subseteq live
       /\ request[t] # NoRequest => request[t] \in live

(* Every allocated Request is still owned by the stack or by a thread, so  *)
(* that request_get's and request_release's exits lose none.               *)
NoLostRequest ==
  live \subseteq Idle \cup {request[t] : t \in Threads}
                      \cup UNION {inUse[t] : t \in Threads}

(* The Requests that are allocated are those the stack holds and threads   *)
(* use: through reuse, full stacks, failures of request_get and            *)
(* request_api_deinitialize, none is freed too early and none is lost.     *)
LiveAreOwned == NoDanglingRequest /\ NoLostRequest

(* The only way to lose a header list is a request_get that fails after    *)
(* setup_curl has built it: reuse and destruction both free the list of    *)
(* the previous use.                                                       *)
HeadersLostOnlyInFailedSetup ==
  [][leaked' # leaked => \E t \in Threads : GetReturnFails(t)]_vars

(* No exit of request_get or request_release leaves the mutex locked: a    *)
(* thread that locks it eventually unlocks it.                             *)
MutexReleased == \A t \in Threads : mutex = t ~> mutex # t

-----------------------------------------------------------------------------
(* The inductive invariant of the safety properties.                       *)

\* While the library is down no thread is in a call and the stack is empty.
DownIsQuiet ==
  ~apiUp => /\ requestStackCountG <= 0
            /\ \A t \in Threads : pc[t] = "out" /\ inUse[t] = {}

\* The mutex is held exactly by the thread in a critical section.
MutualExclusion == \A t \in Threads : pc[t] \in Locked <=> mutex = t

\* What the tests made under the mutex say is still true when it is used.
TestsHold ==
  /\ apiUp => requestStackCountG >= 0
  /\ \A t \in Threads :
       /\ pc[t] = "getPop" => requestStackCountG > 0
       /\ pc[t] \in {"putStore", "putCount"} =>
            requestStackCountG < REQUEST_STACK_SIZE
       /\ pc[t] = "putCount" => requestStackG[requestStackCountG] = request[t]

\* Where the local variable request points somewhere, and where it does not.
LocalRequest ==
  \A t \in Threads :
    /\ pc[t] \in {"out", "getLock", "getTest", "getPop", "getNew", "putUnlock"} =>
         request[t] = NoRequest
    /\ pc[t] \in {"getReuse", "setup", "putLock", "putTest", "putStore",
                  "putCount", "putFull", "destroy"} => request[t] # NoRequest

\* Header lists belong to allocated Requests, and a Request that is being set
\* up has none.
HeadersOwned ==
  /\ slist \subseteq live
  /\ \A t \in Threads : pc[t] = "setup" => request[t] \notin slist

IInv ==
  /\ TypeOK
  /\ DownIsQuiet
  /\ MutualExclusion
  /\ TestsHold
  /\ LocalRequest
  /\ HeadersOwned
  /\ ExclusiveOwnership
  /\ NoDanglingRequest
  /\ NoLostRequest

-----------------------------------------------------------------------------
(* The pool as it is promised.                                             *)

\* The stack as a sequence; the count is -1 after request_api_deinitialize.
IdleSequence == [i \in 1 .. requestStackCountG |-> requestStackG[i - 1]]

Abstract == INSTANCE IdlePool
  WITH Capacity <- REQUEST_STACK_SIZE, idle <- IdleSequence, busy <- live \ Idle

(* The stack under its mutex is a LIFO of idle Requests: every step of a   *)
(* thread is one of IdlePool's steps on it, or leaves it as it is.         *)
ImplementsIdlePool == Abstract!Spec
=============================================================================
