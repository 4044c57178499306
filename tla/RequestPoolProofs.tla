-------------------------- MODULE RequestPoolProofs --------------------------
(***************************************************************************)
(* The safety properties of RequestPool, for any number of threads, any    *)
(* set of Requests and any size of the stack.                              *)
(*                                                                         *)
(* ExclusiveOwnership, NoDanglingRequest and NoLostRequest are not         *)
(* inductive.  IInv adds to them that the mutex excludes                   *)
(* (MutualExclusion), that what was tested under it still holds when the   *)
(* stack is accessed (TestsHold), when the local variable request points   *)
(* somewhere (LocalRequest), who owns the header lists (HeadersOwned) and  *)
(* that nothing goes on while the library is down (DownIsQuiet).  There is *)
(* one lemma per action that it preserves IInv, with a step for each       *)
(* conjunct the action can disturb and one for those it cannot.            *)
(***************************************************************************)
EXTENDS RequestPool, SequenceTheorems, TLAPS

\* The pool starts empty, the library down and every thread outside it.
LEMMA InitInv == Init => IInv
<1> SUFFICES ASSUME Init PROVE IInv
  OBVIOUS
<1> USE DEF Init
<1>1. TypeOK
  <2>1. requestStackG \in [Slots -> Requests \cup {NoRequest}] /\ requestStackCountG \in -1 .. REQUEST_STACK_SIZE
    BY PoolAssumption DEF Slots
  <2>2. pc \in [Threads -> Points] /\ request \in [Threads -> Requests \cup {NoRequest}]
    BY DEF Points
  <2> QED
    BY <2>1, <2>2 DEF TypeOK
<1>2. DownIsQuiet /\ MutualExclusion /\ TestsHold /\ LocalRequest /\ HeadersOwned
  BY PoolAssumption DEF DownIsQuiet, MutualExclusion, TestsHold, LocalRequest,
                        HeadersOwned, Locked
<1>3. ExclusiveOwnership /\ NoDanglingRequest /\ NoLostRequest
  BY DEF ExclusiveOwnership, NoDanglingRequest, NoLostRequest, Idle
<1> QED
  BY <1>1, <1>2, <1>3 DEF IInv

\* A step that changes nothing keeps everything.
LEMMA StutterInv ==
  ASSUME IInv, UNCHANGED vars
  PROVE  IInv'
<1> USE DEF IInv, vars, poolVars, heapVars
<1>1. TypeOK'
  BY DEF TypeOK
<1>2. DownIsQuiet' /\ MutualExclusion' /\ TestsHold' /\ LocalRequest' /\ HeadersOwned'
  BY DEF DownIsQuiet, MutualExclusion, TestsHold, LocalRequest, HeadersOwned
<1>3. ExclusiveOwnership' /\ NoDanglingRequest' /\ NoLostRequest'
  BY DEF ExclusiveOwnership, NoDanglingRequest, NoLostRequest, Idle
<1> QED
  BY <1>1, <1>2, <1>3

-----------------------------------------------------------------------------
(* request_api_initialize and request_api_deinitialize                     *)

\* While the library is down the stack is empty, so that setting its count to
\* 0 loses no Request.
LEMMA ApiInitializeInv ==
  ASSUME IInv, ApiInitialize
  PROVE  IInv'
<1> USE DEF IInv, ApiInitialize, heapVars
<1>1. Idle = {} /\ Idle' = {}
  BY PoolAssumption DEF TypeOK, DownIsQuiet, Idle
<1>2. TypeOK'
  BY PoolAssumption DEF TypeOK
<1>3. DownIsQuiet' /\ MutualExclusion' /\ TestsHold' /\ LocalRequest' /\ HeadersOwned'
  BY PoolAssumption DEF DownIsQuiet, MutualExclusion, TestsHold, LocalRequest,
                        HeadersOwned, Locked
<1>4. ExclusiveOwnership'
  BY <1>1 DEF ExclusiveOwnership
<1>5. NoDanglingRequest' /\ NoLostRequest'
  BY <1>1 DEF NoDanglingRequest, NoLostRequest
<1> QED
  BY <1>2, <1>3, <1>4, <1>5

\* Nothing is in use, so that what is on the stack is all there is: it is freed.
LEMMA ApiDeinitializeInv ==
  ASSUME IInv, ApiDeinitialize
  PROVE  IInv'
<1> USE DEF IInv, ApiDeinitialize
<1>1. Idle' = {}
  BY DEF Idle
<1>2. \A t \in Threads : request[t] = NoRequest /\ inUse[t] = {}
  BY DEF LocalRequest
<1>3. live' = {} /\ slist' = {}
  BY <1>2, PoolAssumption DEF NoLostRequest, HeadersOwned, TypeOK
<1>4. TypeOK'
  <2>1. -1 \in -1 .. REQUEST_STACK_SIZE
    BY PoolAssumption
  <2> QED
    BY <2>1 DEF TypeOK
<1>5. DownIsQuiet' /\ MutualExclusion' /\ TestsHold' /\ LocalRequest'
  BY DEF DownIsQuiet, MutualExclusion, TestsHold, LocalRequest
<1>6. HeadersOwned'
  BY <1>3 DEF HeadersOwned
<1>7. ExclusiveOwnership'
  BY <1>1, <1>2 DEF ExclusiveOwnership
<1>8. NoDanglingRequest' /\ NoLostRequest'
  BY <1>1, <1>2, <1>3 DEF NoDanglingRequest, NoLostRequest
<1> QED
  BY <1>4, <1>5, <1>6, <1>7, <1>8

-----------------------------------------------------------------------------
(* The steps of a thread                                                   *)

\* Most steps move a thread from one point to the next, lock or unlock.  They
\* leave alone who owns what.
LEMMA OwnershipKept ==
  ASSUME ExclusiveOwnership, NoDanglingRequest, NoLostRequest,
         UNCHANGED <<poolVars, heapVars, request, inUse>>
  PROVE  ExclusiveOwnership' /\ NoDanglingRequest' /\ NoLostRequest'
<1> USE DEF poolVars, heapVars, Idle
<1>1. ExclusiveOwnership'
  BY DEF ExclusiveOwnership
<1>2. NoDanglingRequest'
  BY DEF NoDanglingRequest
<1>3. NoLostRequest'
  BY DEF NoLostRequest
<1> QED
  BY <1>1, <1>2, <1>3

\* Entering request_get touches nothing the threads share.
LEMMA GetCallInv ==
  ASSUME NEW t \in Threads, IInv, GetCall(t)
  PROVE  IInv'
<1> USE DEF IInv, GetCall, Goto, poolVars, heapVars
<1>1. TypeOK'
  BY DEF TypeOK, Points
<1>2. /\ DownIsQuiet' /\ MutualExclusion' /\ TestsHold'
      /\ LocalRequest' /\ HeadersOwned'
  BY DEF DownIsQuiet, MutualExclusion, TestsHold, LocalRequest, HeadersOwned,
         Locked
<1>3. ExclusiveOwnership' /\ NoDanglingRequest' /\ NoLostRequest'
  BY OwnershipKept
<1> QED
  BY <1>1, <1>2, <1>3

\* The mutex is free when it is taken, so no other thread is in a critical
\* section.
LEMMA GetLockInv ==
  ASSUME NEW t \in Threads, IInv, GetLock(t)
  PROVE  IInv'
<1> USE DEF IInv, GetLock, Goto, Lock, poolVars, heapVars
<1>1. TypeOK'
  BY DEF TypeOK, Points, Locked
<1>2. DownIsQuiet' /\ TestsHold' /\ LocalRequest' /\ HeadersOwned'
  BY DEF DownIsQuiet, TestsHold, LocalRequest, HeadersOwned
<1>3. MutualExclusion'
  BY PoolAssumption DEF TypeOK, MutualExclusion, Locked
<1>4. ExclusiveOwnership' /\ NoDanglingRequest' /\ NoLostRequest'
  BY OwnershipKept
<1> QED
  BY <1>1, <1>2, <1>3, <1>4

\* A count that is not 0 is positive: the library is up while a thread is in
\* request_get, so the count is not the -1 that request_api_deinitialize left.
LEMMA GetTestInv ==
  ASSUME NEW t \in Threads, IInv, GetTest(t)
  PROVE  IInv'
<1> USE DEF IInv, GetTest, Goto, poolVars, heapVars
<1>1. TypeOK'
  BY DEF TypeOK, Points, Locked
<1>2. DownIsQuiet' /\ MutualExclusion' /\ LocalRequest' /\ HeadersOwned'
  BY DEF DownIsQuiet, MutualExclusion, LocalRequest, HeadersOwned, Locked
<1>3. TestsHold'
  BY DEF TypeOK, DownIsQuiet, TestsHold
<1>4. ExclusiveOwnership' /\ NoDanglingRequest' /\ NoLostRequest'
  BY OwnershipKept
<1> QED
  BY <1>1, <1>2, <1>3, <1>4

\* The Request that leaves the stack was in the one slot that leaves the stack
\* with it; the test made under the mutex says that there is one.
LEMMA GetPopInv ==
  ASSUME NEW t \in Threads, IInv, GetPop(t)
  PROVE  IInv'
<1> USE DEF IInv, GetPop, Goto, heapVars
<1>1. TypeOK'
  BY PoolAssumption DEF TypeOK, TestsHold, Slots, Points, Locked
<1>2. DownIsQuiet' /\ MutualExclusion' /\ HeadersOwned'
  BY DEF DownIsQuiet, MutualExclusion, HeadersOwned, Locked
<1>3. TestsHold'
  BY DEF TypeOK, MutualExclusion, TestsHold, Locked
<1>4. LocalRequest'
  BY DEF TypeOK, LocalRequest
<1>5. ExclusiveOwnership'
  BY DEF TypeOK, TestsHold, ExclusiveOwnership, Idle
<1>6. NoDanglingRequest'
  BY DEF TypeOK, TestsHold, NoDanglingRequest, Idle
<1>7. NoLostRequest'
  BY PoolAssumption DEF TypeOK, LocalRequest, NoLostRequest, Idle
<1> QED
  BY <1>1, <1>2, <1>3, <1>4, <1>5, <1>6, <1>7

\* Giving the mutex back; the thread goes on with a Request or without.
LEMMA GetUnlockInv ==
  ASSUME NEW t \in Threads, IInv, GetUnlock(t)
  PROVE  IInv'
<1> USE DEF IInv, GetUnlock, Goto, Unlock, poolVars, heapVars
<1>1. TypeOK'
  BY DEF TypeOK, Points
<1>2. DownIsQuiet' /\ TestsHold' /\ LocalRequest' /\ HeadersOwned'
  BY DEF DownIsQuiet, TestsHold, LocalRequest, HeadersOwned
<1>3. MutualExclusion'
  BY PoolAssumption DEF TypeOK, MutualExclusion, Locked
<1>4. ExclusiveOwnership' /\ NoDanglingRequest' /\ NoLostRequest'
  BY OwnershipKept
<1> QED
  BY <1>1, <1>2, <1>3, <1>4

\* The header list that is freed is that of a Request of this thread alone.
LEMMA GetReuseInv ==
  ASSUME NEW t \in Threads, IInv, GetReuse(t)
  PROVE  IInv'
<1> USE DEF IInv, GetReuse, Goto, poolVars
<1>1. TypeOK'
  BY DEF TypeOK, Points
<1>2. DownIsQuiet' /\ MutualExclusion' /\ TestsHold' /\ LocalRequest'
  BY DEF DownIsQuiet, MutualExclusion, TestsHold, LocalRequest, Locked
<1>3. HeadersOwned'
  BY DEF TypeOK, LocalRequest, HeadersOwned, ExclusiveOwnership
<1>4. ExclusiveOwnership'
  BY DEF ExclusiveOwnership, Idle
<1>5. NoDanglingRequest'
  BY DEF NoDanglingRequest, Idle
<1>6. NoLostRequest'
  BY DEF NoLostRequest, Idle
<1> QED
  BY <1>1, <1>2, <1>3, <1>4, <1>5, <1>6

\* What malloc returns is not allocated, hence has no owner.
LEMMA GetNewInv ==
  ASSUME NEW t \in Threads, IInv, GetNew(t)
  PROVE  IInv'
<1> USE DEF IInv, GetNew, Goto, poolVars
<1>1. TypeOK'
  BY DEF TypeOK, Points
<1>2. DownIsQuiet' /\ MutualExclusion' /\ TestsHold'
  BY DEF DownIsQuiet, MutualExclusion, TestsHold, Locked
<1>3. LocalRequest'
  BY PoolAssumption DEF TypeOK, LocalRequest
<1>4. HeadersOwned'
  BY DEF TypeOK, HeadersOwned
<1>5. ExclusiveOwnership'
  BY DEF ExclusiveOwnership, NoDanglingRequest, Idle
<1>6. NoDanglingRequest'
  BY DEF NoDanglingRequest, Idle
<1>7. NoLostRequest'
  BY PoolAssumption DEF TypeOK, LocalRequest, NoLostRequest, Idle
<1> QED
  BY <1>1, <1>2, <1>3, <1>4, <1>5, <1>6, <1>7

\* A failing allocation leaves everything as it was.
LEMMA GetNewFailsInv ==
  ASSUME NEW t \in Threads, IInv, GetNewFails(t)
  PROVE  IInv'
<1> USE DEF IInv, GetNewFails, Goto, poolVars, heapVars
<1>1. TypeOK'
  BY DEF TypeOK, Points
<1>2. /\ DownIsQuiet' /\ MutualExclusion' /\ TestsHold'
      /\ LocalRequest' /\ HeadersOwned'
  BY DEF DownIsQuiet, MutualExclusion, TestsHold, LocalRequest, HeadersOwned,
         Locked
<1>3. ExclusiveOwnership' /\ NoDanglingRequest' /\ NoLostRequest'
  BY OwnershipKept
<1> QED
  BY <1>1, <1>2, <1>3

\* The Request becomes one in use, of this thread and no other.
LEMMA GetReturnInv ==
  ASSUME NEW t \in Threads, IInv, GetReturn(t)
  PROVE  IInv'
<1> USE DEF IInv, GetReturn, Goto, poolVars
<1>1. TypeOK'
  BY DEF TypeOK, LocalRequest, Points
<1>2. DownIsQuiet' /\ MutualExclusion' /\ TestsHold'
  BY DEF DownIsQuiet, MutualExclusion, TestsHold, Locked
<1>3. LocalRequest'
  BY DEF TypeOK, LocalRequest
<1>4. HeadersOwned'
  BY DEF TypeOK, LocalRequest, HeadersOwned, ExclusiveOwnership,
         NoDanglingRequest
<1>5. ExclusiveOwnership'
  BY PoolAssumption DEF TypeOK, LocalRequest, ExclusiveOwnership,
                        NoDanglingRequest, Idle
<1>6. NoDanglingRequest'
  BY DEF LocalRequest, NoDanglingRequest, Idle
<1>7. NoLostRequest'
  BY DEF TypeOK, NoLostRequest, Idle
<1> QED
  BY <1>1, <1>2, <1>3, <1>4, <1>5, <1>6, <1>7

\* The Request that is freed has no other owner.
LEMMA GetReturnFailsInv ==
  ASSUME NEW t \in Threads, IInv, GetReturnFails(t)
  PROVE  IInv'
<1> USE DEF IInv, GetReturnFails, Goto, poolVars
<1>1. TypeOK'
  BY DEF TypeOK, LocalRequest, Points
<1>2. DownIsQuiet' /\ MutualExclusion' /\ TestsHold'
  BY DEF DownIsQuiet, MutualExclusion, TestsHold, Locked
<1>3. LocalRequest'
  BY DEF TypeOK, LocalRequest
<1>4. HeadersOwned'
  BY DEF TypeOK, HeadersOwned
<1>5. ExclusiveOwnership'
  BY PoolAssumption DEF TypeOK, ExclusiveOwnership, NoDanglingRequest, Idle
<1>6. NoDanglingRequest'
  BY DEF TypeOK, ExclusiveOwnership, NoDanglingRequest, Idle
<1>7. NoLostRequest'
  BY DEF NoLostRequest, Idle
<1> QED
  BY <1>1, <1>2, <1>3, <1>4, <1>5, <1>6, <1>7

\* The Request that is given back is no longer in use.
LEMMA PutCallInv ==
  ASSUME NEW t \in Threads, IInv, PutCall(t)
  PROVE  IInv'
<1> USE DEF IInv, PutCall, Goto, poolVars, heapVars
<1>1. TypeOK'
  BY DEF TypeOK, Points
<1>2. DownIsQuiet' /\ MutualExclusion' /\ TestsHold' /\ HeadersOwned'
  BY DEF DownIsQuiet, MutualExclusion, TestsHold, HeadersOwned, Locked
<1>3. LocalRequest'
  BY PoolAssumption DEF TypeOK, LocalRequest
<1>4. ExclusiveOwnership'
  BY DEF TypeOK, ExclusiveOwnership, Idle
<1>5. NoDanglingRequest'
  BY DEF NoDanglingRequest, Idle
<1>6. NoLostRequest'
  BY PoolAssumption DEF TypeOK, LocalRequest, NoLostRequest, Idle
<1> QED
  BY <1>1, <1>2, <1>3, <1>4, <1>5, <1>6

\* As GetLockInv.
LEMMA PutLockInv ==
  ASSUME NEW t \in Threads, IInv, PutLock(t)
  PROVE  IInv'
<1> USE DEF IInv, PutLock, Goto, Lock, poolVars, heapVars
<1>1. TypeOK'
  BY DEF TypeOK, Points, Locked
<1>2. DownIsQuiet' /\ TestsHold' /\ LocalRequest' /\ HeadersOwned'
  BY DEF DownIsQuiet, TestsHold, LocalRequest, HeadersOwned
<1>3. MutualExclusion'
  BY PoolAssumption DEF TypeOK, MutualExclusion, Locked
<1>4. ExclusiveOwnership' /\ NoDanglingRequest' /\ NoLostRequest'
  BY OwnershipKept
<1> QED
  BY <1>1, <1>2, <1>3, <1>4

\* A count that is not the size of the stack is below it.
LEMMA PutTestInv ==
  ASSUME NEW t \in Threads, IInv, PutTest(t)
  PROVE  IInv'
<1> USE DEF IInv, PutTest, Goto, poolVars, heapVars
<1>1. TypeOK'
  BY DEF TypeOK, Points, Locked
<1>2. DownIsQuiet' /\ MutualExclusion' /\ LocalRequest' /\ HeadersOwned'
  BY DEF DownIsQuiet, MutualExclusion, LocalRequest, HeadersOwned, Locked
<1>3. TestsHold'
  BY PoolAssumption DEF TypeOK, TestsHold
<1>4. ExclusiveOwnership' /\ NoDanglingRequest' /\ NoLostRequest'
  BY OwnershipKept
<1> QED
  BY <1>1, <1>2, <1>3, <1>4

\* The slot that is written is above those in use.
LEMMA PutStoreInv ==
  ASSUME NEW t \in Threads, IInv, PutStore(t)
  PROVE  IInv'
<1> USE DEF IInv, PutStore, Goto, heapVars
<1>1. TypeOK'
  BY PoolAssumption DEF TypeOK, DownIsQuiet, TestsHold, Slots, Points, Locked
<1>2. DownIsQuiet' /\ MutualExclusion' /\ LocalRequest' /\ HeadersOwned'
  BY DEF DownIsQuiet, MutualExclusion, LocalRequest, HeadersOwned, Locked
<1>3. TestsHold'
  BY PoolAssumption DEF TypeOK, DownIsQuiet, MutualExclusion, TestsHold,
                        Slots, Locked
<1>4. ExclusiveOwnership'
  BY DEF ExclusiveOwnership, Idle
<1>5. NoDanglingRequest'
  BY DEF NoDanglingRequest, Idle
<1>6. NoLostRequest'
  BY DEF NoLostRequest, Idle
<1> QED
  BY <1>1, <1>2, <1>3, <1>4, <1>5, <1>6

\* The slot that comes into use holds this thread's Request, which the stack
\* did not hold; from now on the thread does not.
LEMMA PutCountInv ==
  ASSUME NEW t \in Threads, IInv, PutCount(t)
  PROVE  IInv'
<1> USE DEF IInv, PutCount, Goto, heapVars
<1>1. TypeOK'
  BY PoolAssumption DEF TypeOK, TestsHold, Points, Locked
<1>2. DownIsQuiet' /\ MutualExclusion' /\ HeadersOwned'
  BY DEF DownIsQuiet, MutualExclusion, HeadersOwned, Locked
<1>3. TestsHold'
  BY DEF TypeOK, MutualExclusion, TestsHold, Locked
<1>4. LocalRequest'
  BY DEF TypeOK, LocalRequest
<1>5. ExclusiveOwnership'
  BY PoolAssumption DEF TypeOK, TestsHold, LocalRequest, ExclusiveOwnership,
                        NoDanglingRequest, Idle
<1>6. NoDanglingRequest'
  BY DEF TypeOK, TestsHold, LocalRequest, NoDanglingRequest, Idle
<1>7. NoLostRequest'
  BY DEF TypeOK, DownIsQuiet, TestsHold, NoLostRequest, Idle
<1> QED
  BY <1>1, <1>2, <1>3, <1>4, <1>5, <1>6, <1>7

\* As GetUnlockInv.
LEMMA PutUnlockInv ==
  ASSUME NEW t \in Threads, IInv, PutUnlock(t)
  PROVE  IInv'
<1> USE DEF IInv, PutUnlock, Goto, Unlock, poolVars, heapVars
<1>1. TypeOK'
  BY DEF TypeOK, Points
<1>2. DownIsQuiet' /\ TestsHold' /\ LocalRequest' /\ HeadersOwned'
  BY DEF DownIsQuiet, TestsHold, LocalRequest, HeadersOwned
<1>3. MutualExclusion'
  BY PoolAssumption DEF TypeOK, MutualExclusion, Locked
<1>4. ExclusiveOwnership' /\ NoDanglingRequest' /\ NoLostRequest'
  BY OwnershipKept
<1> QED
  BY <1>1, <1>2, <1>3, <1>4

\* The mutex is given back before the Request is destroyed.
LEMMA PutFullInv ==
  ASSUME NEW t \in Threads, IInv, PutFull(t)
  PROVE  IInv'
<1> USE DEF IInv, PutFull, Goto, Unlock, poolVars, heapVars
<1>1. TypeOK'
  BY DEF TypeOK, Points
<1>2. DownIsQuiet' /\ TestsHold' /\ LocalRequest' /\ HeadersOwned'
  BY DEF DownIsQuiet, TestsHold, LocalRequest, HeadersOwned
<1>3. MutualExclusion'
  BY PoolAssumption DEF TypeOK, MutualExclusion, Locked
<1>4. ExclusiveOwnership' /\ NoDanglingRequest' /\ NoLostRequest'
  BY OwnershipKept
<1> QED
  BY <1>1, <1>2, <1>3, <1>4

\* The Request that is freed has no other owner.
LEMMA DestroyInv ==
  ASSUME NEW t \in Threads, IInv, Destroy(t)
  PROVE  IInv'
<1> USE DEF IInv, Destroy, Goto, poolVars
<1>1. TypeOK'
  BY DEF TypeOK, Points
<1>2. DownIsQuiet' /\ MutualExclusion' /\ TestsHold' /\ HeadersOwned'
  BY DEF DownIsQuiet, MutualExclusion, TestsHold, HeadersOwned, Locked
<1>3. LocalRequest'
  BY DEF TypeOK, LocalRequest
<1>4. ExclusiveOwnership'
  BY PoolAssumption DEF TypeOK, ExclusiveOwnership, NoDanglingRequest, Idle
<1>5. NoDanglingRequest'
  BY DEF TypeOK, ExclusiveOwnership, NoDanglingRequest, Idle
<1>6. NoLostRequest'
  BY DEF NoLostRequest, Idle
<1> QED
  BY <1>1, <1>2, <1>3, <1>4, <1>5, <1>6

-----------------------------------------------------------------------------
(* The theorems                                                            *)

\* Any step of any thread preserves the invariant.
LEMMA StepInv ==
  ASSUME NEW t \in Threads, IInv, Step(t)
  PROVE  IInv'
<1>1. CASE Critical(t)
  BY <1>1, GetTestInv, GetPopInv, GetUnlockInv, PutTestInv, PutStoreInv,
     PutCountInv, PutUnlockInv, PutFullInv DEF Critical
<1>2. CASE ~Critical(t)
  BY <1>2, GetCallInv, GetLockInv, GetReuseInv, GetNewInv, GetNewFailsInv,
     GetReturnInv, GetReturnFailsInv, PutCallInv, PutLockInv, DestroyInv DEF Step
<1> QED
  BY <1>1, <1>2

(* The inductive invariant holds in every state that the threads can       *)
(* reach, in whatever order their steps in request_get and request_release *)
(* are taken.                                                              *)
THEOREM Invariance == Spec => []IInv
<1>1. IInv /\ [Next]_vars => IInv'
  BY StutterInv, ApiInitializeInv, ApiDeinitializeInv, StepInv DEF Next
<1> QED
  BY InitInv, <1>1, PTL DEF Spec

(* The count stays between -1 and the size of the stack, and all variables *)
(* have their types: no slot outside requestStackG is ever accessed.       *)
THEOREM TypeCorrect == Spec => []TypeOK
  BY Invariance, PTL DEF IInv

(* No Request ever has two owners, among the slots of the stack and the    *)
(* threads.                                                                *)
THEOREM OwnershipIsExclusive == Spec => []ExclusiveOwnership
  BY Invariance, PTL DEF IInv

(* Nothing on the stack or in the hands of a thread has been freed, and    *)
(* every allocated Request is there: none dangles and none is lost.        *)
THEOREM AllocatedAreOwned == Spec => []LiveAreOwned
<1>1. IInv => LiveAreOwned
  BY DEF IInv, LiveAreOwned
<1> QED
  BY <1>1, Invariance, PTL

\* request_get sets headers to 0 on a Request that owns no header list: of all
\* the steps only that of a failing request_get loses one.
LEMMA LeakStep ==
  ASSUME IInv, [Next]_vars
  PROVE  leaked' # leaked => \E t \in Threads : GetReturnFails(t)
<1> SUFFICES ASSUME leaked' # leaked PROVE \E t \in Threads : GetReturnFails(t)
  OBVIOUS
<1>1. PICK t \in Threads : Step(t)
  BY DEF Next, vars, heapVars, ApiInitialize, ApiDeinitialize
<1>2. ~GetReturn(t)
  BY DEF GetReturn, Goto, IInv, HeadersOwned
<1>3. GetReturnFails(t)
  BY <1>1, <1>2
     DEF Step, Critical, heapVars, GetCall, GetLock, GetTest, GetPop, GetUnlock,
         GetReuse, GetNew, GetNewFails, PutCall, PutLock, PutTest, PutStore,
         PutCount, PutUnlock, PutFull, Destroy
<1> QED
  BY <1>3

(* A header list is lost only when request_get fails after setup_curl has  *)
(* built it.                                                               *)
THEOREM HeadersKept == Spec => HeadersLostOnlyInFailedSetup
<1>1. IInv /\ [Next]_vars => [leaked' # leaked => \E t \in Threads : GetReturnFails(t)]_vars
  BY LeakStep
<1> QED
  BY Invariance, <1>1, PTL DEF Spec, HeadersLostOnlyInFailedSetup

-----------------------------------------------------------------------------
(* The stack is a LIFO of idle Requests                                    *)

\* The sequence of the idle Requests has those of the array up to the count.
LEMMA SequenceFacts ==
  ASSUME NEW S, NEW count \in Nat, NEW array, \A i \in 0 .. count - 1 : array[i] \in S
  PROVE  LET s == [i \in 1 .. count |-> array[i - 1]]
         IN  s \in Seq(S) /\ Len(s) = count /\ \A i \in 1 .. count : s[i] = array[i - 1]
<1>1. \A i \in 1 .. count : i - 1 \in 0 .. count - 1
  OBVIOUS
<1> QED
  BY <1>1

LEMMA IdleFacts ==
  ASSUME IInv
  PROVE  /\ Abstract!ToSet(IdleSequence) = Idle
         /\ requestStackCountG <= 0 => IdleSequence = <<>> /\ Idle = {}
         /\ requestStackCountG >= 0 =>
              /\ IdleSequence \in Seq(Requests \cup {NoRequest})
              /\ Len(IdleSequence) = requestStackCountG
              /\ \A i \in 1 .. requestStackCountG : IdleSequence[i] = requestStackG[i - 1]
<1>1. /\ requestStackCountG \in -1 .. REQUEST_STACK_SIZE /\ REQUEST_STACK_SIZE \in Nat
      /\ requestStackG \in [Slots -> Requests \cup {NoRequest}]
  BY PoolAssumption DEF IInv, TypeOK
<1>2. CASE requestStackCountG >= 0
  <2>1. /\ requestStackCountG \in Nat
        /\ \A i \in 0 .. requestStackCountG - 1 : requestStackG[i] \in Requests \cup {NoRequest}
    BY <1>1, <1>2 DEF Slots
  <2>2. /\ IdleSequence \in Seq(Requests \cup {NoRequest})
        /\ Len(IdleSequence) = requestStackCountG
        /\ \A i \in 1 .. requestStackCountG : IdleSequence[i] = requestStackG[i - 1]
    BY <2>1, SequenceFacts DEF IdleSequence
  <2>3. Abstract!ToSet(IdleSequence) = Idle
    <3>1. DOMAIN IdleSequence = 1 .. requestStackCountG
      BY DEF IdleSequence
    <3>2. ASSUME NEW i \in 0 .. requestStackCountG - 1
          PROVE  \E k \in 1 .. requestStackCountG : IdleSequence[k] = requestStackG[i]
      <4>1. i + 1 \in 1 .. requestStackCountG /\ i + 1 - 1 = i
        BY <2>1
      <4> QED
        BY <2>2, <4>1
    <3>3. ASSUME NEW k \in 1 .. requestStackCountG
          PROVE  \E i \in 0 .. requestStackCountG - 1 : IdleSequence[k] = requestStackG[i]
      <4>1. k - 1 \in 0 .. requestStackCountG - 1
        BY <2>1
      <4> QED
        BY <2>2, <4>1
    <3>4. Abstract!ToSet(IdleSequence) = {IdleSequence[k] : k \in 1 .. requestStackCountG}
      BY <3>1, Zenon DEF Abstract!ToSet
    <3> HIDE DEF IdleSequence
    <3>5. {IdleSequence[k] : k \in 1 .. requestStackCountG}
            = {requestStackG[i] : i \in 0 .. requestStackCountG - 1}
      BY <3>2, <3>3
    <3> QED
      BY <3>4, <3>5 DEF Idle
  <2>4. requestStackCountG <= 0 => IdleSequence = <<>> /\ Idle = {}
    BY <2>1, <2>2 DEF Idle
  <2> QED
    BY <2>2, <2>3, <2>4
<1>3. CASE requestStackCountG = -1
  <2>1. IdleSequence = <<>> /\ Idle = {}
    <3>1. 1 .. requestStackCountG = {} /\ 0 .. requestStackCountG - 1 = {}
      BY <1>3
    <3> QED
      BY <3>1 DEF IdleSequence, Idle
  <2> QED
    BY <1>3, <2>1 DEF Abstract!ToSet
<1> QED
  BY <1>1, <1>2, <1>3


\* A step that changes neither the stack up to its count nor what is allocated.
LEMMA PoolStutter ==
  ASSUME IInv, UNCHANGED <<requestStackCountG, live>>,
         \A i \in 0 .. requestStackCountG - 1 : requestStackG'[i] = requestStackG[i]
  PROVE  UNCHANGED <<IdleSequence, live \ Idle>>
<1>1. \A i \in 1 .. requestStackCountG : requestStackG'[i - 1] = requestStackG[i - 1]
  <2>1. \A i \in 1 .. requestStackCountG : i - 1 \in 0 .. requestStackCountG - 1
    BY DEF IInv, TypeOK
  <2> QED
    BY <2>1
<1>2. IdleSequence' = IdleSequence
  BY <1>1 DEF IdleSequence
<1>3. Idle' = Idle
  BY DEF Idle
<1> QED
  BY <1>2, <1>3

\* The last Request of the stack goes to the thread.
LEMMA PopIsReuse ==
  ASSUME IInv, NEW t \in Threads, GetPop(t)
  PROVE  Abstract!Reuse
<1> DEFINE count == requestStackCountG
           top   == requestStackG[count - 1]
<1>1. /\ count' = count - 1 /\ UNCHANGED <<requestStackG, live>>
      /\ count \in 1 .. REQUEST_STACK_SIZE /\ REQUEST_STACK_SIZE \in Nat
  BY PoolAssumption DEF GetPop, Goto, heapVars, IInv, TypeOK, TestsHold
<1>2. /\ IdleSequence \in Seq(Requests \cup {NoRequest}) /\ Len(IdleSequence) = count
      /\ \A i \in 1 .. count : IdleSequence[i] = requestStackG[i - 1]
  BY <1>1, IdleFacts
<1>3. IdleSequence' = [i \in 1 .. count - 1 |-> requestStackG[i - 1]]
  BY <1>1 DEF IdleSequence
<1>4. IdleSequence # <<>> /\ Abstract!Last(IdleSequence) = top
  <2>1. count \in 1 .. count
    BY <1>1
  <2> QED
    BY <1>1, <1>2, <2>1 DEF Abstract!Last
<1>5. IdleSequence' = Abstract!Front(IdleSequence)
  <2>1. Abstract!Front(IdleSequence) = SubSeq(IdleSequence, 1, count - 1)
    BY <1>2 DEF Abstract!Front
  <2>2. SubSeq(IdleSequence, 1, count - 1) = [i \in 1 .. count - 1 |-> IdleSequence[i]]
    BY <1>1, <1>2
  <2> QED
    BY <1>1, <1>2, <1>3, <2>1, <2>2
<1>6. (live \ Idle)' = (live \ Idle) \cup {top}
  <2>1. top \in Idle /\ Idle \subseteq live
    BY <1>1 DEF Idle, IInv, NoDanglingRequest
  <2>2. Idle' = Idle \ {top}
    <3>1. \A i \in 0 .. count - 2 : requestStackG[i] # top
      BY <1>1 DEF IInv, ExclusiveOwnership
    <3> QED
      BY <1>1, <3>1 DEF Idle
  <2> QED
    BY <1>1, <2>1, <2>2
<1> QED
  BY <1>4, <1>5, <1>6 DEF Abstract!Reuse

\* The thread's Request becomes the last of the stack.
LEMMA PushIsReturn ==
  ASSUME IInv, NEW t \in Threads, PutCount(t)
  PROVE  \E r \in Requests : Abstract!Return(r)
<1> DEFINE count == requestStackCountG
           r     == request[t]
<1>1. /\ count' = count + 1 /\ UNCHANGED <<requestStackG, live>>
      /\ count \in 0 .. REQUEST_STACK_SIZE - 1 /\ REQUEST_STACK_SIZE \in Nat
      /\ requestStackG[count] = r /\ r \in Requests
  <2>1. apiUp
    BY DEF PutCount, Goto, IInv, DownIsQuiet
  <2> QED
    BY <2>1, PoolAssumption
       DEF PutCount, Goto, heapVars, IInv, TypeOK, TestsHold, LocalRequest
<1>2. /\ IdleSequence \in Seq(Requests \cup {NoRequest}) /\ Len(IdleSequence) = count
      /\ \A i \in 1 .. count : IdleSequence[i] = requestStackG[i - 1]
  BY <1>1, IdleFacts
<1>3. r \in live \ Idle
  BY <1>1, PoolAssumption DEF IInv, ExclusiveOwnership, NoDanglingRequest
<1>4. IdleSequence' = Append(IdleSequence, r)
  <2>1. IdleSequence' = [i \in 1 .. count + 1 |-> requestStackG[i - 1]]
    BY <1>1 DEF IdleSequence
  <2> DEFINE new  == [i \in 1 .. count + 1 |-> requestStackG[i - 1]]
             grown == Append(IdleSequence, r)
  <2>2. \A i \in 1 .. count + 1 : requestStackG[i - 1] \in Requests \cup {NoRequest}
    <3>1. \A i \in 1 .. count + 1 : i - 1 \in Slots
      BY <1>1 DEF Slots
    <3> QED
      BY <3>1 DEF IInv, TypeOK
  <2>3. /\ new \in Seq(Requests \cup {NoRequest}) /\ Len(new) = count + 1
        /\ \A i \in 1 .. count + 1 : new[i] = requestStackG[i - 1]
    <3> HIDE DEF count
    <3> QED
      BY <1>1, <2>2
  <2>4. /\ grown \in Seq(Requests \cup {NoRequest}) /\ Len(grown) = count + 1
        /\ \A i \in 1 .. count : grown[i] = requestStackG[i - 1]
        /\ grown[count + 1] = requestStackG[count]
    BY <1>1, <1>2, AppendProperties
  <2> HIDE DEF new, grown, count
  <2>5. \A i \in 1 .. Len(new) : new[i] = grown[i]
    BY <1>1, <2>3, <2>4
  <2>6. new = grown
    BY <2>3, <2>4, <2>5, SeqEqual
  <2> QED
    BY <2>1, <2>6 DEF new, grown
<1>5. (live \ Idle)' = (live \ Idle) \ {r}
  <2>1. Idle' = Idle \cup {r}
    BY <1>1 DEF Idle
  <2> QED
    BY <1>1, <2>1
<1> QED
  BY <1>1, <1>2, <1>3, <1>4, <1>5 DEF Abstract!Return

\* A Request that is freed was the thread's own.
LEMMA FreeIsDiscard ==
  ASSUME IInv, NEW t \in Threads, pc[t] \in {"setup", "destroy"},
         live' = live \ {request[t]}, UNCHANGED poolVars
  PROVE  \E r \in Requests : Abstract!Discard(r)
<1>1. request[t] \in Requests /\ request[t] \in live \ Idle
  BY DEF IInv, TypeOK, LocalRequest, ExclusiveOwnership, NoDanglingRequest
<1>2. IdleSequence' = IdleSequence /\ Idle' = Idle
  BY DEF poolVars, IdleSequence, Idle
<1>3. (live \ Idle)' = (live \ Idle) \ {request[t]}
  BY <1>2
<1> QED
  BY <1>1, <1>2, <1>3 DEF Abstract!Discard

LEMMA StepRefines ==
  ASSUME IInv, [Next]_vars
  PROVE  [Abstract!Next]_(Abstract!vars)
<1> USE DEF Goto, heapVars, poolVars
<1>0. SUFFICES ASSUME ~UNCHANGED <<IdleSequence, live \ Idle>>
               PROVE  Abstract!Next
  BY Zenon DEF Abstract!vars
<1>1. CASE UNCHANGED <<requestStackG, requestStackCountG, live>>
  BY <1>0, <1>1, PoolStutter
<1>2. CASE ApiInitialize
  <2>1. requestStackCountG <= 0 /\ requestStackCountG' = 0 /\ UNCHANGED live
    BY <1>2 DEF ApiInitialize, IInv, DownIsQuiet
  <2>2. IdleSequence = <<>> /\ Idle = {}
    BY <2>1, IdleFacts
  <2>3. 1 .. requestStackCountG' = {} /\ 0 .. requestStackCountG' - 1 = {}
    BY <2>1
  <2>4. IdleSequence' = <<>> /\ Idle' = {}
    BY <2>3 DEF IdleSequence, Idle
  <2> QED
    BY <1>0, <2>1, <2>2, <2>4
<1>3. CASE ApiDeinitialize
  <2>0. \A t \in Threads : request[t] = NoRequest /\ inUse[t] = {}
    BY <1>3 DEF LocalRequest, IInv, ApiDeinitialize
  <2>1. live \ Idle = {}
    BY <2>0, PoolAssumption DEF IInv, NoLostRequest, TypeOK
  <2>2. IdleSequence' = <<>> /\ Idle' = {}
    BY <1>3 DEF ApiDeinitialize, IdleSequence, Idle
  <2>3. live' = live \ Idle
    BY <1>3 DEF ApiDeinitialize
  <2> QED
    BY <2>1, <2>2, <2>3 DEF Abstract!Next, Abstract!Drain
<1>4. ASSUME NEW t \in Threads, Step(t)
      PROVE  Abstract!Next
  <2>1. CASE GetPop(t)
    BY <2>1, PopIsReuse DEF Abstract!Next
  <2>2. CASE GetNew(t)
    <3>1. PICK r \in Requests \ live : live' = live \cup {r}
      BY <2>2 DEF GetNew
    <3>2. UNCHANGED <<IdleSequence, Idle>>
      BY <2>2 DEF GetNew, IdleSequence, Idle
    <3>3. Idle \subseteq live /\ Abstract!ToSet(IdleSequence) = Idle
      BY IdleFacts DEF IInv, NoDanglingRequest
    <3>4. Abstract!Create(r)
      BY <3>1, <3>2, <3>3 DEF Abstract!Create
    <3> QED
      BY <3>1, <3>4 DEF Abstract!Next
  <2>3. CASE GetReturnFails(t)
    BY <2>3, FreeIsDiscard DEF GetReturnFails, Abstract!Next
  <2>4. CASE PutStore(t)
    <3>1. /\ requestStackG' = [requestStackG EXCEPT ![requestStackCountG] = request[t]]
          /\ UNCHANGED <<requestStackCountG, live>>
      BY <2>4 DEF PutStore
    <3>2. requestStackCountG \in -1 .. REQUEST_STACK_SIZE
      BY DEF IInv, TypeOK
    <3>3. \A i \in 0 .. requestStackCountG - 1 : requestStackG'[i] = requestStackG[i]
      BY <3>1, <3>2, PoolAssumption DEF IInv, TypeOK, Slots
    <3> QED
      BY <1>0, <3>1, <3>3, PoolStutter
  <2>5. CASE PutCount(t)
    BY <2>5, PushIsReturn DEF Abstract!Next
  <2>6. CASE Destroy(t)
    BY <2>6, FreeIsDiscard DEF Destroy, Abstract!Next
  <2>7. CASE GetCall(t) \/ GetLock(t) \/ GetTest(t) \/ GetUnlock(t) \/ GetReuse(t)
             \/ GetNewFails(t) \/ GetReturn(t) \/ PutCall(t) \/ PutLock(t)
             \/ PutTest(t) \/ PutUnlock(t) \/ PutFull(t)
    BY <1>1, <2>7
       DEF GetCall, GetLock, GetTest, GetUnlock, GetReuse, GetNewFails, GetReturn, PutCall,
           PutLock, PutTest, PutUnlock, PutFull
  <2> QED
    BY <1>4, <2>1, <2>2, <2>3, <2>4, <2>5, <2>6, <2>7, Zenon DEF Step, Critical
<1>5. CASE UNCHANGED vars
  BY <1>1, <1>5 DEF vars
<1> QED
  BY <1>2, <1>3, <1>4, <1>5, Zenon DEF Next

(* The stack is a bounded LIFO of idle Requests: whatever the threads do    *)
(* between each other, a Request that is reused is the one released last,   *)
(* and each is created, returned and discarded as IdlePool allows.          *)
THEOREM PoolIsLifo == Spec => ImplementsIdlePool
<1>1. Init => Abstract!Init
  <2> SUFFICES ASSUME Init PROVE Abstract!Init
    OBVIOUS
  <2>1. requestStackCountG = 0 /\ live = {}
    BY DEF Init
  <2>2. IInv
    BY InitInv
  <2>3. IdleSequence = <<>>
    BY <2>1, <2>2, IdleFacts
  <2> QED
    BY <2>1, <2>3 DEF Abstract!Init
<1> QED
  BY <1>1, Invariance, StepRefines, PTL DEF Spec, ImplementsIdlePool, Abstract!Spec
=============================================================================
