------------------------- MODULE RequestContextProofs -------------------------
(***************************************************************************)
(* The safety properties of RequestContext, for any calls, Requests, curl  *)
(* results and bounds.                                                     *)
(***************************************************************************)
EXTENDS RequestContext, FiniteSetTheorems, TLAPS

-----------------------------------------------------------------------------
(* The inductive invariant                                                 *)

Finishing == pc \in {"finish", "callback"}

TypeOK ==
  /\ requests \in Requests \cup {NoRequest}
  /\ verifyPeerSet \in BOOLEAN /\ verifyPeer \in BOOLEAN
  /\ running \subseteq Requests
  /\ messages \subseteq [request : Requests, result : Results]
  /\ prev \in [Requests -> Requests \cup {NoRequest}]
  /\ next \in [Requests -> Requests \cup {NoRequest}]
  /\ sslVerify \in [Requests -> BOOLEAN]
  /\ call \in [Requests -> Calls \cup {NoCall}]
  /\ inUse \subseteq Requests
  /\ submitted \subseteq Calls
  /\ DOMAIN reported = Calls
  /\ globalVerifyPeer \in BOOLEAN
  /\ retry \in BOOLEAN

\* Where control is says which function runs.
Control ==
  /\ pc \in {"user", "perform", "process", "finish", "callback", "destroy",
             "freed", "crashed"}
  /\ pc = "user" => op = "none"
  /\ pc \in {"perform", "process"} => op \in {"runonce", "runall", "process"}
  /\ Finishing => op \in {"runonce", "runall", "process", "destroy"}
  /\ pc \in {"destroy", "freed", "crashed"} => op = "destroy"

\* A call is served by one Request, and completed when that is.
CallsServed ==
  /\ \A c \in Calls : reported[c] = <<>> \/ \E s : reported[c] = <<s>>
  /\ \A c \in Calls \ submitted : reported[c] = <<>>
  /\ \A r \in inUse : call[r] \in submitted
  /\ \A r, s \in inUse : call[r] = call[s] => r = s
  /\ \A r \in inUse : \/ pc \in {"callback", "crashed"} /\ r = current
                      \/ reported[call[r]] = <<>>

\* curl has a Request once: it runs it or has one message for it.
InCurl ==
  /\ Attached \subseteq inUse
  /\ \A m \in messages : m.request \notin running
  /\ \A m, n \in messages : m.request = n.request => m = n
  /\ Finishing => current \in inUse \ Attached

\* The links of the Requests of S make rings.
RingLinks(S) ==
  \A r \in S : /\ next[r] \in S /\ prev[r] \in S
               /\ next[prev[r]] = r /\ prev[next[r]] = r

\* So do those of the list, which is one of the rings of S.
Rings(S) ==
  /\ S \subseteq inUse
  /\ Finishing => current \notin S
  /\ requests \in S \cup {NoRequest}
  /\ RingLinks(S)
  \* The others are Requests that Unlink takes for the last of the list.
  /\ \A r \in Attached \ S : prev[r] = next[r]

\* S3_destroy_request_context has the Requests of S before it.
Ahead(S) ==
  /\ S \subseteq inUse
  /\ \A r \in S : /\ next[r] \in S \cup {rFirst}
                  /\ next[r] \in S => prev[next[r]] = r
  /\ rFirst = requests /\ rFirst \in Requests
  /\ pc = "destroy" => /\ current \in S
                       /\ current = rFirst \/ (rFirst \notin S /\ prev[current] \notin S)
  /\ Finishing => /\ current \notin S /\ rFirst \notin S
                  /\ rNext \in S \cup {rFirst}
                  /\ rNext \in S => prev[rNext] = current

\* All of S is met by who starts at first and goes on from one to the next.
Reaches(first, S) ==
  \A T \in SUBSET S :
    (first \in S => first \in T) /\ (\A x \in T : next[x] \in S => next[x] \in T)
    => T = S

\* S3_destroy_request_context meets all of S, and new Requests are put behind
\* the last of S.
Way(S) ==
  /\ Reaches(IF pc = "destroy" THEN current ELSE rNext, S)
  /\ prev[rFirst] \in S => next[prev[rFirst]] = rFirst

\* Each call that is not completed, and not forgotten, has its Request in S,
\* or is about to be completed.
Served(S) ==
  \A c \in Pending \ forgotten : \/ \E r \in S : call[r] = c
                                 \/ pc = "finish" /\ call[current] = c

Destroying == pc = "destroy" \/ (op = "destroy" /\ Finishing)

Linked ==
  /\ op # "destroy" => \E S \in SUBSET Requests : Rings(S)
  /\ Destroying => \E S \in SUBSET Requests : Ahead(S) /\ Way(S) /\ Served(S)

\* The list has the Request of each call that is not forgotten.
Kept ==
  /\ IsFiniteSet(inUse)
  /\ forgotten \subseteq submitted
  /\ op # "destroy" => Served(Listed)
  /\ pc = "freed" => Pending \subseteq forgotten

\* When nothing goes wrong in curl, a call that is not completed is in it.
PendingInCurl ==
  "curl" \notin adverse /\ op # "destroy" =>
    \A c \in Pending : \/ \E r \in Attached : call[r] = c
                       \/ pc = "finish" /\ call[current] = c

\* process_request_context calls back and sets retry, or leaves running alone.
RunningCounted ==
  /\ IsFiniteSet(running)
  /\ Finishing /\ op # "destroy" => retry
  /\ pc = "process" /\ op = "runall" => retry \/ requestsRemaining = Cardinality(running)

IInv ==
  /\ TypeOK /\ Control /\ CallsServed /\ InCurl /\ Linked
  /\ PendingInCurl /\ RunningCounted /\ Kept

-----------------------------------------------------------------------------
(* The initial state *)

LEMMA InitIInv == Init => IInv
<1> SUFFICES ASSUME Init PROVE IInv
  OBVIOUS
<1> USE DEF Init
<1>1. globalVerifyPeer \in BOOLEAN
  OBVIOUS
<1>2. TypeOK
  BY <1>1 DEF TypeOK
<1>3. Attached = {}
  BY DEF Attached
<1>4. Control /\ CallsServed /\ InCurl
  BY <1>3 DEF Control, CallsServed, InCurl, Finishing
<1>5. Rings({})
  BY <1>3 DEF Rings, RingLinks, Finishing
<1>6. Linked
  BY <1>5 DEF Linked, Destroying, Finishing
<1>7. PendingInCurl /\ RunningCounted
  BY FS_EmptySet DEF PendingInCurl, Pending, RunningCounted, Finishing
<1>8. Kept
  BY FS_EmptySet DEF Kept, Served, Pending
<1> QED
  BY <1>2, <1>4, <1>6, <1>7, <1>8 DEF IInv

-----------------------------------------------------------------------------
(* Types and control *)

LEMMA TypeStep == TypeOK /\ [Next]_vars => TypeOK'
<1> SUFFICES ASSUME TypeOK, [Next]_vars
             PROVE  TypeOK'
  OBVIOUS
<1> USE DEF TypeOK, vars, contextVars, multiVars, links, transfer, owners, appVars,
            settings, control
<1>1. ASSUME NEW c \in Calls, SubmitRejected(c) PROVE TypeOK'
  BY <1>1 DEF SubmitRejected, Submit, Report
<1>2. ASSUME NEW c \in Calls, SubmitAdded(c) PROVE TypeOK'
  <2>1. PICK r \in Requests : 
          /\ Submit(c) /\ Prepare(r) /\ LinkAfterClearing(r)
          /\ running' = running \cup {r} /\ call' = [call EXCEPT ![r] = c]
          /\ inUse' = inUse \cup {r} /\ UNCHANGED <<leaked, reported>>
    BY <1>2 DEF SubmitAdded
  <2>2. sslVerify' \in [Requests -> BOOLEAN]
    BY <2>1 DEF Prepare
  <2>3. /\ requests' \in Requests \cup {NoRequest}
        /\ prev' \in [Requests -> Requests \cup {NoRequest}]
        /\ next' \in [Requests -> Requests \cup {NoRequest}]
    BY <2>1 DEF LinkAfterClearing
  <2> QED
    BY <2>1, <2>2, <2>3 DEF Submit
<1>3. ASSUME NEW c \in Calls, SubmitNotAdded(c) PROVE TypeOK'
  BY <1>3 DEF SubmitNotAdded, Submit, Prepare, Report
<1>4. ASSUME NEW c \in Calls, SubmitOptionFails(c) PROVE TypeOK'
  BY <1>4 DEF SubmitOptionFails, Submit, Prepare, Report
<1>5. ASSUME NEW flag \in BOOLEAN, S3_set_request_context_verify_peer(flag) PROVE TypeOK'
  BY <1>5 DEF S3_set_request_context_verify_peer
<1>6. ASSUME NEW r \in Requests, ReceiveHeaders(r) \/ ReceiveData(r) PROVE TypeOK'
  BY <1>6 DEF ReceiveHeaders, ReceiveData
<1>7. ASSUME NEW r \in Requests, TransferDone(r) PROVE TypeOK'
  BY <1>7 DEF TransferDone
<1>8. CASE S3_runonce_request_context \/ S3_runall_request_context \/ S3_process_request_context
  BY <1>8 DEF S3_runonce_request_context, S3_runall_request_context,
              S3_process_request_context, Enter
<1>9. CASE PerformReturns \/ PerformFails
  BY <1>9 DEF PerformReturns, PerformFails, Leave
<1>10. CASE ProcessMessage
  <2>1. PICK m \in messages : /\ messages' = messages \ {m} /\ Unlink(m.request)
                              /\ retry' = TRUE \/ Leave("InternalError")
    BY <1>10 DEF ProcessMessage
  <2>2. /\ requests' \in Requests \cup {NoRequest}
        /\ prev' \in [Requests -> Requests \cup {NoRequest}]
        /\ next' \in [Requests -> Requests \cup {NoRequest}]
    BY <2>1 DEF Unlink
  <2> QED
    BY <1>10, <2>1, <2>2 DEF ProcessMessage, Leave
<1>11. CASE ProcessFails \/ ProcessDone
  BY <1>11 DEF ProcessFails, ProcessDone, Leave
<1>12. CASE S3_destroy_request_context \/ DestroyNext
  BY <1>12 DEF S3_destroy_request_context, DestroyNext
<1>13. CASE Finish \/ Release
  BY <1>13 DEF Finish, Release, Report
<1>14. CASE Stopped \/ UNCHANGED vars
  BY <1>14 DEF Stopped
<1> QED
  BY <1>1, <1>2, <1>3, <1>4, <1>5, <1>6, <1>7, <1>8, <1>9, <1>10, <1>11, <1>12, <1>13,
     <1>14 DEF Next, request_perform

-----------------------------------------------------------------------------
(* The list                                                                *)

\* A Request that is in no ring is put into the list, if that is a ring.
LEMMA LinkIntoRing ==
  ASSUME TypeOK, NEW S \in SUBSET Requests, RingLinks(S), requests \in S \cup {NoRequest},
         NEW r \in Requests, r \notin S, LinkAfterClearing(r)
  PROVE  /\ UNCHANGED pc
         /\ requests' \in S \cup {r}
         /\ RingLinks(S \cup {r})'
         /\ \A x \in Requests \ (S \cup {r}) : prev'[x] = prev[x] /\ next'[x] = next[x]
<1> USE ContextAssumption DEF TypeOK, RingLinks
<1>1. CASE requests = NoRequest
  <2>1. /\ prev' = [prev EXCEPT ![r] = r] /\ next' = [next EXCEPT ![r] = r]
        /\ requests' = r /\ UNCHANGED pc
    BY <1>1 DEF LinkAfterClearing
  <2> QED
    BY <2>1
<1>2. CASE requests # NoRequest
  <2> DEFINE last == prev[requests]
  <2>1. requests \in S /\ last \in S /\ next[last] = requests
    BY <1>2
  <2>2. /\ prev' = [prev EXCEPT ![r] = last, ![requests] = r]
        /\ next' = [next EXCEPT ![r] = requests, ![last] = r]
        /\ UNCHANGED <<requests, pc>>
    BY <1>2, <2>1 DEF LinkAfterClearing
  <2>3. ASSUME NEW x \in Requests
        PROVE  /\ prev'[x] = IF x = requests THEN r ELSE IF x = r THEN last ELSE prev[x]
               /\ next'[x] = IF x = last THEN r ELSE IF x = r THEN requests ELSE next[x]
    BY <2>1, <2>2
  <2> QED
    BY <2>1, <2>2, <2>3
<1> QED
  BY <1>1, <1>2

\* A Request of a ring is taken from the list; one of the two of a ring of two
\* leaves the other behind as one that Unlink takes for the last.
LEMMA UnlinkFromRing ==
  ASSUME TypeOK, NEW S \in SUBSET Requests, RingLinks(S), requests \in S \cup {NoRequest},
         NEW r \in Requests, r \in S \/ prev[r] = next[r], Unlink(r)
  PROVE  \E T \in SUBSET S : 
           /\ r \notin T
           /\ requests' \in T \cup {NoRequest}
           /\ RingLinks(T)'
           /\ \A x \in S \ T : x = r \/ prev'[x] = next'[x]
           /\ \A x \in Requests \ S : prev'[x] = prev[x] /\ next'[x] = next[x]
<1> USE ContextAssumption DEF TypeOK, RingLinks
<1>1. CASE prev[r] = next[r]
  <2>1. requests' = NoRequest /\ UNCHANGED links
    BY <1>1 DEF Unlink
  <2>2. CASE r \in S
    <3>1. PICK w \in S : w = next[r] /\ w = prev[r] /\ next[w] = r /\ prev[w] = r
      BY <1>1, <2>2
    <3> DEFINE T == S \ {r, w}
    <3>2. \A x \in T : next[x] \in T /\ prev[x] \in T
      BY <1>1, <2>2, <3>1
    <3>3. UNCHANGED <<prev, next>>
      BY <2>1 DEF links
    <3>4. RingLinks(T)'
      BY <3>2, <3>3
    <3>5. \A x \in S \ T : x = r \/ prev'[x] = next'[x]
      BY <3>1, <3>3
    <3>6. T \in SUBSET S /\ r \notin T
      OBVIOUS
    <3> HIDE DEF T
    <3> QED
      BY <2>1, <3>3, <3>4, <3>5, <3>6
  <2>3. CASE r \notin S
    BY <2>1, <2>3 DEF links
  <2> QED
    BY <2>2, <2>3
<1>2. CASE prev[r] # next[r]
  <2>1. PICK p \in S, n \in S : p = prev[r] /\ n = next[r]
    BY <1>2
  <2> DEFINE T == S \ {r}
  <2>0. r \in S /\ p # n /\ next[p] = r /\ prev[n] = r
    BY <1>2, <2>1
  <2>2. p # r /\ n # r
    BY <2>0, <2>1
  <2>3. /\ requests' = n
        /\ next' = [next EXCEPT ![p] = n]
        /\ prev' = [prev EXCEPT ![n] = p]
    BY <1>2, <2>1 DEF Unlink
  <2>4. RingLinks(T)'
    <3> SUFFICES ASSUME NEW x \in T
                 PROVE  /\ next'[x] \in T /\ prev'[x] \in T
                        /\ next'[prev'[x]] = x /\ prev'[next'[x]] = x
      BY DEF RingLinks
    <3>1. x \in S /\ x # r
      OBVIOUS
    <3>2. next'[x] = IF x = p THEN n ELSE next[x]
      BY <2>3, <3>1
    <3>3. prev'[x] = IF x = n THEN p ELSE prev[x]
      BY <2>3, <3>1
    <3>4. x # p => next[x] # r
      BY <2>0, <2>1, <3>1
    <3>5. x # n => prev[x] # r
      BY <2>0, <2>1, <3>1
    <3>6. next'[x] \in T /\ prev'[x] \in T
      BY <2>0, <2>1, <2>2, <3>1, <3>2, <3>3, <3>4, <3>5
    <3>7. next'[prev'[x]] = x
      <4>1. CASE x = n
        BY <2>0, <2>1, <2>3, <3>3, <4>1
      <4>2. CASE x # n
        <5>1. prev[x] # p
          BY <2>0, <2>1, <3>1, <4>2
        <5> QED
          BY <2>3, <3>1, <3>3, <4>2, <5>1
      <4> QED
        BY <4>1, <4>2
    <3>8. prev'[next'[x]] = x
      <4>1. CASE x = p
        BY <2>0, <2>1, <2>3, <3>2, <4>1
      <4>2. CASE x # p
        <5>1. next[x] # n
          BY <2>0, <2>1, <3>1, <4>2
        <5> QED
          BY <2>3, <3>1, <3>2, <4>2, <5>1
      <4> QED
        BY <4>1, <4>2
    <3> QED
      BY <3>6, <3>7, <3>8
  <2>5. \A x \in Requests \ S : prev'[x] = prev[x] /\ next'[x] = next[x]
    BY <2>0, <2>1, <2>3
  <2>6. T \in SUBSET S /\ requests' \in T
    BY <2>0, <2>1, <2>2, <2>3
  <2> QED
    BY <2>4, <2>5, <2>6
<1> QED
  BY <1>1, <1>2

-----------------------------------------------------------------------------
(* The Requests on the list                                                *)

\* With each Request of T the next one is in T.
Onward(T) == \A x \in T : next[x] \in T

\* In a finite ring who goes on comes back.
LEMMA OnwardIsBackward ==
  ASSUME NEW S, IsFiniteSet(S), RingLinks(S), NEW T \in SUBSET S, Onward(T)
  PROVE  \A x \in T : prev[x] \in T
<1> DEFINE f == [x \in T |-> next[x]]
<1>1. IsFiniteSet(T)
  BY FS_Subset
<1>2. f \in [T -> T]
  BY DEF Onward
<1>3. \A x \in T : prev[f[x]] = x
  BY DEF RingLinks
<1>4. f \in Injection(T, T)
  BY <1>2, <1>3 DEF Injection, IsInjective
<1>5. f \in Surjection(T, T)
  BY <1>1, <1>4, FS_Injection
<1>6. ASSUME NEW x \in T PROVE prev[x] \in T
  <2>1. PICK y \in T : f[y] = x
    BY <1>5 DEF Surjection
  <2> QED
    BY <1>3, <2>1
<1> QED
  BY <1>6

\* The list is the smallest part of the rings that has its head and goes on.
LEMMA ListedInRing ==
  ASSUME TypeOK, NEW S \in SUBSET Requests, RingLinks(S), requests \in S \cup {NoRequest}
  PROVE  /\ Listed \subseteq S
         /\ requests \in Listed \cup {NoRequest}
         /\ requests = NoRequest => Listed = {}
         /\ Onward(Listed)
         /\ \A T \in SUBSET S : requests \in T /\ Onward(T) => Listed \subseteq T
<1> USE ContextAssumption
<1> DEFINE Holds(T) == ({requests} \cup {next[s] : s \in T}) \ {NoRequest} \subseteq T
<1>1. Listed = {r \in Requests : \A T \in SUBSET Requests : Holds(T) => r \in T}
  BY DEF Listed
<1>2. ASSUME NEW T \in SUBSET S, requests \in T \cup {NoRequest}, Onward(T)
      PROVE  Listed \subseteq T
  <2>1. Holds(T)
    BY <1>2 DEF Onward
  <2> HIDE DEF Holds
  <2> QED
    BY <1>1, <2>1
<1>3. Listed \subseteq S
  BY <1>2 DEF RingLinks, Onward
<1>4. requests = NoRequest => Listed = {}
  <2>1. Onward({})
    BY DEF Onward
  <2> QED
    BY <1>2, <2>1
<1>5. requests \in Listed \cup {NoRequest}
  BY <1>1
<1>6. ASSUME NEW x \in Listed PROVE next[x] \in Listed
  <2>1. x \in S /\ next[x] \in S
    BY <1>3, <1>6 DEF RingLinks
  <2>2. ASSUME NEW T \in SUBSET Requests, Holds(T) PROVE next[x] \in T
    <3>1. x \in T
      BY <1>1, <1>6, <2>2
    <3>2. next[x] # NoRequest
      BY <2>1
    <3> QED
      BY <2>2, <3>1, <3>2
  <2> HIDE DEF Holds
  <2> QED
    BY <1>1, <2>1, <2>2
<1> QED
  BY <1>2, <1>3, <1>4, <1>5, <1>6 DEF Onward

\* So it is one ring: whoever goes on from one of it comes to all.
LEMMA ListedConnected ==
  ASSUME TypeOK, NEW S \in SUBSET Requests, IsFiniteSet(S), RingLinks(S),
         requests \in S \cup {NoRequest},
         NEW T \in SUBSET S, Onward(T), NEW r \in T, r \in Listed
  PROVE  Listed \subseteq T
<1>1. \A x \in T : prev[x] \in T
  BY OnwardIsBackward
<1>2. Onward(S \ T)
  BY <1>1 DEF Onward, RingLinks
<1>3. requests \notin S \ T
  BY <1>2, ListedInRing
<1>4. requests # NoRequest
  BY ListedInRing
<1> QED
  BY <1>3, <1>4, ListedInRing

\* What was listed stays so if neither the head nor a link of it changes.
LEMMA ListedKept ==
  ASSUME TypeOK, TypeOK', NEW S \in SUBSET Requests, RingLinks(S),
         requests \in S \cup {NoRequest},
         UNCHANGED requests, \A x \in S : next'[x] = next[x]
  PROVE  Listed \subseteq Listed'
<1> DEFINE Holds(T) == ({requests} \cup {next[s] : s \in T}) \ {NoRequest} \subseteq T
           HoldsNow(T) == ({requests'} \cup {next'[s] : s \in T}) \ {NoRequest} \subseteq T
<1>1. Listed' = {r \in Requests : \A T \in SUBSET Requests : HoldsNow(T) => r \in T}
  BY DEF Listed
<1>2. ASSUME NEW T \in SUBSET Requests, HoldsNow(T) PROVE Listed \subseteq T
  <2>1. requests = NoRequest => Listed = {}
    BY ListedInRing
  <2>2. requests # NoRequest => requests \in T \cap S
    BY <1>2
  <2>3. Onward(T \cap S)
    BY <1>2, ContextAssumption DEF Onward, RingLinks
  <2> QED
    BY <2>1, <2>2, <2>3, ListedInRing
<1>3. Listed \subseteq Requests
  BY DEF Listed
<1> HIDE DEF HoldsNow
<1> QED
  BY <1>1, <1>2, <1>3

\* A Request that is put into the list is on it with all that were.
LEMMA ListedLinked ==
  ASSUME TypeOK, TypeOK', NEW S \in SUBSET Requests, IsFiniteSet(S), RingLinks(S),
         requests \in S \cup {NoRequest},
         NEW r \in Requests, r \notin S, LinkAfterClearing(r)
  PROVE  Listed \cup {r} \subseteq Listed'
<1> USE ContextAssumption
<1> DEFINE HoldsNow(T) == ({requests'} \cup {next'[s] : s \in T}) \ {NoRequest} \subseteq T
<1>1. Listed' = {x \in Requests : \A T \in SUBSET Requests : HoldsNow(T) => x \in T}
  BY DEF Listed
<1>2. ASSUME NEW T \in SUBSET Requests, HoldsNow(T) PROVE Listed \cup {r} \subseteq T
  <2>1. CASE requests = NoRequest
    <3>1. requests' = r
      BY <2>1 DEF LinkAfterClearing
    <3>2. Listed = {}
      BY <2>1, ListedInRing
    <3> QED
      BY <1>2, <3>1, <3>2
  <2>2. CASE requests # NoRequest
    <3> DEFINE last == prev[requests]
    <3>1. requests \in S /\ last \in S /\ next[last] = requests
      BY <2>2 DEF RingLinks
    <3>2. /\ next' = [next EXCEPT ![r] = requests, ![last] = r]
          /\ UNCHANGED requests
      BY <2>2, <3>1 DEF LinkAfterClearing, TypeOK
    <3>3. \A x \in S : next'[x] = IF x = last THEN r ELSE next[x]
      BY <3>1, <3>2 DEF TypeOK
    <3>4. requests \in T \cap S
      BY <1>2, <3>1, <3>2
    <3>5. Onward(T \cap S)
      <4> SUFFICES ASSUME NEW x \in T \cap S PROVE next[x] \in T \cap S
        BY DEF Onward
      <4>1. next[x] \in S
        BY DEF RingLinks
      <4>2. next'[x] # NoRequest => next'[x] \in T
        BY <1>2
      <4> QED
        BY <3>1, <3>3, <3>4, <4>1, <4>2
    <3>6. last \in T
      BY <3>4, <3>5, OnwardIsBackward
    <3>7. r \in T
      BY <1>2, <3>1, <3>3, <3>6
    <3>8. Listed \subseteq T
      BY <3>4, <3>5, ListedInRing
    <3> QED
      BY <3>7, <3>8
  <2> QED
    BY <2>1, <2>2
<1>3. Listed \subseteq Requests
  BY DEF Listed
<1> HIDE DEF HoldsNow
<1> QED
  BY <1>1, <1>2, <1>3

\* One of three or more is taken from the list, and the others stay.
LEMMA ListedUnlinked ==
  ASSUME TypeOK, TypeOK', NEW S \in SUBSET Requests, IsFiniteSet(S), RingLinks(S),
         requests \in S \cup {NoRequest},
         NEW r \in Listed, prev[r] # next[r], Unlink(r)
  PROVE  Listed \ {r} \subseteq Listed'
<1> USE ContextAssumption
<1> DEFINE HoldsNow(T) == ({requests'} \cup {next'[s] : s \in T}) \ {NoRequest} \subseteq T
<1>1. Listed' = {x \in Requests : \A T \in SUBSET Requests : HoldsNow(T) => x \in T}
  BY DEF Listed
<1>2. r \in S
  BY ListedInRing
<1>3. PICK p \in S, n \in S : p = prev[r] /\ n = next[r] /\ next[p] = r
  BY <1>2 DEF RingLinks
<1>4. requests' = n /\ next' = [next EXCEPT ![p] = n]
  BY <1>3 DEF Unlink
<1>5. n # r
  BY <1>2, <1>3 DEF RingLinks
<1>6. ASSUME NEW T \in SUBSET Requests, HoldsNow(T) PROVE Listed \ {r} \subseteq T
  <2> DEFINE U == (T \cap S) \cup {r}
  <2>1. n \in T
    BY <1>3, <1>4, <1>6
  <2>2. Onward(U)
    <3> SUFFICES ASSUME NEW x \in U PROVE next[x] \in U
      BY DEF Onward
    <3>1. CASE x = r
      BY <1>3, <2>1, <3>1
    <3>2. CASE x = p
      BY <1>3, <3>2
    <3>3. CASE x # r /\ x # p
      <4>1. x \in T /\ x \in S /\ next[x] \in S
        BY <3>3 DEF RingLinks
      <4>2. next'[x] = next[x]
        BY <1>4, <3>3, <4>1 DEF TypeOK
      <4>3. next[x] \in T
        BY <1>6, <4>1, <4>2
      <4> QED
        BY <4>1, <4>3
    <3> QED
      BY <3>1, <3>2, <3>3
  <2>3. U \in SUBSET S /\ r \in U
    BY <1>2
  <2> HIDE DEF U
  <2>4. Listed \subseteq U
    BY <2>2, <2>3, ListedConnected
  <2> QED
    BY <2>4 DEF U
<1>7. Listed \subseteq Requests
  BY DEF Listed
<1> HIDE DEF HoldsNow
<1> QED
  BY <1>1, <1>6, <1>7

-----------------------------------------------------------------------------
(* Control                                                                 *)

LEMMA ControlStep == TypeOK /\ Control /\ Linked /\ [Next]_vars => Control'
<1> SUFFICES ASSUME TypeOK, Control, Linked, [Next]_vars
             PROVE  Control'
  OBVIOUS
<1> USE DEF Control, Finishing, vars, control
<1>1. ASSUME NEW c \in Calls, request_perform(c) PROVE Control'
  <2>1. \/ UNCHANGED pc
        \/ \E r \in Requests \ inUse : LinkAfterClearing(r)
    BY <1>1 DEF request_perform, SubmitRejected, SubmitAdded, SubmitNotAdded,
                SubmitOptionFails, Prepare, Available
  <2>2. Submit(c)
    BY <1>1 DEF request_perform, SubmitRejected, SubmitAdded, SubmitNotAdded,
                SubmitOptionFails
  <2>3. UNCHANGED op /\ pc \in {"user", "callback"}
    BY <2>2 DEF Submit
  <2>4. CASE op # "destroy"
    BY <2>1, <2>3, <2>4, LinkIntoRing DEF Linked, Rings
  <2>5. CASE op = "destroy"
    BY <2>1, <2>3, <2>5 DEF LinkAfterClearing
  <2> QED
    BY <2>4, <2>5
<1>2. ASSUME NEW flag \in BOOLEAN, S3_set_request_context_verify_peer(flag) PROVE Control'
  BY <1>2 DEF S3_set_request_context_verify_peer
<1>3. ASSUME NEW r \in Requests, ReceiveHeaders(r) \/ ReceiveData(r) \/ TransferDone(r)
      PROVE  Control'
  BY <1>3 DEF ReceiveHeaders, ReceiveData, TransferDone
<1>4. CASE S3_runonce_request_context \/ S3_runall_request_context \/ S3_process_request_context
  BY <1>4 DEF S3_runonce_request_context, S3_runall_request_context,
              S3_process_request_context, Enter
<1>5. CASE PerformReturns \/ PerformFails
  BY <1>5 DEF PerformReturns, PerformFails, Leave
<1>6. CASE ProcessMessage \/ ProcessFails \/ ProcessDone
  BY <1>6 DEF ProcessMessage, ProcessFails, ProcessDone, Leave
<1>7. CASE S3_destroy_request_context \/ DestroyNext
  BY <1>7 DEF S3_destroy_request_context, DestroyNext
<1>8. CASE Finish \/ Release
  BY <1>8 DEF Finish, Release
<1>9. CASE Stopped \/ UNCHANGED vars
  BY <1>9 DEF Stopped
<1> QED
  BY <1>1, <1>2, <1>3, <1>4, <1>5, <1>6, <1>7, <1>8, <1>9 DEF Next

-----------------------------------------------------------------------------
(* Calls and the Requests that serve them                                  *)

\* The history of a call that was not completed before.
LEMMA FirstReport ==
  ASSUME TypeOK, NEW c \in Calls, NEW s, reported[c] = <<>>, Report(c, s)
  PROVE  reported' = [reported EXCEPT ![c] = <<s>>]
<1>1. reported[c] \in Seq({s}) /\ Len(reported[c]) = 0 /\ Append(reported[c], s) = <<s>>
  OBVIOUS
<1> QED
  BY <1>1 DEF Report, TypeOK

\* A call that is made is reported at once, or a Request that was not in use
\* serves it.
LEMMA PerformFacts ==
  ASSUME TypeOK, CallsServed, NEW c \in Calls, request_perform(c)
  PROVE  /\ pc \in {"user", "callback"}
         /\ c \notin submitted /\ submitted' = submitted \cup {c}
         /\ UNCHANGED <<messages, settings, op, current, rFirst, rNext, retry,
                        requestsRemaining>>
         /\ Cardinality(Pending) < MaxPending
         /\ \/ /\ \E s : reported' = [reported EXCEPT ![c] = <<s>>]
               /\ UNCHANGED <<requests, running, inUse, forgotten, pc>>
               /\ \/ UNCHANGED <<prev, next, call>>
                  \/ \E r \in Requests \ inUse :
                       /\ prev' = [prev EXCEPT ![r] = NoRequest]
                       /\ next' = [next EXCEPT ![r] = NoRequest]
                       /\ call' = [call EXCEPT ![r] = c]
            \/ \E r \in Requests \ inUse :
                 /\ LinkAfterClearing(r)
                 /\ running' = running \cup {r}
                 /\ inUse' = inUse \cup {r}
                 /\ call' = [call EXCEPT ![r] = c]
                 /\ forgotten' = IF op = "destroy" THEN forgotten \cup {c} ELSE forgotten
                 /\ UNCHANGED reported
<1>1. Submit(c)
  BY DEF request_perform, SubmitRejected, SubmitAdded, SubmitNotAdded, SubmitOptionFails
<1>2. c \notin submitted /\ reported[c] = <<>>
  BY <1>1 DEF Submit, CallsServed
<1>3. CASE SubmitRejected(c)
  <2>1. reported' = [reported EXCEPT ![c] = <<"FailedToInitializeRequest">>]
    BY <1>2, <1>3, FirstReport DEF SubmitRejected
  <2> QED
    BY <1>1, <1>3, <2>1 DEF SubmitRejected, Submit, links, owners
<1>4. CASE SubmitAdded(c)
  BY <1>1, <1>4 DEF SubmitAdded, Submit, Prepare, Available
<1>5. CASE SubmitNotAdded(c)
  <2>1. \E s : reported' = [reported EXCEPT ![c] = <<s>>]
    BY <1>2, <1>5, FirstReport DEF SubmitNotAdded
  <2> QED
    BY <1>1, <1>5, <2>1 DEF SubmitNotAdded, Submit, Prepare, Available
<1>6. CASE SubmitOptionFails(c)
  <2>1. reported' = [reported EXCEPT ![c] = <<"FailedToInitializeRequest">>]
    BY <1>2, <1>6, FirstReport DEF SubmitOptionFails
  <2> QED
    BY <1>1, <1>6, <2>1 DEF SubmitOptionFails, Submit, Prepare, Available
<1> QED
  BY <1>3, <1>4, <1>5, <1>6 DEF request_perform

\* Control leaves a complete callback with the Request released, or enters one
\* with its call reported.
LEMMA CallsStep ==
  TypeOK /\ Control /\ CallsServed /\ InCurl /\ Linked /\ [Next]_vars => CallsServed'
<1> SUFFICES ASSUME TypeOK, Control, CallsServed, InCurl, Linked, [Next]_vars
             PROVE  CallsServed'
  OBVIOUS
<1>1. ASSUME NEW c \in Calls, request_perform(c) PROVE CallsServed'
  <2> USE DEF TypeOK, CallsServed
  <2>1. /\ pc \in {"user", "callback"} /\ UNCHANGED current
        /\ c \notin submitted /\ submitted' = submitted \cup {c}
    BY <1>1, PerformFacts
  <2>2. CASE /\ \E s : reported' = [reported EXCEPT ![c] = <<s>>]
             /\ UNCHANGED <<inUse, pc>>
             /\ \/ UNCHANGED call
                \/ \E r \in Requests \ inUse : call' = [call EXCEPT ![r] = c]
    <3>1. \A r \in inUse : call'[r] = call[r] /\ call[r] # c
      BY <2>1, <2>2
    <3>2. PICK s : reported' = [reported EXCEPT ![c] = <<s>>]
      BY <2>2
    <3>3. \A d \in Calls : reported'[d] = IF d = c THEN <<s>> ELSE reported[d]
      BY <3>2
    <3> QED
      BY <2>1, <2>2, <3>1, <3>3
  <2>3. ASSUME NEW r \in Requests \ inUse, LinkAfterClearing(r),
               inUse' = inUse \cup {r}, call' = [call EXCEPT ![r] = c],
               UNCHANGED reported
        PROVE  CallsServed'
    <3>1. call'[r] = c /\ \A x \in inUse : call'[x] = call[x] /\ call[x] # c
      BY <2>1, <2>3
    <3>2. ASSUME NEW x \in inUse
          PROVE  \/ pc' \in {"callback", "crashed"} /\ x = current'
                 \/ reported'[call'[x]] = <<>>
      <4>1. CASE ~(pc = "callback" /\ x = current)
        BY <2>1, <2>3, <3>1, <4>1
      <4>2. CASE pc = "callback" /\ x = current
        <5>1. pc' = "callback" \/ pc' = "crashed"
          BY <2>3, <4>2 DEF LinkAfterClearing
        <5> QED
          BY <2>1, <4>2, <5>1
      <4> QED
        BY <4>1, <4>2
    <3> QED
      BY <2>1, <2>3, <3>1, <3>2
  <2> QED
    BY <1>1, <2>2, <2>3, PerformFacts
<1>2. ASSUME NEW flag \in BOOLEAN, S3_set_request_context_verify_peer(flag)
      PROVE  CallsServed'
  BY <1>2 DEF S3_set_request_context_verify_peer, CallsServed, owners, appVars, control
<1>3. ASSUME NEW r \in Requests, ReceiveHeaders(r) \/ ReceiveData(r) \/ TransferDone(r)
      PROVE  CallsServed'
  BY <1>3 DEF ReceiveHeaders, ReceiveData, TransferDone, CallsServed, owners, appVars,
              control
<1>4. CASE S3_runonce_request_context \/ S3_runall_request_context \/ S3_process_request_context
  BY <1>4 DEF S3_runonce_request_context, S3_runall_request_context,
              S3_process_request_context, Enter, CallsServed, owners, appVars
<1>5. CASE PerformReturns \/ PerformFails
  BY <1>5 DEF PerformReturns, PerformFails, Leave, CallsServed, owners, appVars
<1>6. CASE ProcessMessage \/ ProcessFails \/ ProcessDone
  BY <1>6 DEF ProcessMessage, ProcessFails, ProcessDone, Leave, CallsServed, owners,
              appVars
<1>7. CASE S3_destroy_request_context \/ DestroyNext
  BY <1>7 DEF S3_destroy_request_context, DestroyNext, CallsServed, owners, appVars
<1>8. CASE Finish
  <2>1. current \in inUse /\ pc = "finish" /\ pc' = "callback"
    BY <1>8 DEF Finish, InCurl, Finishing
  <2>2. call[current] \in Calls /\ reported[call[current]] = <<>>
    BY <2>1 DEF CallsServed, TypeOK
  <2>3. PICK s : Report(call[current], s)
    BY <1>8 DEF Finish
  <2>4. reported' = [reported EXCEPT ![call[current]] = <<s>>]
    BY <2>2, <2>3, FirstReport
  <2>5. UNCHANGED <<call, inUse, submitted, current>>
    BY <1>8 DEF Finish, owners
  <2>6. \A d \in Calls : reported'[d] = IF d = call[current] THEN <<s>> ELSE reported[d]
    BY <2>4 DEF TypeOK
  <2> QED
    BY <2>1, <2>2, <2>5, <2>6 DEF CallsServed, TypeOK
<1>9. CASE Release
  BY <1>9 DEF Release, CallsServed, appVars
<1>10. CASE Stopped \/ UNCHANGED vars
  BY <1>10 DEF Stopped, vars, CallsServed, owners, appVars, control
<1> QED
  BY <1>1, <1>2, <1>3, <1>4, <1>5, <1>6, <1>7, <1>8, <1>9, <1>10 DEF Next

LEMMA InCurlStep ==
  TypeOK /\ Control /\ CallsServed /\ InCurl /\ Linked /\ [Next]_vars => InCurl'
<1> SUFFICES ASSUME TypeOK, Control, CallsServed, InCurl, Linked, [Next]_vars
             PROVE  InCurl'
  OBVIOUS
<1> USE DEF TypeOK, InCurl, Attached, Finishing
<1>1. ASSUME NEW c \in Calls, request_perform(c) PROVE InCurl'
  <2>1. UNCHANGED <<messages, current>> /\ pc \in {"user", "callback"}
    BY <1>1, PerformFacts
  <2>2. CASE UNCHANGED <<running, inUse, pc>>
    BY <2>1, <2>2
  <2>3. ASSUME NEW r \in Requests \ inUse, LinkAfterClearing(r),
               running' = running \cup {r}, inUse' = inUse \cup {r}
        PROVE  InCurl'
    <3>1. pc' = pc \/ pc' = "crashed"
      BY <2>3 DEF LinkAfterClearing
    <3> QED
      BY <2>1, <2>3, <3>1
  <2> QED
    BY <1>1, <2>2, <2>3, PerformFacts
<1>2. ASSUME NEW flag \in BOOLEAN, S3_set_request_context_verify_peer(flag)
      PROVE  InCurl'
  BY <1>2 DEF S3_set_request_context_verify_peer, multiVars, owners, control
<1>3. ASSUME NEW r \in Requests, ReceiveHeaders(r) \/ ReceiveData(r) PROVE InCurl'
  BY <1>3 DEF ReceiveHeaders, ReceiveData, multiVars, owners, control
<1>4. ASSUME NEW r \in Requests, TransferDone(r) PROVE InCurl'
  <2>1. PICK result \in Results :
          messages' = messages \cup {[request |-> r, result |-> result]}
    BY <1>4 DEF TransferDone
  <2> QED
    BY <1>4, <2>1 DEF TransferDone, owners, control
<1>5. CASE S3_runonce_request_context \/ S3_runall_request_context \/ S3_process_request_context
  BY <1>5 DEF S3_runonce_request_context, S3_runall_request_context,
              S3_process_request_context, Enter, multiVars, owners
<1>6. CASE PerformReturns \/ PerformFails
  BY <1>6 DEF PerformReturns, PerformFails, Leave, multiVars, owners
<1>7. CASE ProcessMessage
  <2>1. PICK m \in messages : /\ messages' = messages \ {m}
                              /\ \/ current' = m.request
                                 \/ Leave("InternalError")
    BY <1>7 DEF ProcessMessage
  <2>2. UNCHANGED <<running, inUse>>
    BY <1>7 DEF ProcessMessage, owners
  <2> QED
    BY <2>1, <2>2 DEF Leave
<1>8. CASE ProcessFails \/ ProcessDone
  BY <1>8, Zenon DEF ProcessFails, ProcessDone, Leave, owners, multiVars
<1>9. CASE S3_destroy_request_context
  BY <1>9 DEF S3_destroy_request_context, owners, multiVars
<1>10. CASE DestroyNext
  <2>1. current \in inUse
    BY <1>10 DEF DestroyNext, Linked, Destroying, Ahead
  <2> QED
    BY <1>10, <2>1 DEF DestroyNext, owners
<1>11. CASE Finish
  BY <1>11 DEF Finish, owners, multiVars
<1>12. CASE Release
  BY <1>12 DEF Release, multiVars
<1>13. CASE Stopped \/ UNCHANGED vars
  BY <1>13 DEF Stopped, vars, multiVars, owners, control
<1> QED
  BY <1>1, <1>2, <1>3, <1>4, <1>5, <1>6, <1>7, <1>8, <1>9, <1>10, <1>11, <1>12, <1>13
  DEF Next

-----------------------------------------------------------------------------
(* The list and S3_destroy_request_context's way through it                *)

\* What is pending after a call is made.
LEMMA PendingAdded ==
  ASSUME TypeOK, CallsServed, NEW c \in Calls, c \notin submitted,
         submitted' = submitted \cup {c}
  PROVE  /\ UNCHANGED reported => Pending' = Pending \cup {c}
         /\ \A s : reported' = [reported EXCEPT ![c] = <<s>>] => Pending' = Pending
<1>1. reported[c] = <<>>
  BY DEF CallsServed
<1>2. ASSUME NEW s, reported' = [reported EXCEPT ![c] = <<s>>]
      PROVE  Pending' = Pending
  <2>1. \A d \in Calls : reported'[d] = IF d = c THEN <<s>> ELSE reported[d]
    BY <1>2 DEF TypeOK
  <2>2. <<s>> # <<>>
    OBVIOUS
  <2> QED
    BY <2>1, <2>2 DEF Pending, TypeOK
<1> QED
  BY <1>1, <1>2 DEF Pending

\* request_finish completes the call of the Request.
LEMMA FinishFacts ==
  ASSUME TypeOK, CallsServed, InCurl, Finish
  PROVE  /\ pc = "finish" /\ current \in inUse \ Attached
         /\ call[current] \in Pending
         /\ Pending' = Pending \ {call[current]}
         /\ \E s : reported' = [reported EXCEPT ![call[current]] = <<s>>]
<1>1. pc = "finish" /\ current \in inUse \ Attached
  BY DEF Finish, InCurl, Finishing
<1>2. call[current] \in submitted /\ reported[call[current]] = <<>>
  BY <1>1 DEF CallsServed
<1>3. PICK s : Report(call[current], s)
  BY DEF Finish
<1>4. reported' = [reported EXCEPT ![call[current]] = <<s>>]
  BY <1>2, <1>3, FirstReport DEF TypeOK
<1>5. \A d \in Calls : reported'[d] = IF d = call[current] THEN <<s>> ELSE reported[d]
  BY <1>4 DEF TypeOK
<1>6. UNCHANGED submitted /\ <<s>> # <<>>
  BY DEF Finish
<1> QED
  BY <1>1, <1>2, <1>4, <1>5, <1>6 DEF Pending, TypeOK

\* A Request that is put behind the last one ahead is ahead too, and one that is
\* put behind a Request that was passed is not: in S3_destroy_request_context the
\* head has been finished, but it is still what the list ends at.
LEMMA LinkAhead ==
  ASSUME TypeOK, Finishing, current \in inUse,
         NEW S \in SUBSET Requests, Ahead(S), Way(S),
         NEW r \in Requests \ inUse, LinkAfterClearing(r), pc' # "crashed",
         inUse' = inUse \cup {r}, UNCHANGED <<current, rFirst, rNext>>
  PROVE  \E T \in SUBSET Requests : S \subseteq T /\ Ahead(T)' /\ Way(T)'
<1> USE ContextAssumption DEF TypeOK, Finishing
<1>1. requests = rFirst /\ requests # NoRequest /\ requests \notin S /\ S \subseteq inUse
  BY DEF Ahead
<1>2. UNCHANGED pc /\ UNCHANGED requests
  BY <1>1 DEF LinkAfterClearing
<1>3. r \notin S /\ r # current
  BY <1>1
<1>4. r # requests
  BY <1>1 DEF LinkAfterClearing
<1>5. PICK last \in Requests : last = prev[requests]
  BY <1>1, <1>4 DEF LinkAfterClearing
<1>6. /\ prev' = [prev EXCEPT ![r] = last, ![requests] = r]
      /\ next' = [next EXCEPT ![r] = requests, ![last] = r]
  BY <1>1, <1>4, <1>5 DEF LinkAfterClearing
<1>7. ASSUME NEW x \in Requests
      PROVE  /\ prev'[x] = IF x = requests THEN r ELSE IF x = r THEN last ELSE prev[x]
             /\ next'[x] = IF x = last THEN r ELSE IF x = r THEN requests ELSE next[x]
  BY <1>4, <1>6
<1>8. rNext \in S \cup {rFirst} /\ rNext # r /\ (rNext \in S => prev[rNext] = current)
  BY <1>1, <1>3, <1>4 DEF Ahead
<1>9. rNext \in S => prev'[rNext] = current
  BY <1>1, <1>3, <1>7, <1>8
<1>10. prev'[rFirst] = r /\ next'[r] = (IF r = last THEN r ELSE rFirst)
  BY <1>1, <1>4, <1>7
<1>11. CASE last \in S
  <2>1. next[last] = rFirst /\ last # r
    BY <1>1, <1>3, <1>5, <1>11 DEF Way
  <2>2. ASSUME NEW x \in S \cup {r}
        PROVE  /\ next'[x] \in S \cup {r, rFirst}
               /\ next'[x] \in S \cup {r} => prev'[next'[x]] = x
    <3>1. CASE x = last
      BY <1>4, <1>7, <3>1
    <3>2. CASE x = r
      BY <1>1, <1>4, <1>7, <2>1, <3>2
    <3>3. CASE x # last /\ x # r
      <4>1. x \in S /\ next'[x] = next[x]
        BY <1>7, <3>3
      <4>2. next[x] \in S \cup {rFirst} /\ (next[x] \in S => prev[next[x]] = x)
        BY <4>1 DEF Ahead
      <4>3. next[x] # r /\ (next[x] \in S => prev'[next[x]] = x)
        BY <1>1, <1>3, <1>4, <1>7, <4>2
      <4>4. next[x] = rFirst => next[x] \notin S \cup {r}
        BY <1>1, <1>4
      <4> QED
        BY <4>1, <4>2, <4>3, <4>4
    <3> QED
      BY <3>1, <3>2, <3>3
  <2>3. Ahead(S \cup {r})'
    BY <1>1, <1>2, <1>3, <1>4, <1>8, <1>9, <2>2 DEF Ahead
  <2>4. ASSUME NEW T \in SUBSET (S \cup {r}), rNext \in S \cup {r} => rNext \in T,
               \A x \in T : next'[x] \in S \cup {r} => next'[x] \in T
        PROVE  T = S \cup {r}
    <3> DEFINE U == T \ {r}
    <3>1. U \in SUBSET S /\ (rNext \in S => rNext \in U)
      BY <1>8, <2>4
    <3>2. ASSUME NEW x \in U, next[x] \in S PROVE next[x] \in U
      <4>1. x # last
        BY <1>1, <2>1, <3>2
      <4>2. next'[x] = next[x]
        BY <1>7, <4>1
      <4> QED
        BY <1>3, <2>4, <3>2, <4>2
    <3>3. U = S
      <4> HIDE DEF U
      <4> QED
        BY <3>1, <3>2 DEF Way, Reaches
    <3>4. last \in T /\ next'[last] = r
      BY <1>7, <1>11, <3>3
    <3> QED
      BY <2>4, <3>3, <3>4
  <2>5. Reaches(rNext, S \cup {r})'
    BY <1>2, <2>4 DEF Reaches
  <2>6. Way(S \cup {r})'
    BY <1>2, <1>10, <2>1, <2>5 DEF Way
  <2> QED
    BY <2>3, <2>6
<1>12. CASE last \notin S
  <2>1. ASSUME NEW x \in S
        PROVE next'[x] = next[x] /\ prev'[x] = prev[x]
    BY <1>1, <1>3, <1>7, <1>12, <2>1
  <2>2. Ahead(S)'
    <3>1. ASSUME NEW x \in S
          PROVE  /\ next'[x] \in S \cup {rFirst}
                 /\ next'[x] \in S => prev'[next'[x]] = x
      BY <2>1 DEF Ahead
    <3> QED
      BY <1>1, <1>2, <1>8, <1>9, <3>1 DEF Ahead
  <2>3. Reaches(rNext, S)'
    <3>1. Reaches(rNext, S)
      BY DEF Way
    <3> QED
      BY <1>2, <2>1, <3>1 DEF Reaches
  <2>4. Way(S)'
    BY <1>2, <1>3, <1>10, <2>3 DEF Way
  <2> QED
    BY <2>2, <2>4
<1> QED
  BY <1>11, <1>12

\* S3_destroy_request_context starts with all of the list ahead.
LEMMA StartAhead ==
  ASSUME TypeOK, NEW S \in SUBSET Requests, Rings(S), IsFiniteSet(S), requests # NoRequest
  PROVE  /\ Listed \subseteq inUse
         /\ RingLinks(Listed)
         /\ requests \in Listed
         /\ Reaches(requests, Listed)
<1>1. RingLinks(S) /\ requests \in S \cup {NoRequest} /\ S \subseteq inUse
  BY DEF Rings
<1>2. /\ Listed \subseteq S /\ requests \in Listed /\ Onward(Listed)
      /\ \A T \in SUBSET S : requests \in T /\ Onward(T) => Listed \subseteq T
  BY <1>1, ListedInRing
<1>3. \A x \in Listed : prev[x] \in Listed
  BY <1>1, <1>2, OnwardIsBackward
<1>4. RingLinks(Listed)
  BY <1>1, <1>2, <1>3 DEF RingLinks, Onward
<1>5. ASSUME NEW T \in SUBSET Listed, requests \in Listed => requests \in T,
             \A x \in T : next[x] \in Listed => next[x] \in T
      PROVE  T = Listed
  <2>1. Onward(T)
    BY <1>2, <1>5 DEF Onward
  <2> QED
    BY <1>2, <1>5, <2>1
<1> QED
  BY <1>1, <1>2, <1>4, <1>5 DEF Reaches

\* From one Request to the next, what is ahead is met without the first.
LEMMA ReachesOn ==
  ASSUME NEW S, NEW x \in S, Reaches(x, S)
  PROVE  Reaches(next[x], S \ {x})
<1> SUFFICES ASSUME NEW T \in SUBSET (S \ {x}),
                    next[x] \in S \ {x} => next[x] \in T,
                    \A y \in T : next[y] \in S \ {x} => next[y] \in T
             PROVE  T = S \ {x}
  BY DEF Reaches
<1>1. ASSUME NEW y \in T \cup {x}, next[y] \in S PROVE next[y] \in T \cup {x}
  BY <1>1
<1>2. T \cup {x} \in SUBSET S /\ x \in T \cup {x}
  OBVIOUS
<1>3. T \cup {x} = S
  BY <1>1, <1>2 DEF Reaches
<1> QED
  BY <1>3

\* What is ahead, if only calls are completed or forgotten.
LEMMA AheadKept ==
  ASSUME NEW S \in SUBSET Requests, Ahead(S) /\ Way(S) /\ Served(S),
         UNCHANGED <<requests, prev, next, inUse, pc, current, rFirst, rNext, call>>,
         Pending' \ forgotten' \subseteq Pending \ forgotten
  PROVE  (Ahead(S) /\ Way(S) /\ Served(S))'
BY DEF Ahead, Way, Reaches, Served, Finishing

\* Requests that are not in use are outside of all rings and ways.
LEMMA ClearOutside ==
  ASSUME TypeOK, InCurl, Linked, NEW r \in Requests \ inUse, NEW c,
         prev' = [prev EXCEPT ![r] = NoRequest], next' = [next EXCEPT ![r] = NoRequest],
         call' = [call EXCEPT ![r] = c], Pending' \ forgotten' \subseteq Pending \ forgotten,
         Finishing => current \in inUse,
         UNCHANGED <<requests, running, messages, inUse, op, pc, current, rFirst, rNext>>
  PROVE  Linked'
<1>1. \A x \in Requests \ {r} : prev'[x] = prev[x] /\ next'[x] = next[x] /\ call'[x] = call[x]
  BY DEF TypeOK
<1>2. UNCHANGED Attached /\ r \notin Attached /\ (Finishing' <=> Finishing)
  BY DEF Attached, InCurl, Finishing
<1>3. ASSUME NEW S \in SUBSET Requests, Rings(S)
      PROVE  Rings(S)'
  BY <1>1, <1>2, <1>3 DEF Rings, RingLinks, TypeOK, InCurl
<1>4. ASSUME NEW S \in SUBSET Requests, Ahead(S), Way(S), Served(S)
      PROVE  (Ahead(S) /\ Way(S) /\ Served(S))'
  <2>1. r \notin S /\ rFirst \in Requests
    BY <1>4 DEF Ahead
  <2>2. \A x \in S : prev'[x] = prev[x] /\ next'[x] = next[x] /\ call'[x] = call[x]
    BY <1>1, <2>1
  <2>3. Ahead(S)'
    BY <1>2, <1>4, <2>1, <2>2 DEF Ahead, TypeOK
  <2>4. Reaches(IF pc = "destroy" THEN current ELSE rNext, S)'
    BY <1>4, <2>2 DEF Way, Reaches
  <2>5. prev'[rFirst] \in S => next'[prev'[rFirst]] = rFirst
    BY <1>4, <2>1, <2>2, ContextAssumption DEF Way, TypeOK
  <2>6. Served(S)'
    <3>1. ASSUME NEW d \in Pending' \ forgotten'
          PROVE  (\E x \in S : call'[x] = d) \/ (pc' = "finish" /\ call'[current'] = d)
      <4>1. (\E x \in S : call[x] = d) \/ (pc = "finish" /\ call[current] = d)
        BY <1>4 DEF Served
      <4>2. pc = "finish" => current \in Requests \ {r}
        BY DEF Finishing, TypeOK
      <4> QED
        BY <1>1, <2>2, <4>1, <4>2
    <3> QED
      BY <3>1 DEF Served
  <2> QED
    BY <2>3, <2>4, <2>5, <2>6 DEF Way
<1>5. Destroying' <=> Destroying
  BY <1>2 DEF Destroying
<1> QED
  BY <1>3, <1>4, <1>5 DEF Linked

\* A step that leaves alone what the rings are made of.
LEMMA RingsKept ==
  ASSUME NEW S \in SUBSET Requests, Rings(S), UNCHANGED <<requests, prev, next>>,
         S \subseteq inUse', Attached' \subseteq Attached, Finishing' => current' \notin S
  PROVE  Rings(S)'
BY DEF Rings, RingLinks

LEMMA LinkedStep ==
  TypeOK /\ Control /\ CallsServed /\ InCurl /\ Linked /\ Kept /\ [Next]_vars => Linked'
<1> SUFFICES ASSUME TypeOK, Control, CallsServed, InCurl, Linked, Kept, [Next]_vars
             PROVE  Linked'
  OBVIOUS
<1>1. ASSUME NEW c \in Calls, request_perform(c) PROVE Linked'
  <2>1. /\ UNCHANGED <<messages, op, current, rFirst, rNext>> /\ pc \in {"user", "callback"}
        /\ c \notin submitted /\ submitted' = submitted \cup {c}
    BY <1>1, PerformFacts
  <2>2. CASE /\ \E s : reported' = [reported EXCEPT ![c] = <<s>>]
             /\ UNCHANGED <<requests, running, inUse, forgotten, pc>>
             /\ \/ UNCHANGED <<prev, next, call>>
                \/ \E r \in Requests \ inUse :
                     /\ prev' = [prev EXCEPT ![r] = NoRequest]
                     /\ next' = [next EXCEPT ![r] = NoRequest]
                     /\ call' = [call EXCEPT ![r] = c]
    <3>1. Pending' \ forgotten' \subseteq Pending \ forgotten
      BY <2>1, <2>2, PendingAdded
    <3>2. CASE UNCHANGED <<prev, next, call>>
      <4>1. ASSUME NEW S \in SUBSET Requests, Rings(S) PROVE Rings(S)'
        BY <2>1, <2>2, <3>2, <4>1 DEF Rings, RingLinks, Attached, Finishing
      <4>2. ASSUME NEW S \in SUBSET Requests, Ahead(S) /\ Way(S) /\ Served(S)
            PROVE  (Ahead(S) /\ Way(S) /\ Served(S))'
        BY <2>1, <2>2, <3>1, <3>2, <4>2, AheadKept
      <4> QED
        BY <2>1, <2>2, <4>1, <4>2 DEF Linked, Destroying, Finishing
    <3>3. CASE \E r \in Requests \ inUse :
                     /\ prev' = [prev EXCEPT ![r] = NoRequest]
                     /\ next' = [next EXCEPT ![r] = NoRequest]
                     /\ call' = [call EXCEPT ![r] = c]
      BY <2>1, <2>2, <3>1, <3>3, ClearOutside DEF InCurl
    <3> QED
      BY <2>2, <3>2, <3>3
  <2>3. ASSUME NEW r \in Requests \ inUse, LinkAfterClearing(r),
               running' = running \cup {r}, inUse' = inUse \cup {r},
               call' = [call EXCEPT ![r] = c], UNCHANGED reported,
               forgotten' = IF op = "destroy" THEN forgotten \cup {c} ELSE forgotten
        PROVE  Linked'
    <3>1. CASE op # "destroy"
      <4>1. PICK S \in SUBSET Requests : Rings(S)
        BY <3>1 DEF Linked
      <4>2. r \notin S /\ S \subseteq inUse
        BY <4>1 DEF Rings
      <4>3. /\ UNCHANGED pc
            /\ requests' \in S \cup {r}
            /\ RingLinks(S \cup {r})'
            /\ \A x \in Requests \ (S \cup {r}) : prev'[x] = prev[x] /\ next'[x] = next[x]
        BY <2>3, <4>1, <4>2, LinkIntoRing DEF Rings
      <4>4. Attached' = Attached \cup {r}
        BY <2>1, <2>3 DEF Attached
      <4>5. Attached \subseteq Requests
        BY DEF InCurl, TypeOK
      <4>6. \A x \in Attached' \ (S \cup {r}) : prev'[x] = next'[x]
        BY <4>1, <4>3, <4>4, <4>5 DEF Rings
      <4>7. Finishing' => current' \notin S \cup {r}
        BY <2>1, <4>1, <4>3 DEF Rings, InCurl, Finishing
      <4>8. Rings(S \cup {r})'
        BY <2>3, <4>2, <4>3, <4>6, <4>7 DEF Rings
      <4> QED
        BY <2>1, <3>1, <4>3, <4>8 DEF Linked, Destroying
    <3>2. CASE op = "destroy"
      <4>1. Finishing /\ current \in inUse
        BY <2>1, <3>2 DEF Control, Finishing, InCurl
      <4>2. PICK S \in SUBSET Requests : Ahead(S) /\ Way(S) /\ Served(S)
        BY <3>2, <4>1 DEF Linked, Destroying
      <4>3. CASE pc' = "crashed"
        BY <2>1, <3>2, <4>3 DEF Linked, Destroying, Finishing
      <4>4. CASE pc' # "crashed"
        <5>1. PICK T \in SUBSET Requests : S \subseteq T /\ Ahead(T)' /\ Way(T)'
          BY <2>1, <2>3, <4>1, <4>2, <4>4, LinkAhead
        <5>2. Pending' \ forgotten' \subseteq Pending \ forgotten
          BY <2>1, <2>3, <3>2, PendingAdded
        <5>3. \A x \in inUse : call'[x] = call[x]
          BY <2>3 DEF TypeOK
        <5>4. S \subseteq inUse
          BY <4>2 DEF Ahead
        <5>5. UNCHANGED pc
          BY <2>3, <4>4 DEF LinkAfterClearing
        <5>6. Served(T)'
          BY <2>1, <4>1, <4>2, <5>1, <5>2, <5>3, <5>4, <5>5 DEF Served
        <5> QED
          BY <2>1, <3>2, <5>1, <5>6 DEF Linked
      <4> QED
        BY <4>3, <4>4
    <3> QED
      BY <3>1, <3>2
  <2> QED
    BY <1>1, <2>2, <2>3, PerformFacts
<1>2. ASSUME NEW flag \in BOOLEAN, S3_set_request_context_verify_peer(flag)
      PROVE  Linked'
  BY <1>2 DEF S3_set_request_context_verify_peer, Linked, Rings, RingLinks, Destroying,
              Attached, Finishing, Control, multiVars, links, owners, control
<1>3. ASSUME NEW r \in Requests, ReceiveHeaders(r) \/ ReceiveData(r)
      PROVE  Linked'
  <2>1. ~Destroying'
    BY <1>3 DEF ReceiveHeaders, ReceiveData, CurlActive, Control, Destroying, Finishing,
                control
  <2> QED
    BY <1>3, <2>1 DEF ReceiveHeaders, ReceiveData, Linked, Rings, RingLinks, Attached,
                      Finishing, contextVars, multiVars, links, owners, control
<1>4. ASSUME NEW r \in Requests, TransferDone(r) PROVE Linked'
  <2>1. PICK result \in Results :
          messages' = messages \cup {[request |-> r, result |-> result]}
    BY <1>4 DEF TransferDone
  <2> DEFINE m == [request |-> r, result |-> result]
  <2>2. m.request = r /\ messages' = messages \cup {m}
    BY <2>1
  <2> HIDE DEF m
  <2>3. Attached' = Attached
    BY <1>4, <2>2 DEF TransferDone, Attached
  <2> QED
    <3>1. ~Destroying'
      BY <1>4 DEF TransferDone, CurlActive, Control, Destroying, Finishing, control
    <3> QED
      BY <1>4, <2>3, <3>1 DEF TransferDone, Linked, Rings, RingLinks, Finishing,
                              contextVars, links, owners, control
<1>5. CASE S3_runonce_request_context \/ S3_runall_request_context \/ S3_process_request_context
  <2>1. UNCHANGED <<requests, prev, next, running, messages, inUse>> /\ ~Finishing'
    BY <1>5 DEF S3_runonce_request_context, S3_runall_request_context,
                S3_process_request_context, Enter, Finishing, contextVars, multiVars,
                links, owners
  <2>2. op # "destroy" /\ op' # "destroy" /\ pc' # "destroy"
    BY <1>5 DEF S3_runonce_request_context, S3_runall_request_context,
                S3_process_request_context, Enter, Control
  <2> QED
    BY <2>1, <2>2 DEF Linked, Destroying, Rings, RingLinks, Attached
<1>6. CASE PerformReturns \/ PerformFails
  <2>1. UNCHANGED <<requests, prev, next, running, messages, inUse>> /\ ~Finishing'
    BY <1>6 DEF PerformReturns, PerformFails, Leave, Finishing, contextVars, multiVars,
                links, owners
  <2>2. op # "destroy" /\ op' # "destroy" /\ pc' # "destroy"
    BY <1>6 DEF PerformReturns, PerformFails, Leave, Control
  <2> QED
    BY <2>1, <2>2 DEF Linked, Destroying, Rings, RingLinks, Attached
<1>7. CASE ProcessMessage
  <2>1. PICK m \in messages : /\ messages' = messages \ {m} /\ Unlink(m.request)
                              /\ \/ current' = m.request
                                 \/ Leave("InternalError")
    BY <1>7 DEF ProcessMessage
  <2>2. UNCHANGED <<running, inUse>> /\ op # "destroy" /\ op' # "destroy"
    BY <1>7 DEF ProcessMessage, Leave, owners, Control
  <2>3. Attached' = Attached \ {m.request} /\ m.request \in Attached
    BY <2>1, <2>2 DEF Attached, InCurl
  <2>4. Attached \subseteq inUse /\ inUse \subseteq Requests
    BY DEF InCurl, TypeOK
  <2>5. PICK S \in SUBSET Requests : Rings(S)
    BY <2>2 DEF Linked
  <2>6. PICK T \in SUBSET S :
           /\ m.request \notin T
           /\ requests' \in T \cup {NoRequest}
           /\ RingLinks(T)'
           /\ \A x \in S \ T : x = m.request \/ prev'[x] = next'[x]
           /\ \A x \in Requests \ S : prev'[x] = prev[x] /\ next'[x] = next[x]
    BY <2>1, <2>3, <2>4, <2>5, UnlinkFromRing DEF Rings
  <2>7. \A x \in Attached' \ T : prev'[x] = next'[x]
    BY <2>3, <2>4, <2>5, <2>6 DEF Rings
  <2>8. Finishing' => current' \notin T
    BY <2>1, <2>6 DEF Leave, Finishing
  <2>9. Rings(T)'
    BY <2>2, <2>5, <2>6, <2>7, <2>8 DEF Rings
  <2>10. pc' # "destroy"
    BY <1>7 DEF ProcessMessage, Leave
  <2> QED
    BY <2>2, <2>9, <2>10 DEF Linked, Destroying
<1>8. CASE ProcessFails \/ ProcessDone
  <2>1. UNCHANGED <<requests, prev, next, running, inUse>> /\ ~Finishing'
    BY <1>8 DEF ProcessFails, ProcessDone, Leave, Finishing, contextVars, multiVars,
                links, owners
  <2>2. op # "destroy" /\ op' # "destroy" /\ pc' # "destroy"
    BY <1>8 DEF ProcessFails, ProcessDone, Leave, Control
  <2>3. messages' \subseteq messages
    BY <1>8 DEF ProcessFails, ProcessDone, multiVars
  <2>4. Attached' \subseteq Attached
    BY <2>1, <2>3 DEF Attached
  <2>5. PICK S \in SUBSET Requests : Rings(S)
    BY <2>2 DEF Linked
  <2>6. Rings(S)'
    BY <2>1, <2>4, <2>5, RingsKept DEF Rings
  <2> QED
    BY <2>1, <2>2, <2>6 DEF Linked, Destroying
<1>9. CASE S3_destroy_request_context
  <2>1. /\ UNCHANGED <<requests, prev, next, inUse, call, submitted, reported, forgotten>>
        /\ op # "destroy" /\ pc = "user" /\ op' = "destroy"
        /\ rFirst' = requests /\ current' = requests
        /\ pc' = IF requests = NoRequest THEN "freed" ELSE "destroy"
    BY <1>9 DEF S3_destroy_request_context, Control, contextVars, links, owners, appVars
  <2>2. PICK S \in SUBSET Requests : Rings(S)
    BY <2>1 DEF Linked
  <2>3. CASE requests = NoRequest
    BY <2>1, <2>3 DEF Linked, Destroying, Finishing
  <2>4. CASE requests # NoRequest
    <3>1. IsFiniteSet(S)
      BY <2>2, FS_Subset DEF Rings, Kept
    <3>2. /\ Listed \subseteq inUse /\ RingLinks(Listed) /\ requests \in Listed
          /\ Reaches(requests, Listed)
      BY <2>2, <2>4, <3>1, StartAhead
    <3>3. PICK L : L = Listed
      OBVIOUS
    <3>4. L \subseteq inUse /\ RingLinks(L) /\ requests \in L /\ Reaches(requests, L)
      BY <3>2, <3>3
    <3>5. L \in SUBSET Requests
      BY <3>4 DEF TypeOK
    <3>6. Ahead(L)'
      BY <2>1, <2>4, <3>4, <3>5 DEF Ahead, RingLinks, Finishing
    <3>7. Way(L)'
      BY <2>1, <2>4, <3>4 DEF Way, Reaches, RingLinks
    <3>8. Served(L)
      BY <2>1, <3>3 DEF Kept
    <3>9. Served(L)'
      BY <2>1, <3>8 DEF Served, Pending
    <3> QED
      BY <2>1, <3>5, <3>6, <3>7, <3>9 DEF Linked
  <2> QED
    BY <2>3, <2>4
<1>10. CASE DestroyNext
  <2>1. PICK S \in SUBSET Requests : Ahead(S) /\ Way(S) /\ Served(S)
    BY <1>10 DEF DestroyNext, Linked, Destroying
  <2>2. /\ pc = "destroy" /\ pc' = "finish" /\ rNext' = next[current]
        /\ UNCHANGED <<requests, prev, next, inUse, op, current, rFirst>>
        /\ UNCHANGED <<call, submitted, reported, forgotten>>
    BY <1>10 DEF DestroyNext, contextVars, links, owners, appVars
  <2>3. Ahead(S \ {current})'
    BY <2>1, <2>2 DEF Ahead, Finishing, TypeOK
  <2>4. current \in S /\ Reaches(current, S)
    BY <2>1, <2>2 DEF Ahead, Way
  <2>5. Reaches(next[current], S \ {current})
    BY <2>4, ReachesOn
  <2>6. Way(S \ {current})'
    <3>1. Reaches(rNext, S \ {current})'
      BY <2>2, <2>5 DEF Reaches
    <3> QED
      BY <2>1, <2>2, <3>1 DEF Way
  <2>7. Served(S \ {current})'
    BY <2>1, <2>2 DEF Served, Pending
  <2> QED
    BY <2>2, <2>3, <2>6, <2>7 DEF Linked, Control
<1>11. CASE Finish
  <2>1. /\ pc = "finish" /\ pc' = "callback" /\ Finishing /\ Finishing'
        /\ UNCHANGED <<requests, prev, next, running, messages, inUse, op, current,
                       rFirst, rNext, call, forgotten>>
    BY <1>11 DEF Finish, Finishing, contextVars, multiVars, links, owners
  <2>2. Pending' = Pending \ {call[current]}
    BY <1>11, FinishFacts
  <2>3. ASSUME NEW S \in SUBSET Requests, Rings(S) PROVE Rings(S)'
    BY <2>1, <2>3 DEF Rings, RingLinks, Attached
  <2>4. ASSUME NEW S \in SUBSET Requests, Ahead(S), Way(S), Served(S)
        PROVE  (Ahead(S) /\ Way(S) /\ Served(S))'
    <3>1. Ahead(S)'
      BY <2>1, <2>4 DEF Ahead
    <3>2. Way(S)'
      BY <2>1, <2>4 DEF Way, Reaches
    <3>3. Served(S)'
      BY <2>1, <2>2, <2>4 DEF Served
    <3> QED
      BY <3>1, <3>2, <3>3
  <2> QED
    BY <2>1, <2>3, <2>4 DEF Linked, Destroying
<1>12. CASE Release
  <2>1. /\ pc = "callback" /\ inUse' = inUse \ {current} /\ Finishing
        /\ UNCHANGED <<requests, prev, next, running, messages, op, rFirst, rNext>>
        /\ UNCHANGED <<call, submitted, reported, forgotten>>
    BY <1>12 DEF Release, Finishing, contextVars, multiVars, links, appVars
  <2>2. CASE op # "destroy"
    <3>1. PICK S \in SUBSET Requests : Rings(S)
      BY <2>2 DEF Linked
    <3>2. pc' = "process"
      BY <1>12, <2>2 DEF Release
    <3>3. Rings(S)'
      BY <2>1, <3>1, <3>2 DEF Rings, RingLinks, Attached, Finishing
    <3> QED
      BY <2>1, <2>2, <3>2, <3>3 DEF Linked, Destroying
  <2>3. CASE op = "destroy"
    <3>1. PICK S \in SUBSET Requests : Ahead(S) /\ Way(S) /\ Served(S)
      BY <2>1, <2>3 DEF Linked, Destroying
    <3>2. /\ pc' = IF rNext = rFirst THEN "freed" ELSE "destroy"
          /\ current' = rNext
      BY <1>12, <2>3 DEF Release
    <3>3. pc' = "destroy" => Ahead(S)'
      BY <2>1, <3>1, <3>2 DEF Ahead, Finishing
    <3>4. pc' = "destroy" => Way(S)'
      BY <2>1, <3>1, <3>2 DEF Way, Reaches
    <3>5. Served(S)'
      BY <2>1, <3>1 DEF Served, Pending
    <3> QED
      BY <2>1, <2>3, <3>2, <3>3, <3>4, <3>5 DEF Linked, Destroying, Finishing
  <2> QED
    BY <2>2, <2>3
<1>13. CASE Stopped \/ UNCHANGED vars
  <2>1. /\ UNCHANGED <<requests, prev, next, running, messages, inUse, op, pc, current,
                       rFirst, rNext, call, submitted, reported, forgotten>>
    BY <1>13 DEF Stopped, vars, contextVars, multiVars, links, owners, appVars, control
  <2>2. ASSUME NEW S \in SUBSET Requests, Rings(S) PROVE Rings(S)'
    BY <2>1, <2>2 DEF Rings, RingLinks, Attached, Finishing
  <2>3. Pending' \ forgotten' \subseteq Pending \ forgotten
    BY <2>1 DEF Pending
  <2>4. ASSUME NEW S \in SUBSET Requests, Ahead(S) /\ Way(S) /\ Served(S)
        PROVE  (Ahead(S) /\ Way(S) /\ Served(S))'
    BY <2>1, <2>3, <2>4, AheadKept
  <2> QED
    BY <2>1, <2>2, <2>4 DEF Linked, Destroying, Finishing
<1> QED
  BY <1>1, <1>2, <1>3, <1>4, <1>5, <1>6, <1>7, <1>8, <1>9, <1>10, <1>11, <1>12, <1>13
  DEF Next

-----------------------------------------------------------------------------
(* Outstanding calls                                                       *)

LEMMA PendingStep ==
  /\ TypeOK /\ Control /\ CallsServed /\ InCurl /\ PendingInCurl /\ [Next]_vars
  => PendingInCurl'
<1> SUFFICES ASSUME TypeOK, Control, CallsServed, InCurl, PendingInCurl, [Next]_vars,
                    "curl" \notin adverse', op' # "destroy", NEW c \in Pending'
             PROVE  \/ \E r \in Attached' : call'[r] = c
                    \/ pc' = "finish" /\ call'[current'] = c
  BY DEF PendingInCurl
<1>1. ASSUME NEW d \in Calls, request_perform(d)
      PROVE  \/ \E r \in Attached' : call'[r] = c
             \/ pc' = "finish" /\ call'[current'] = c
  <2>1. /\ pc \in {"user", "callback"} /\ UNCHANGED <<messages, adverse, op>>
        /\ d \notin submitted /\ submitted' = submitted \cup {d}
    BY <1>1, PerformFacts DEF settings
  <2>2. c \in Pending => \E r \in Attached : call[r] = c
    BY <2>1 DEF PendingInCurl
  <2>3. CASE /\ \E s : reported' = [reported EXCEPT ![d] = <<s>>]
             /\ UNCHANGED running
             /\ \/ UNCHANGED call
                \/ \E r \in Requests \ inUse : call' = [call EXCEPT ![r] = d]
    <3>1. c \in Pending
      BY <2>1, <2>3, PendingAdded
    <3>2. \A x \in inUse : call'[x] = call[x]
      BY <2>3 DEF TypeOK
    <3>3. UNCHANGED Attached /\ Attached \subseteq inUse
      BY <2>1, <2>3 DEF Attached, InCurl
    <3> QED
      BY <2>2, <3>1, <3>2, <3>3
  <2>4. ASSUME NEW r \in Requests \ inUse, running' = running \cup {r},
               call' = [call EXCEPT ![r] = d], UNCHANGED reported
        PROVE  \E x \in Attached' : call'[x] = c
    <3>1. c \in Pending \cup {d}
      BY <2>1, <2>4, PendingAdded
    <3>2. Attached' = Attached \cup {r} /\ r \notin Attached /\ Attached \subseteq Requests
      BY <2>1, <2>4 DEF Attached, InCurl, TypeOK
    <3> QED
      BY <2>2, <2>4, <3>1, <3>2 DEF TypeOK
  <2>5. \/ /\ \E s : reported' = [reported EXCEPT ![d] = <<s>>]
           /\ UNCHANGED running
           /\ \/ UNCHANGED call
              \/ \E r \in Requests \ inUse : call' = [call EXCEPT ![r] = d]
        \/ \E r \in Requests \ inUse :
             /\ running' = running \cup {r} /\ call' = [call EXCEPT ![r] = d]
             /\ UNCHANGED reported
    BY <1>1, PerformFacts
  <2> QED
    BY <2>1, <2>3, <2>4, <2>5
<1>2. CASE Finish
  <2>1. /\ c \in Pending /\ c # call[current]
        /\ UNCHANGED <<adverse, op, call, running, messages>>
    BY <1>2, FinishFacts DEF Finish, settings, owners, multiVars
  <2> QED
    BY <2>1 DEF PendingInCurl, Attached
<1>3. CASE ProcessMessage
  <2>1. /\ UNCHANGED <<adverse, op, call, running, submitted, reported>>
        /\ pc = "process" /\ pc' = "finish"
    BY <1>3 DEF ProcessMessage, settings, owners, appVars
  <2>2. c \in Pending /\ op # "destroy"
    BY <2>1 DEF Pending
  <2>3. PICK r \in Attached : call[r] = c
    BY <2>1, <2>2 DEF PendingInCurl
  <2>4. PICK m \in messages : messages' = messages \ {m} /\ current' = m.request
    BY <1>3, <2>1 DEF ProcessMessage, Leave
  <2>5. r \in Attached' \/ r = current'
    BY <2>1, <2>3, <2>4 DEF Attached
  <2> QED
    BY <2>1, <2>3, <2>5
<1>4. ASSUME NEW r \in Requests, TransferDone(r)
      PROVE  \E x \in Attached' : call'[x] = c
  <2>1. PICK result \in Results :
          messages' = messages \cup {[request |-> r, result |-> result]}
    BY <1>4 DEF TransferDone
  <2> DEFINE m == [request |-> r, result |-> result]
  <2>2. m.request = r /\ messages' = messages \cup {m}
    BY <2>1
  <2> HIDE DEF m
  <2>3. Attached \subseteq Attached'
    BY <1>4, <2>2 DEF TransferDone, Attached
  <2>4. c \in Pending /\ op # "destroy" /\ "curl" \notin adverse /\ pc # "finish" /\ UNCHANGED call
    BY <1>4 DEF TransferDone, CurlActive, Pending, settings, owners, appVars, control
  <2> QED
    BY <2>3, <2>4 DEF PendingInCurl
<1>5. ASSUME /\ UNCHANGED <<submitted, reported, adverse, call, running, messages>>
             /\ op # "destroy"
             /\ pc # "finish" \/ UNCHANGED <<pc, current>>
      PROVE  \/ \E r \in Attached' : call'[r] = c
             \/ pc' = "finish" /\ call'[current'] = c
  BY <1>5 DEF PendingInCurl, Pending, Attached
<1>6. ASSUME NEW flag \in BOOLEAN, S3_set_request_context_verify_peer(flag)
      PROVE  \/ \E r \in Attached' : call'[r] = c
             \/ pc' = "finish" /\ call'[current'] = c
  BY <1>5, <1>6 DEF S3_set_request_context_verify_peer, multiVars, owners, appVars,
                    settings, control
<1>7. ASSUME NEW r \in Requests, ReceiveHeaders(r) \/ ReceiveData(r)
      PROVE  \/ \E x \in Attached' : call'[x] = c
             \/ pc' = "finish" /\ call'[current'] = c
  BY <1>5, <1>7 DEF ReceiveHeaders, ReceiveData, multiVars, owners, appVars,
                    settings, control
<1>8. CASE S3_runonce_request_context \/ S3_runall_request_context \/ S3_process_request_context
  BY <1>5, <1>8 DEF S3_runonce_request_context, S3_runall_request_context, Control,
       S3_process_request_context, Enter, multiVars, owners, appVars, settings
<1>9. CASE PerformReturns \/ PerformFails
  BY <1>5, <1>9 DEF PerformReturns, PerformFails, Control, multiVars, owners, appVars,
                    settings
<1>10. CASE ProcessFails
  BY <1>10 DEF ProcessFails, settings
<1>11. CASE ProcessDone
  BY <1>5, <1>11 DEF ProcessDone, Control, multiVars, owners, appVars, settings
<1>12. CASE S3_destroy_request_context \/ DestroyNext
  BY <1>12 DEF S3_destroy_request_context, DestroyNext, Control
<1>13. CASE Release
  BY <1>5, <1>13 DEF Release, multiVars, appVars, settings
<1>14. CASE Stopped \/ UNCHANGED vars
  BY <1>5, <1>14 DEF Stopped, vars, multiVars, owners, appVars, settings, control
<1> QED
  BY <1>1, <1>2, <1>3, <1>4, <1>6, <1>7, <1>8, <1>9, <1>10, <1>11, <1>12, <1>13, <1>14
  DEF Next

LEMMA CountedStep ==
  TypeOK /\ Control /\ CallsServed /\ RunningCounted /\ [Next]_vars => RunningCounted'
<1> SUFFICES ASSUME TypeOK, Control, CallsServed, RunningCounted, [Next]_vars
             PROVE  RunningCounted'
  OBVIOUS
<1> USE DEF RunningCounted, Finishing
<1>1. ASSUME NEW c \in Calls, request_perform(c) PROVE RunningCounted'
  <2>1. /\ pc \in {"user", "callback"} /\ UNCHANGED <<op, retry>>
        /\ \/ UNCHANGED <<running, pc>>
           \/ \E r \in Requests : running' = running \cup {r} /\ LinkAfterClearing(r)
    BY <1>1, PerformFacts
  <2>2. IsFiniteSet(running')
    BY <2>1, FS_AddElement
  <2>3. pc' = pc \/ pc' = "crashed"
    BY <2>1 DEF LinkAfterClearing
  <2> QED
    BY <2>1, <2>2, <2>3
<1>2. ASSUME NEW flag \in BOOLEAN, S3_set_request_context_verify_peer(flag)
      PROVE  RunningCounted'
  BY <1>2 DEF S3_set_request_context_verify_peer, multiVars, control
<1>3. ASSUME NEW r \in Requests, ReceiveHeaders(r) \/ ReceiveData(r)
      PROVE  RunningCounted'
  BY <1>3 DEF ReceiveHeaders, ReceiveData, multiVars, control
<1>4. ASSUME NEW r \in Requests, TransferDone(r) PROVE RunningCounted'
  <2>1. IsFiniteSet(running \ {r})
    BY FS_RemoveElement
  <2> QED
    BY <1>4, <2>1 DEF TransferDone, CurlActive, control
<1>5. CASE S3_runonce_request_context \/ S3_runall_request_context \/ S3_process_request_context
  <2>1. UNCHANGED running
    BY <1>5 DEF S3_runonce_request_context, S3_runall_request_context,
                S3_process_request_context, Enter, multiVars
  <2> QED
    BY <1>5, <2>1 DEF S3_runonce_request_context, S3_runall_request_context,
                      S3_process_request_context, Enter
<1>6. CASE PerformReturns \/ PerformFails
  BY <1>6 DEF PerformReturns, PerformFails, Leave, multiVars
<1>7. CASE ProcessMessage \/ ProcessFails \/ ProcessDone
  BY <1>7 DEF ProcessMessage, ProcessFails, ProcessDone, Leave, multiVars
<1>8. CASE S3_destroy_request_context \/ Finish \/ Release
  BY <1>8 DEF S3_destroy_request_context, Finish, Release, multiVars, Control
<1>9. CASE DestroyNext
  <2>1. IsFiniteSet(running \ {current})
    BY FS_RemoveElement
  <2> QED
    BY <1>9, <2>1 DEF DestroyNext, Control
<1>10. CASE Stopped \/ UNCHANGED vars
  BY <1>10 DEF Stopped, vars, multiVars, control
<1> QED
  BY <1>1, <1>2, <1>3, <1>4, <1>5, <1>6, <1>7, <1>8, <1>9, <1>10 DEF Next

-----------------------------------------------------------------------------
(* The calls that are not forgotten                                        *)

\* A Request is taken from the list: the call of another is forgotten, or that
\* is still on the list.
LEMMA DroppedOrListed ==
  ASSUME TypeOK, TypeOK', NEW S \in SUBSET Requests, IsFiniteSet(S), Rings(S),
         NEW q, Unlink(q), NEW r \in Listed, r # q
  PROVE  call[r] \in Dropped(q) \/ r \in Listed'
<1>1. CASE prev[q] = next[q] \/ q \notin Listed
  BY <1>1 DEF Dropped
<1>2. CASE prev[q] # next[q] /\ q \in Listed
  BY <1>2, ListedUnlinked DEF Rings
<1> QED
  BY <1>1, <1>2

\* The list has only calls that are not completed.
LEMMA ListedPending ==
  ASSUME TypeOK, CallsServed, Linked, pc = "process", op # "destroy"
  PROVE  \A r \in Listed : r \in inUse /\ call[r] \in Pending
<1>1. PICK S \in SUBSET Requests : Rings(S)
  BY DEF Linked
<1>2. Listed \subseteq inUse
  BY <1>1, ListedInRing DEF Rings
<1> QED
  BY <1>2 DEF CallsServed, Pending

LEMMA KeptStep ==
  /\ TypeOK /\ TypeOK' /\ Control /\ Control' /\ CallsServed /\ InCurl /\ Linked /\ Kept
  /\ [Next]_vars
  => Kept'
<1> SUFFICES ASSUME TypeOK, TypeOK', Control, Control', CallsServed, InCurl, Linked, Kept,
                    [Next]_vars
             PROVE  Kept'
  OBVIOUS
<1>1. ASSUME NEW c \in Calls, request_perform(c) PROVE Kept'
  <2>1. /\ UNCHANGED <<op, current>> /\ pc \in {"user", "callback"}
        /\ c \notin submitted /\ submitted' = submitted \cup {c}
    BY <1>1, PerformFacts
  <2>2. pc' \in {"user", "callback", "crashed"}
    BY <1>1, <2>1, PerformFacts DEF LinkAfterClearing
  <2>3. CASE op = "destroy"
    <3>1. IsFiniteSet(inUse')
      <4>1. inUse' = inUse \/ \E r : inUse' = inUse \cup {r}
        BY <1>1, PerformFacts
      <4> QED
        BY <4>1, FS_AddElement DEF Kept
    <3>2. forgotten' \subseteq forgotten \cup {c}
      BY <1>1, <2>3, PerformFacts
    <3> QED
      BY <2>1, <2>2, <2>3, <3>1, <3>2 DEF Kept
  <2>4. CASE op # "destroy"
    <3>1. PICK S \in SUBSET Requests : Rings(S)
      BY <2>4 DEF Linked
    <3>2. IsFiniteSet(S) /\ S \subseteq inUse /\ RingLinks(S) /\ requests \in S \cup {NoRequest}
      BY <3>1, FS_Subset DEF Kept, Rings
    <3>3. Listed \subseteq S
      BY <3>2, ListedInRing
    <3>4. \A d \in Pending \ forgotten : \E r \in Listed : call[r] = d
      BY <2>1, <2>4 DEF Kept, Served
    <3>5. CASE /\ \E s : reported' = [reported EXCEPT ![c] = <<s>>]
               /\ UNCHANGED <<requests, inUse, forgotten>>
               /\ \/ UNCHANGED <<next, call>>
                  \/ \E r \in Requests \ inUse :
                       /\ next' = [next EXCEPT ![r] = NoRequest]
                       /\ call' = [call EXCEPT ![r] = c]
      <4>1. Pending' = Pending
        BY <2>1, <3>5, PendingAdded
      <4>2. \A x \in S : next'[x] = next[x] /\ call'[x] = call[x]
        BY <3>2, <3>5 DEF TypeOK
      <4>3. Listed \subseteq Listed'
        BY <3>2, <3>5, <4>2, ListedKept
      <4>4. Served(Listed)'
        BY <3>3, <3>4, <3>5, <4>1, <4>2, <4>3 DEF Served
      <4> QED
        BY <2>1, <2>2, <2>4, <3>5, <4>4 DEF Kept
    <3>6. ASSUME NEW r \in Requests \ inUse, LinkAfterClearing(r),
                 inUse' = inUse \cup {r}, call' = [call EXCEPT ![r] = c],
                 UNCHANGED <<reported, forgotten>>
          PROVE  Kept'
      <4>1. Pending' = Pending \cup {c}
        BY <2>1, <3>6, PendingAdded
      <4>2. call'[r] = c /\ \A x \in S : call'[x] = call[x]
        BY <3>2, <3>6 DEF TypeOK
      <4>3. Listed \cup {r} \subseteq Listed'
        BY <3>2, <3>6, ListedLinked
      <4>4. Served(Listed)'
        BY <3>3, <3>4, <3>6, <4>1, <4>2, <4>3 DEF Served
      <4>5. IsFiniteSet(inUse')
        BY <3>6, FS_AddElement DEF Kept
      <4>6. forgotten' \subseteq submitted'
        BY <2>1, <3>6 DEF Kept
      <4>7. op' # "destroy" /\ pc' # "freed"
        BY <2>1, <2>2, <2>4
      <4> QED
        BY <4>4, <4>5, <4>6, <4>7 DEF Kept
    <3>7. \/ /\ \E s : reported' = [reported EXCEPT ![c] = <<s>>]
             /\ UNCHANGED <<requests, inUse, forgotten>>
             /\ \/ UNCHANGED <<next, call>>
                \/ \E r \in Requests \ inUse :
                     /\ next' = [next EXCEPT ![r] = NoRequest]
                     /\ call' = [call EXCEPT ![r] = c]
          \/ \E r \in Requests \ inUse :
               /\ LinkAfterClearing(r)
               /\ inUse' = inUse \cup {r} /\ call' = [call EXCEPT ![r] = c]
               /\ UNCHANGED <<reported, forgotten>>
      BY <1>1, <2>4, PerformFacts
    <3> QED
      BY <3>5, <3>6, <3>7
  <2> QED
    BY <2>3, <2>4
<1>2. ASSUME UNCHANGED <<requests, next, call, inUse, submitted, reported, forgotten>>,
             op # "destroy", pc # "finish" \/ UNCHANGED <<pc, current>>, pc' # "freed"
      PROVE  Kept'
  <2>1. UNCHANGED Listed
    BY <1>2 DEF Listed
  <2> QED
    BY <1>2, <2>1 DEF Kept, Served, Pending
<1>3. ASSUME NEW flag \in BOOLEAN, S3_set_request_context_verify_peer(flag) PROVE Kept'
  BY <1>2, <1>3 DEF S3_set_request_context_verify_peer, Control, links, owners, appVars,
                    control
<1>4. ASSUME NEW r \in Requests, ReceiveHeaders(r) \/ ReceiveData(r) \/ TransferDone(r)
      PROVE  Kept'
  <2>1. op # "destroy" /\ pc \in {"user", "perform"}
    BY <1>4 DEF ReceiveHeaders, ReceiveData, TransferDone, CurlActive, Control
  <2> QED
    BY <1>2, <1>4, <2>1 DEF ReceiveHeaders, ReceiveData, TransferDone, contextVars, links,
                            owners, appVars, control
<1>5. CASE S3_runonce_request_context \/ S3_runall_request_context \/ S3_process_request_context
  BY <1>2, <1>5 DEF S3_runonce_request_context, S3_runall_request_context, Control,
       S3_process_request_context, Enter, contextVars, links, owners, appVars
<1>6. CASE PerformReturns \/ PerformFails \/ ProcessFails \/ ProcessDone
  BY <1>2, <1>6 DEF PerformReturns, PerformFails, ProcessFails, ProcessDone, Leave,
       Control, contextVars, links, owners, appVars
<1>7. CASE ProcessMessage
  <2>1. /\ pc = "process" /\ pc' \in {"finish", "user"} /\ op # "destroy"
        /\ UNCHANGED <<inUse, call, submitted, reported>>
    BY <1>7 DEF ProcessMessage, Leave, owners, Control
  <2>2. PICK q : /\ Unlink(q)
                 /\ Dropped(q) \subseteq forgotten' /\ forgotten \subseteq forgotten'
                 /\ (pc' = "finish" /\ current' = q) \/ call[q] \in forgotten'
                 /\ forgotten' \subseteq forgotten \cup Dropped(q) \cup {call[q]}
                 /\ q \in Attached
    BY <1>7 DEF ProcessMessage, Leave, Attached
  <2>3. PICK S \in SUBSET Requests : Rings(S)
    BY <2>1 DEF Linked
  <2>4. IsFiniteSet(S)
    BY <2>3, FS_Subset DEF Kept, Rings
  <2>5. ASSUME NEW c \in Pending \ forgotten'
        PROVE  (\E r \in Listed' : call[r] = c) \/ (pc' = "finish" /\ call[current'] = c)
    <3>1. PICK r \in Listed : call[r] = c
      BY <2>1, <2>2, <2>5 DEF Kept, Served
    <3>2. CASE r = q
      BY <2>2, <2>5, <3>1, <3>2
    <3>3. CASE r # q
      BY <2>2, <2>3, <2>4, <2>5, <3>1, <3>3, DroppedOrListed
    <3> QED
      BY <3>2, <3>3
  <2>6. Served(Listed)'
    BY <2>1, <2>5 DEF Served, Pending
  <2>7. forgotten' \subseteq submitted'
    <3>1. \A r \in Listed : r \in inUse /\ call[r] \in Pending
      BY <2>1, ListedPending
    <3>2. q \in inUse
      BY <2>2 DEF InCurl
    <3> QED
      BY <2>1, <2>2, <3>1, <3>2 DEF Dropped, Kept, CallsServed
  <2> QED
    BY <2>1, <2>6, <2>7 DEF Kept
<1>8. CASE S3_destroy_request_context
  <2>1. /\ UNCHANGED <<requests, inUse, submitted, reported, forgotten>> /\ op' = "destroy"
        /\ pc = "user" /\ op # "destroy" /\ (pc' = "freed" => requests = NoRequest)
    BY <1>8 DEF S3_destroy_request_context, Control, contextVars, owners, appVars
  <2>2. requests = NoRequest => Listed = {}
    BY <2>1, ListedInRing DEF Linked, Rings
  <2> QED
    BY <2>1, <2>2 DEF Kept, Served, Pending
<1>9. CASE DestroyNext
  BY <1>9 DEF DestroyNext, Control, Kept, owners, appVars
<1>10. CASE Finish
  <2>1. /\ pc = "finish" /\ pc' = "callback"
        /\ UNCHANGED <<requests, next, inUse, call, submitted, forgotten, op>>
    BY <1>10 DEF Finish, contextVars, links, owners
  <2>2. Pending' = Pending \ {call[current]}
    BY <1>10, FinishFacts
  <2>3. UNCHANGED Listed
    BY <2>1 DEF Listed
  <2> QED
    BY <2>1, <2>2, <2>3 DEF Kept, Served
<1>11. CASE Release
  <2>1. /\ pc = "callback" /\ inUse' = inUse \ {current} /\ Finishing
        /\ UNCHANGED <<requests, next, call, submitted, reported, forgotten, op>>
    BY <1>11 DEF Release, Finishing, contextVars, links, appVars
  <2>2. IsFiniteSet(inUse')
    BY <2>1, FS_RemoveElement DEF Kept
  <2>3. CASE op # "destroy"
    <3>1. pc' = "process"
      BY <1>11, <2>3 DEF Release
    <3>2. UNCHANGED Listed
      BY <2>1 DEF Listed
    <3> QED
      BY <2>1, <2>2, <2>3, <3>1, <3>2 DEF Kept, Served, Pending
  <2>4. CASE op = "destroy"
    <3>1. PICK S \in SUBSET Requests : Ahead(S) /\ Way(S) /\ Served(S)
      BY <2>1, <2>4 DEF Linked, Destroying
    <3>2. pc' = "freed" => rNext = rFirst
      BY <1>11, <2>4 DEF Release
    <3>3. rFirst \notin S /\ Reaches(rNext, S)
      BY <2>1, <3>1 DEF Ahead, Way
    <3>5. ASSUME rNext = rFirst PROVE S = {}
      <4>1. {} \in SUBSET S /\ \A x \in {} : next[x] \in S => next[x] \in {}
        OBVIOUS
      <4>2. rNext \in S => rNext \in {}
        BY <3>3, <3>5
      <4>3. {} = S
        BY <3>3, <4>1, <4>2 DEF Reaches
      <4> QED
        BY <4>3
    <3>4. S = {} => Pending \subseteq forgotten
      BY <2>1, <3>1 DEF Served
    <3> QED
      BY <2>1, <2>2, <2>4, <3>2, <3>4, <3>5 DEF Kept, Pending
  <2> QED
    BY <2>3, <2>4
<1>12. CASE Stopped \/ UNCHANGED vars
  <2>1. UNCHANGED <<requests, next, inUse, call, submitted, reported, forgotten, op, pc,
                    current>>
    BY <1>12 DEF Stopped, vars, contextVars, links, owners, appVars, control
  <2>2. UNCHANGED Listed
    BY <2>1 DEF Listed
  <2> QED
    BY <2>1, <2>2 DEF Kept, Served, Pending
<1> QED
  BY <1>1, <1>3, <1>4, <1>5, <1>6, <1>7, <1>8, <1>9, <1>10, <1>11, <1>12 DEF Next

-----------------------------------------------------------------------------
(* The theorems                                                            *)

(* Whatever user code and curl do, IInv holds: no Request is both attached *)
(* to curl and given back, the list is a ring or abandoned, and destroying *)
(* a context meets each Request it has before it once.                     *)
THEOREM Invariance == Spec => []IInv
<1>1. IInv /\ [Next]_vars => IInv'
  BY TypeStep, ControlStep, CallsStep, InCurlStep, LinkedStep, PendingStep, CountedStep,
     KeptStep
  DEF IInv
<1> QED
  BY <1>1, InitIInv, PTL DEF Spec

(* No call is completed twice, also by a context that is destroyed while   *)
(* the callbacks issue requests on it.                                     *)
THEOREM CompletedOnce == Spec => []CompletedAtMostOnce
<1>1. IInv => CompletedAtMostOnce
  <2> SUFFICES ASSUME IInv, NEW c \in Calls
               PROVE  /\ Len(reported[c]) <= 1
                      /\ c \notin submitted => reported[c] = <<>>
    BY DEF CompletedAtMostOnce
  <2>1. reported[c] = <<>> \/ \E s : reported[c] = <<s>>
    BY DEF IInv, CallsServed
  <2>2. Len(<<>>) = 0 /\ \A s : Len(<<s>>) = 1
    OBVIOUS
  <2>3. 0 <= 1 /\ 1 <= 1
    OBVIOUS
  <2>4. Len(reported[c]) <= 1
    BY <2>1, <2>2, <2>3, Zenon
  <2>5. c \notin submitted => reported[c] = <<>>
    BY DEF IInv, CallsServed
  <2> QED
    BY <2>4, <2>5
<1> QED
  BY <1>1, Invariance, PTL

(* The list has only Requests that are in use and not completed, with      *)
(* links both ways, however Requests come and go.                          *)
THEOREM ListStaysRing == Spec => []ListIsRing
<1>1. IInv => ListIsRing
  <2> SUFFICES ASSUME IInv, op # "destroy", NEW r \in Listed
               PROVE  /\ r \in inUse
                      /\ next[prev[r]] = r /\ prev[next[r]] = r
                      /\ reported[call[r]] = <<>>
    BY DEF ListIsRing
  <2>1. PICK S \in SUBSET Requests : Rings(S)
    BY DEF IInv, Linked
  <2>2. ({requests} \cup {next[s] : s \in S}) \ {NoRequest} \subseteq S
    BY <2>1 DEF Rings, RingLinks
  <2>3. r \in S
    BY <2>2 DEF Listed
  <2>4. ~(pc \in {"callback", "crashed"} /\ r = current)
    BY <2>1, <2>3 DEF IInv, Control, Rings, Finishing
  <2> QED
    BY <2>1, <2>3, <2>4 DEF IInv, CallsServed, Rings, RingLinks
<1> QED
  BY <1>1, Invariance, PTL

(* curl never has a Request that was given back to the pool, and no two    *)
(* Requests complete the same call.                                        *)
THEOREM CurlOnlyHasUsed == Spec => []AttachedInUse
<1>1. IInv => AttachedInUse
  BY DEF IInv, InCurl, CallsServed, AttachedInUse
<1> QED
  BY <1>1, Invariance, PTL

(* S3_runall_request_context returns OK only when every call is completed, *)
(* if curl's functions do not fail.                                        *)
THEOREM RunallLeavesNone == Spec => RunallDrains
<1>1. /\ IInv /\ [Next]_vars
      => (op = "runall" /\ op' = "none" /\ returned' = "OK" /\ "curl" \notin adverse
          => Pending = {})
  <2> SUFFICES ASSUME IInv, [Next]_vars,
                      op = "runall", op' = "none", returned' = "OK", "curl" \notin adverse
               PROVE  Pending = {}
    OBVIOUS
  <2>1. op' # op /\ pc # "user" /\ pc # "destroy"
    BY DEF IInv, Control
  <2>2. ProcessDone
    <3>1. ASSUME NEW c \in Calls, request_perform(c) PROVE FALSE
      BY <2>1, <3>1, PerformFacts DEF IInv
    <3>2. ASSUME NEW flag \in BOOLEAN, S3_set_request_context_verify_peer(flag) PROVE FALSE
      BY <2>1, <3>2 DEF S3_set_request_context_verify_peer
    <3>3. ASSUME NEW r \in Requests, ReceiveHeaders(r) \/ ReceiveData(r) \/ TransferDone(r)
          PROVE  FALSE
      BY <2>1, <3>3 DEF ReceiveHeaders, ReceiveData, TransferDone, control
    <3>4. ~(S3_runonce_request_context \/ S3_runall_request_context
              \/ S3_process_request_context \/ S3_destroy_request_context)
      BY <2>1 DEF S3_runonce_request_context, S3_runall_request_context,
                  S3_process_request_context, Enter, S3_destroy_request_context
    <3>5. ~(PerformReturns \/ PerformFails \/ ProcessMessage \/ ProcessFails)
      BY <2>1 DEF PerformReturns, PerformFails, ProcessMessage, ProcessFails, Leave
    <3>6. ~(DestroyNext \/ Finish \/ Release)
      BY <2>1 DEF DestroyNext, Finish, Release
    <3>7. ~(Stopped \/ UNCHANGED vars)
      BY <2>1 DEF Stopped, vars, control
    <3> QED
      BY <3>1, <3>2, <3>3, <3>4, <3>5, <3>6, <3>7 DEF Next
  <2>3. pc = "process" /\ messages = {} /\ ~retry /\ requestsRemaining = 0
    BY <2>1, <2>2 DEF ProcessDone
  <2>4. running = {}
    BY <2>3, FS_EmptySet DEF IInv, RunningCounted
  <2>5. Attached = {}
    BY <2>3, <2>4 DEF Attached
  <2> QED
    BY <2>3, <2>5 DEF IInv, PendingInCurl
<1> QED
  BY <1>1, Invariance, PTL DEF RunallDrains, Spec

(* The handle of every request that starts, also a used one, has what      *)
(* S3_initialize was told if the context was told nothing, verifies if the *)
(* context was told to, and has one of the two values if the context was   *)
(* told not to: which one is not said.                                     *)
THEOREM PeerIsVerified == Spec => VerificationNotWeakened
<1>1. /\ IInv /\ [Next]_vars
      => [\A r \in Requests : r \in running' \ running =>
            /\ verifyPeerSet /\ verifyPeer => sslVerify'[r]
            /\ ~verifyPeerSet => sslVerify'[r] = globalVerifyPeer
            /\ sslVerify'[r] \in {verifyPeer, globalVerifyPeer}]_running
  <2> SUFFICES ASSUME IInv, [Next]_vars, NEW r \in Requests, r \in running' \ running
               PROVE  /\ verifyPeerSet /\ verifyPeer => sslVerify'[r]
                      /\ ~verifyPeerSet => sslVerify'[r] = globalVerifyPeer
                      /\ sslVerify'[r] \in {verifyPeer, globalVerifyPeer}
    OBVIOUS
  <2>1. PICK c \in Calls : request_perform(c)
    <3>1. ~(\E flag \in BOOLEAN : S3_set_request_context_verify_peer(flag))
      BY DEF S3_set_request_context_verify_peer, multiVars
    <3>2. ASSUME NEW x \in Requests, ReceiveHeaders(x) \/ ReceiveData(x) \/ TransferDone(x)
          PROVE  FALSE
      BY <3>2 DEF ReceiveHeaders, ReceiveData, TransferDone, multiVars
    <3>3. ~(S3_runonce_request_context \/ S3_runall_request_context
              \/ S3_process_request_context \/ S3_destroy_request_context)
      BY DEF S3_runonce_request_context, S3_runall_request_context,
             S3_process_request_context, Enter, S3_destroy_request_context, multiVars
    <3>4. ~(PerformReturns \/ PerformFails \/ ProcessMessage \/ ProcessFails \/ ProcessDone)
      BY DEF PerformReturns, PerformFails, ProcessMessage, ProcessFails, ProcessDone,
             multiVars
    <3>5. ~(DestroyNext \/ Finish \/ Release)
      BY DEF DestroyNext, Finish, Release, multiVars
    <3>6. ~(Stopped \/ UNCHANGED vars)
      BY DEF Stopped, vars, multiVars
    <3> QED
      BY <3>1, <3>2, <3>3, <3>4, <3>5, <3>6 DEF Next
  <2>2. SubmitAdded(c)
    BY <2>1 DEF request_perform, SubmitRejected, SubmitNotAdded, SubmitOptionFails
  <2>3. Prepare(r)
    BY <2>2 DEF SubmitAdded
  <2>4. sslVerify'[r] = IF OverridesVerifyPeer THEN verifyPeer ELSE globalVerifyPeer
    BY <2>3 DEF Prepare, IInv, TypeOK
  <2> QED
    BY <2>4 DEF OverridesVerifyPeer, IInv, TypeOK
<1> QED
  BY <1>1, Invariance, PTL DEF VerificationNotWeakened, Spec

(* S3_destroy_request_context goes from one Request to the next only to    *)
(* Requests in use whose calls are not completed: reading the next one     *)
(* before the complete callback does no harm that way.                     *)
THEOREM DestroyedAreLive == Spec => []DestroyMeetsLive
<1>1. IInv => DestroyMeetsLive
  <2> SUFFICES ASSUME IInv, pc = "destroy"
               PROVE  current \in inUse /\ reported[call[current]] = <<>>
    BY DEF DestroyMeetsLive
  <2>1. PICK S \in SUBSET Requests : Ahead(S)
    BY DEF IInv, Linked, Destroying
  <2>2. current \in inUse
    BY <2>1 DEF Ahead
  <2> QED
    BY <2>2 DEF IInv, CallsServed
<1> QED
  BY <1>1, Invariance, PTL

-----------------------------------------------------------------------------
(* The refinement of RequestLedger                                         *)

\* A step of the context is one of the ledger, or the ledger stays.
LEMMA LedgerStep == IInv /\ IInv' /\ [Next]_vars => [Ledger!Next]_(Ledger!vars)
<1> SUFFICES ASSUME IInv, IInv', [Next]_vars
             PROVE  [Ledger!Next]_(Ledger!vars)
  OBVIOUS
<1> DEFINE Phase == IF pc = "freed" THEN "closed"
                    ELSE IF op = "destroy" THEN "closing" ELSE "open"
           Completed == {c \in Calls : reported[c] # <<>>}
<1> USE DEF Ledger!Next, Ledger!vars
\* What is reported of a call.
<1>1. ASSUME NEW c \in Calls, NEW s, reported' = [reported EXCEPT ![c] = <<s>>]
      PROVE  Completed' = Completed \cup {c}
  <2>1. \A d \in Calls : reported'[d] = IF d = c THEN <<s>> ELSE reported[d]
    BY <1>1 DEF IInv, TypeOK
  <2>2. <<s>> # <<>>
    OBVIOUS
  <2> QED
    BY <2>1, <2>2
<1>2. ASSUME NEW c \in Calls, request_perform(c) PROVE Ledger!Next
  <2>1. /\ c \notin submitted /\ submitted' = submitted \cup {c}
        /\ pc \in {"user", "callback"} /\ UNCHANGED <<op, adverse>>
    BY <1>2, PerformFacts DEF IInv, settings
  <2>2. reported[c] = <<>>
    BY <2>1 DEF IInv, CallsServed
  <2>3. Ledger!New(c)
    BY <2>1, <2>2 DEF Ledger!New, Pending
  <2>4. ASSUME NEW s, reported' = [reported EXCEPT ![c] = <<s>>], UNCHANGED <<pc, forgotten>>
        PROVE  Ledger!Reject(c)
    <3>1. Pending' = Pending
      BY <2>1, <2>4, PendingAdded DEF IInv
    <3>2. Completed' = Completed \cup {c}
      BY <1>1, <2>4
    <3> QED
      BY <2>1, <2>3, <2>4, <3>1, <3>2 DEF Ledger!Reject
  <2>5. ASSUME NEW r \in Requests, LinkAfterClearing(r), UNCHANGED reported,
               forgotten' = IF op = "destroy" THEN forgotten \cup {c} ELSE forgotten
        PROVE  Ledger!Next
    <3>1. Pending' = Pending \cup {c} /\ c \notin Pending
      BY <2>1, <2>5, PendingAdded DEF IInv, Pending
    <3>2. Phase' = Phase
      <4>1. pc' = pc \/ pc' = "crashed"
        BY <2>5 DEF LinkAfterClearing
      <4> QED
        BY <2>1, <4>1
    <3>3. CASE op = "destroy"
      <4>1. /\ Pending' \ forgotten' = Pending \ forgotten
            /\ Pending' \cap forgotten' = (Pending \cap forgotten) \cup {c}
        BY <2>5, <3>1, <3>3
      <4>2. Ledger!SubmitLate(c)
        BY <2>1, <2>3, <2>5, <3>2, <3>3, <4>1 DEF Ledger!SubmitLate
      <4> QED
        BY <4>2
    <3>4. CASE op # "destroy"
      <4>0. c \notin forgotten
        BY <2>1 DEF IInv, Kept
      <4>1. /\ Pending' \ forgotten' = (Pending \ forgotten) \cup {c}
            /\ Pending' \cap forgotten' = Pending \cap forgotten
        BY <2>5, <3>1, <3>4, <4>0
      <4>2. Ledger!Submit(c)
        BY <2>1, <2>3, <2>5, <3>2, <3>4, <4>1 DEF Ledger!Submit
      <4> QED
        BY <4>2
    <3> QED
      BY <3>3, <3>4
  <2> QED
    BY <1>2, <2>1, <2>4, <2>5, PerformFacts DEF IInv
<1>3. CASE Finish
  <2>1. /\ call[current] \in Pending /\ Pending' = Pending \ {call[current]}
        /\ pc = "finish" /\ pc' = "callback" /\ UNCHANGED <<op, forgotten, adverse>>
        /\ \E s : reported' = [reported EXCEPT ![call[current]] = <<s>>]
    BY <1>3, FinishFacts DEF IInv, Finish, settings
  <2>2. PICK c \in Calls : c = call[current]
    BY <2>1 DEF Pending, IInv, TypeOK
  <2>3. Completed' = Completed \cup {c}
    BY <1>1, <2>1, <2>2
  <2>4. Ledger!Complete(c)
    BY <2>1, <2>2, <2>3 DEF Ledger!Complete
  <2> QED
    BY <2>4
<1>4. CASE ProcessMessage
  <2>1. /\ pc = "process" /\ pc' \in {"finish", "user"}
        /\ op # "destroy" /\ op' # "destroy"
        /\ UNCHANGED <<inUse, call, submitted, reported, adverse>>
    BY <1>4 DEF ProcessMessage, Leave, owners, settings, IInv, Control
  <2>2. PICK m \in messages :
          \/ forgotten' = forgotten \cup Dropped(m.request)
          \/ /\ "curl" \in adverse
             /\ forgotten' = forgotten \cup Dropped(m.request) \cup {call[m.request]}
    BY <1>4 DEF ProcessMessage
  <2> DEFINE q == m.request
             S == (forgotten' \cap Pending) \ forgotten
  <2>3. q \in inUse /\ call[q] \in Pending
    BY <2>1 DEF IInv, InCurl, Attached, CallsServed, Pending
  <2>4. call[q] \notin Dropped(q)
    <3>1. \A r \in Listed : r \in inUse
      BY <2>1, ListedPending DEF IInv
    <3> QED
      BY <2>3, <3>1 DEF Dropped, IInv, CallsServed
  <2>5. UNCHANGED Pending /\ forgotten \subseteq forgotten'
    BY <2>1, <2>2 DEF Pending
  <2>6. \/ "curl" \in adverse
        \/ \E c \in (Pending \ forgotten) \cup (Pending \cap forgotten) : c \notin S
    BY <2>2, <2>3, <2>4
  <2>7. S \subseteq Pending \ forgotten /\ S \in SUBSET Calls
    BY DEF Pending, IInv, TypeOK
  <2>8. /\ Pending' \ forgotten' = (Pending \ forgotten) \ S
        /\ Pending' \cap forgotten' = (Pending \cap forgotten) \cup S
    BY <2>5
  <2>9. Phase = "open" /\ Phase' = "open"
    BY <2>1
  <2> HIDE DEF S
  <2>10. Ledger!Forget(S)
    BY <2>1, <2>6, <2>7, <2>8, <2>9 DEF Ledger!Forget
  <2> QED
    BY <2>7, <2>10
<1>5. ASSUME UNCHANGED <<submitted, reported, forgotten, adverse>>, Phase' = Phase
      PROVE  UNCHANGED Ledger!vars
  BY <1>5 DEF Pending
<1>6. ASSUME UNCHANGED <<submitted, reported, forgotten, adverse>>,
             Phase # "closed", Phase' = "closed"
      PROVE  Ledger!Close
  BY <1>6 DEF Ledger!Close, Pending, IInv, Kept
<1>7. CASE S3_destroy_request_context
  <2>1. /\ pc = "user" /\ op # "destroy" /\ op' = "destroy"
        /\ UNCHANGED <<submitted, reported, forgotten, adverse>>
    BY <1>7 DEF S3_destroy_request_context, appVars, settings, IInv, Control
  <2>2. CASE pc' = "freed"
    BY <1>6, <2>1, <2>2
  <2>3. CASE pc' # "freed"
    <3>1. Ledger!StartClose
      BY <2>1, <2>3 DEF Ledger!StartClose, Pending
    <3> QED
      BY <3>1
  <2> QED
    BY <2>2, <2>3
<1>8. CASE Release
  <2>1. /\ pc = "callback" /\ UNCHANGED <<submitted, reported, forgotten, adverse, op>>
    BY <1>8 DEF Release, appVars, settings
  <2>2. CASE pc' = "freed"
    BY <1>6, <2>1, <2>2
  <2>3. CASE pc' # "freed"
    BY <1>5, <2>1, <2>3
  <2> QED
    BY <2>2, <2>3
<1>9. ASSUME NEW flag \in BOOLEAN, S3_set_request_context_verify_peer(flag)
      PROVE  UNCHANGED Ledger!vars
  BY <1>5, <1>9 DEF S3_set_request_context_verify_peer, appVars, settings, control
<1>10. ASSUME NEW r \in Requests, ReceiveHeaders(r) \/ ReceiveData(r) \/ TransferDone(r)
       PROVE  UNCHANGED Ledger!vars
  BY <1>5, <1>10 DEF ReceiveHeaders, ReceiveData, TransferDone, appVars, settings, control
<1>11. CASE S3_runonce_request_context \/ S3_runall_request_context
              \/ S3_process_request_context
  <2>1. /\ pc = "user" /\ pc' # "freed" /\ op # "destroy" /\ op' # "destroy"
        /\ UNCHANGED <<submitted, reported, forgotten, adverse>>
    BY <1>11 DEF S3_runonce_request_context, S3_runall_request_context,
                 S3_process_request_context, Enter, appVars, settings, IInv, Control
  <2> QED
    BY <1>5, <2>1
<1>12. CASE PerformReturns \/ PerformFails \/ ProcessFails \/ ProcessDone
  <2>1. /\ pc # "freed" /\ pc' # "freed" /\ op # "destroy" /\ op' # "destroy"
        /\ UNCHANGED <<submitted, reported, forgotten, adverse>>
    BY <1>12 DEF PerformReturns, PerformFails, ProcessFails, ProcessDone, Leave,
                 appVars, settings, IInv, Control
  <2> QED
    BY <1>5, <2>1
<1>13. CASE DestroyNext
  BY <1>5, <1>13 DEF DestroyNext, appVars, settings
<1>14. CASE Stopped \/ UNCHANGED vars
  BY <1>5, <1>14 DEF Stopped, vars, appVars, settings, control
<1> QED
  BY <1>2, <1>3, <1>4, <1>7, <1>8, <1>9, <1>10, <1>11, <1>12, <1>13, <1>14
  DEF Next

(* However many requests a context runs, whatever their callbacks issue    *)
(* and curl fails to do, each call is completed at most once, and one that *)
(* a destroyed context leaves uncompleted was made by a callback of        *)
(* S3_destroy_request_context itself or was forgotten: when the Request of *)
(* another was taken from the list, or with a failure of curl's.  It       *)
(* implements RequestLedger.                                               *)
THEOREM LedgerKept == Spec => ImplementsRequestLedger
<1>1. Init => Ledger!Init
  BY DEF Init, Ledger!Init, Pending
<1> QED
  BY <1>1, LedgerStep, Invariance, PTL DEF Spec, ImplementsRequestLedger, Ledger!Spec
=============================================================================
