------------------------------ MODULE IdlePool ------------------------------
(***************************************************************************)
(* What the request stack of src/src/request.c promises: a bounded LIFO of *)
(* idle Requests.  A caller that finds an idle Request gets the one        *)
(* released last, whose connection is the least likely to have timed out   *)
(* (the comment in request_release says why); a Request is in one place    *)
(* only.                                                                   *)
(***************************************************************************)
EXTENDS Naturals, Sequences, SequencesExt

CONSTANTS Requests, Capacity

VARIABLES
  idle,   \* Requests waiting for reuse, the last released at the end
  busy    \* allocated Requests that are not idle

vars == <<idle, busy>>

Init == idle = <<>> /\ busy = {}

\* A caller takes the Request released last.
Reuse ==
  /\ idle # <<>>
  /\ idle' = Front(idle)
  /\ busy' = busy \cup {Last(idle)}

\* A caller gets a new Request.
Create(r) ==
  /\ r \notin busy \cup ToSet(idle)
  /\ busy' = busy \cup {r}
  /\ UNCHANGED idle

\* A Request is given back.
Return(r) ==
  /\ r \in busy
  /\ Len(idle) < Capacity
  /\ idle' = Append(idle, r)
  /\ busy' = busy \ {r}

\* A Request is freed.
Discard(r) ==
  /\ r \in busy
  /\ busy' = busy \ {r}
  /\ UNCHANGED idle

\* The library is shut down when nothing is in use.
Drain == busy = {} /\ idle' = <<>> /\ UNCHANGED busy

Next ==
  \/ Reuse
  \/ \E r \in Requests : Create(r) \/ Return(r) \/ Discard(r)
  \/ Drain

Spec == Init /\ [][Next]_vars
=============================================================================
