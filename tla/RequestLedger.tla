--------------------------- MODULE RequestLedger ---------------------------
(***************************************************************************)
(* What a request context keeps of its promise (inc/libs3.h) that each     *)
(* call is completed exactly once, whether it is rejected at once, run to  *)
(* its end or interrupted.  A call that is completed is so once, and the   *)
(* context is closed only when no call is outstanding; but calls may be    *)
(* forgotten, and need not be completed before it is closed.  As long as   *)
(* curl does not fail, that takes a second call: one that is alone is      *)
(* never forgotten.                                                        *)
(***************************************************************************)
CONSTANTS Calls

VARIABLES
  phase,        \* of the context: "open", "closing", "closed"
  failing,      \* curl's functions may fail
  outstanding,  \* calls made, not completed and not forgotten
  forgotten,    \* calls made, not completed and forgotten
  completed     \* calls completed

vars == <<phase, failing, outstanding, forgotten, completed>>

Init ==
  /\ phase = "open" /\ failing \in BOOLEAN
  /\ outstanding = {} /\ forgotten = {} /\ completed = {}

New(c) == c \notin outstanding \cup forgotten \cup completed

Submit(c) ==
  /\ phase = "open" /\ New(c)
  /\ outstanding' = outstanding \cup {c}
  /\ UNCHANGED <<phase, failing, forgotten, completed>>

\* A call made while the context closes may miss its completion.
SubmitLate(c) ==
  /\ phase = "closing" /\ New(c)
  /\ forgotten' = forgotten \cup {c}
  /\ UNCHANGED <<phase, failing, outstanding, completed>>

\* The call fails before it becomes outstanding.
Reject(c) ==
  /\ phase # "closed" /\ New(c)
  /\ completed' = completed \cup {c}
  /\ UNCHANGED <<phase, failing, outstanding, forgotten>>

Complete(c) ==
  /\ phase # "closed" /\ c \in outstanding \cup forgotten
  /\ outstanding' = outstanding \ {c}
  /\ forgotten' = forgotten \ {c}
  /\ completed' = completed \cup {c}
  /\ UNCHANGED <<phase, failing>>

Forget(S) ==
  /\ phase = "open" /\ S \subseteq outstanding
  /\ failing \/ \E c \in outstanding \cup forgotten : c \notin S
  /\ outstanding' = outstanding \ S
  /\ forgotten' = forgotten \cup S
  /\ UNCHANGED <<phase, failing, completed>>

StartClose ==
  /\ phase = "open"
  /\ phase' = "closing"
  /\ UNCHANGED <<failing, outstanding, forgotten, completed>>

Close ==
  /\ phase # "closed" /\ outstanding = {}
  /\ phase' = "closed"
  /\ UNCHANGED <<failing, outstanding, forgotten, completed>>

Next ==
  \/ \E c \in Calls : Submit(c) \/ SubmitLate(c) \/ Reject(c) \/ Complete(c)
  \/ \E S \in SUBSET Calls : Forget(S)
  \/ StartClose \/ Close

Spec == Init /\ [][Next]_vars
=============================================================================
