----------------------------- MODULE AtomicPut -----------------------------
(***************************************************************************)
(* What `s3 put` promises (src/src/s3.c): whatever is retried, lost,       *)
(* interrupted or continued later, the object is the whole source or is    *)
(* not there, and success is reported only when it is there.               *)
(***************************************************************************)
CONSTANTS Nothing

VARIABLES
  source,    \* what is to be put
  object,    \* what S3 has under the key
  outcome    \* what the program has told its user

vars == <<source, object, outcome>>

Init == object = Nothing /\ outcome = "none"

Replace == object' = source /\ UNCHANGED <<source, outcome>>

Succeed == object = source /\ outcome' = "OK" /\ UNCHANGED <<source, object>>

Fail == outcome' = "error" /\ UNCHANGED <<source, object>>

\* The program is started again.
Begin == outcome' = "none" /\ UNCHANGED <<source, object>>

Next == Replace \/ Succeed \/ Fail \/ Begin

Spec == Init /\ [][Next]_vars
=============================================================================
