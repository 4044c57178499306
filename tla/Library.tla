------------------------------ MODULE Library ------------------------------
(***************************************************************************)
(* S3_initialize and S3_deinitialize (src/src/general.c): a count of the   *)
(* initializations, the first and the last of which set up and take down   *)
(* what all requests share (request_api_initialize and                     *)
(* request_api_deinitialize, module RequestPool).                          *)
(*                                                                         *)
(* The count is a plain int: `++` and `--` are a load and a store.         *)
(* libs3.h (Threading Rules) has the program call S3_initialize from one   *)
(* thread at a time and leaves S3_deinitialize free.                       *)
(***************************************************************************)
EXTENDS Integers

CONSTANTS
  Threads,
  MaxHeld        \* bound: initializations of a thread it has yet to undo

VARIABLES
  initializeCountG,
  apiUp,      \* request_api_initialize succeeded and was not undone
  pc,         \* where each thread is
  loaded,     \* the count each thread has loaded
  held,       \* history: initializations that returned S3StatusOK and that
              \* the thread has not begun to undo
  failed      \* history: an S3_initialize has returned an error

vars == <<initializeCountG, apiUp, pc, loaded, held, failed>>

Init ==
  /\ initializeCountG = 0
  /\ apiUp = FALSE
  /\ pc = [t \in Threads |-> "out"]
  /\ loaded = [t \in Threads |-> 0]
  /\ held = [t \in Threads |-> 0]
  /\ failed = FALSE

Goto(t, to) == pc' = [pc EXCEPT ![t] = to]

\* Threading Rule 3.
MayInitialize(t) == \A u \in Threads \ {t} : pc[u] \notin {"initStore", "initApi"}

-----------------------------------------------------------------------------
Load(t, to) ==
  /\ pc[t] = "out"
  /\ Goto(t, to)
  /\ loaded' = [loaded EXCEPT ![t] = initializeCountG]

InitLoad(t) ==
  /\ MayInitialize(t)
  /\ held[t] < MaxHeld
  /\ Load(t, "initStore")
  /\ UNCHANGED <<initializeCountG, apiUp, held, failed>>

\* `if (initializeCountG++) return S3StatusOK`
InitStore(t) ==
  /\ pc[t] = "initStore"
  /\ initializeCountG' = loaded[t] + 1
  /\ IF loaded[t] # 0
     THEN Goto(t, "out") /\ held' = [held EXCEPT ![t] = @ + 1]
     ELSE Goto(t, "initApi") /\ UNCHANGED held
  /\ UNCHANGED <<apiUp, loaded, failed>>

\* request_api_initialize succeeds ...
InitApi(t) ==
  /\ pc[t] = "initApi"
  /\ Goto(t, "out")
  /\ apiUp' = TRUE
  /\ held' = [held EXCEPT ![t] = @ + 1]
  /\ UNCHANGED <<initializeCountG, loaded, failed>>

\* ... or not, which is what S3_initialize then returns.
InitApiFails(t) ==
  /\ pc[t] = "initApi"
  /\ Goto(t, "out")
  /\ UNCHANGED <<initializeCountG, apiUp, loaded, held>>
  /\ failed' = TRUE

DeinitLoad(t) ==
  /\ held[t] > 0
  /\ held' = [held EXCEPT ![t] = @ - 1]
  /\ Load(t, "deinitStore")
  /\ UNCHANGED <<initializeCountG, apiUp, failed>>

\* `if (--initializeCountG) return`
DeinitStore(t) ==
  /\ pc[t] = "deinitStore"
  /\ initializeCountG' = loaded[t] - 1
  /\ Goto(t, IF loaded[t] # 1 THEN "out" ELSE "deinitApi")
  /\ UNCHANGED <<apiUp, loaded, held, failed>>

\* request_api_deinitialize
DeinitApi(t) ==
  /\ pc[t] = "deinitApi"
  /\ Goto(t, "out")
  /\ apiUp' = FALSE
  /\ UNCHANGED <<initializeCountG, loaded, held, failed>>

Next ==
  \E t \in Threads :
    \/ InitLoad(t) \/ InitStore(t) \/ InitApi(t) \/ InitApiFails(t)
    \/ DeinitLoad(t) \/ DeinitStore(t) \/ DeinitApi(t)

Spec == Init /\ [][Next]_vars

-----------------------------------------------------------------------------
(* A thread whose S3_initialize returned S3StatusOK finds the library set  *)
(* up until its own S3_deinitialize, whatever the other threads undo.  A   *)
(* failed S3_initialize leaves the count incremented and ends this: the    *)
(* next one returns S3StatusOK and sets up nothing.                        *)
UpWhileHeld == (\E t \in Threads : held[t] > 0) => apiUp \/ failed
=============================================================================
