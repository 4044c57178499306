---------------------------- MODULE ReadCommands ----------------------------
(***************************************************************************)
(* The commands of src/src/s3.c that read: `list`, `listmultiparts` and    *)
(* `listparts`, which ask for page after page and print the batches of     *)
(* each (module Listing), and `get`, which writes the data to a file.      *)
(* Each repeats a request that fails, although a part of the answer may    *)
(* have come before the failure.                                           *)
(*                                                                         *)
(* S3 and curl are the environment.  S3 answers a list request with the    *)
(* entries that follow the marker, items first and common prefixes then,   *)
(* as many as PageSize and the request's maximum allow; it gives the next  *)
(* marker of a page that is not the last one, but not to a list bucket     *)
(* request without a delimiter.  An answer may stop anywhere.              *)
(***************************************************************************)
EXTENDS RequestStatus, FiniteSets, SequencesExt

CONSTANTS
  Commands,             \* which of "list", "list delimiter", "listmultiparts",
                        \* "listparts" and "get"
  MaxEntries,           \* bound: entries of a listing, pieces of an object
  PageSize,             \* entries of a page, at most
  MAX_ITEMS,            \* items of a batch, and ...
  MAX_COMMON_PREFIXES,  \* ... common prefixes, at most
  Maxima,               \* maxkeys, max-uploads or max-parts; 0: not given
  OldLengths,           \* lengths of the file before a get
  DiskSize,             \* pieces the disk has room for
  Retries               \* --retries

ASSUME ReadCommandsAssumption ==
  /\ Commands \subseteq {"list", "list delimiter", "listmultiparts", "listparts", "get"}
  /\ MaxEntries \in Nat /\ PageSize \in Nat \ {0}
  /\ MAX_ITEMS \in Nat \ {0} /\ MAX_COMMON_PREFIXES \in Nat \ {0}
  /\ Maxima \subseteq Nat /\ OldLengths \subseteq Nat /\ DiskSize \in Nat /\ Retries \in Nat

VARIABLES
  command,
  entries,      \* the kinds of what there is to read, "item" or "prefix"
  maxkeys,
  pc,           \* "ask", "receive", "answered", "done"
  answer,       \* what S3 answers, and what of it has not come yet
  collected,    \* entries that wait in the arrays of Listing
  isTruncated, nextMarker, keyCount,  \* the callback data; 0: no marker
  printed,      \* the entries printed
  file, position,                     \* outfile
  statusG, retriesG,
  late,         \* history: a request failed, or was cut, after a callback
  cut           \* history: the last answer was cut short

vars == <<command, entries, maxkeys, pc, answer, collected, isTruncated, nextMarker,
          keyCount, printed, file, position, statusG, retriesG, late, cut>>

parameters == <<command, entries, maxkeys>>
listed     == <<isTruncated, nextMarker, keyCount, printed>>
outfile    == <<file, position>>
results    == <<statusG, retriesG, late, cut>>

Old == 0

NoAnswer == [rest |-> <<>>, truncated |-> FALSE, next |-> 0, before |-> 0]

Init ==
  /\ command \in Commands
  /\ entries \in UNION {[1 .. n -> IF command \in {"list delimiter", "listmultiparts"}
                                   THEN {"item", "prefix"} ELSE {"item"}] : n \in 0 .. MaxEntries}
  /\ maxkeys \in IF command = "get" THEN {0} ELSE Maxima
  /\ file \in IF command = "get" THEN {[i \in 1 .. n |-> Old] : n \in OldLengths} ELSE {<<>>}
  /\ position = 0
  /\ pc = "ask"
  /\ answer = NoAnswer /\ collected = <<>>
  /\ isTruncated = FALSE /\ nextMarker = 0 /\ keyCount = 0 /\ printed = <<>>
  /\ statusG = "OK" /\ retriesG = Retries
  /\ late = FALSE /\ cut = FALSE

IsItem(entry)         == entries[entry] = "item"
IsCommonPrefix(entry) == entries[entry] = "prefix"

-----------------------------------------------------------------------------
(* S3 *)

Shorter(m, n) == IF m < n THEN m ELSE n

PageEnd ==
  Shorter(nextMarker + IF maxkeys = 0 THEN PageSize ELSE Shorter(maxkeys, PageSize),
          Len(entries))

\* The numbers of a set in order.
InOrder(S) ==
  [i \in 1 .. Cardinality(S) |-> CHOOSE n \in S : Cardinality({m \in S : m <= n}) = i]

Page ==
  LET all == nextMarker + 1 .. PageEnd
  IN  InOrder({n \in all : IsItem(n)}) \o InOrder({n \in all : IsCommonPrefix(n)})

\* The next marker; list parts may give that of the last page, too.
Markers ==
  IF command = "list" THEN {0}
  ELSE IF PageEnd < Len(entries) THEN {PageEnd}
  ELSE IF command = "listparts" THEN {0, PageEnd}
  ELSE {0}

\* A request is sent; S3 decides on its answer.
Ask ==
  /\ pc = "ask"
  /\ pc' = "receive"
  /\ IF command = "get"
     THEN answer' = [NoAnswer EXCEPT !.rest = [i \in DOMAIN entries |-> i],
                                     !.before = position]
     ELSE \E marker \in Markers :
            answer' = [rest |-> Page, truncated |-> PageEnd < Len(entries),
                       next |-> marker, before |-> Len(printed)]
  /\ UNCHANGED <<parameters, collected, listed, outfile, results>>

-----------------------------------------------------------------------------
(* The callbacks *)

\* Where the items and the common prefixes of a batch are in it.
ItemPlaces(batch)         == {i \in DOMAIN batch : IsItem(batch[i])}
CommonPrefixPlaces(batch) == {i \in DOMAIN batch : IsCommonPrefix(batch[i])}

\* Mutant of NextMarker: without one from S3 there is none.
NextMarkerAsGiven(batch) == answer.next

\* What listBucketCallback keeps as the next marker, its last item if S3 gives
\* none; the other two callbacks keep what they get.
NextMarker(batch) ==
  IF answer.next = 0 /\ ItemPlaces(batch) # {} THEN batch[Max(ItemPlaces(batch))]
  ELSE answer.next

\* What a callback prints is recorded until something could be printed twice.
PrintBatch(batch) ==
  /\ isTruncated' = answer.truncated
  /\ keyCount' = keyCount + Cardinality(ItemPlaces(batch))
  /\ printed' = IF late /\ command # "list" THEN printed ELSE printed \o batch

listBucketCallback(batch) ==
  /\ command \in {"list", "list delimiter"}
  /\ nextMarker' = NextMarker(batch)
  /\ PrintBatch(batch)

listMultipartCallback(batch) ==
  /\ command = "listmultiparts"
  /\ nextMarker' = answer.next
  /\ PrintBatch(batch)

listPartsCallback(batch) ==
  /\ command = "listparts"
  /\ nextMarker' = answer.next
  /\ PrintBatch(batch)

ListCallback(batch) ==
  listBucketCallback(batch) \/ listMultipartCallback(batch) \/ listPartsCallback(batch)

Full(batch) ==
  \/ Cardinality(ItemPlaces(batch)) = MAX_ITEMS
  \/ Cardinality(CommonPrefixPlaces(batch)) = MAX_COMMON_PREFIXES

\* An element of the listing has come; a full array makes a callback.
EntryComes ==
  /\ pc = "receive" /\ command # "get" /\ answer.rest # <<>>
  /\ answer' = [answer EXCEPT !.rest = Tail(@)]
  /\ LET batch == Append(collected, Head(answer.rest)) IN
       IF Full(batch) THEN ListCallback(batch) /\ collected' = <<>>
       ELSE collected' = batch /\ UNCHANGED listed
  /\ UNCHANGED <<parameters, pc, outfile, results>>

\* getObjectDataCallback: it writes where the writes before ended.
DataWritten ==
  /\ pc = "receive" /\ command = "get" /\ answer.rest # <<>> /\ position < DiskSize
  /\ answer' = [answer EXCEPT !.rest = Tail(@)]
  /\ file' = SubSeq(file, 1, position) \o <<Head(answer.rest)>>
               \o SubSeq(file, position + 2, Len(file))
  /\ position' = position + 1
  /\ UNCHANGED <<parameters, pc, collected, listed, results>>

\* Mutant of DataNotWritten: the number of bytes written is not looked at.
ShortWriteIgnored ==
  /\ pc = "receive" /\ command = "get" /\ answer.rest # <<>> /\ position = DiskSize
  /\ answer' = [answer EXCEPT !.rest = Tail(@)]
  /\ UNCHANGED <<parameters, pc, collected, listed, outfile, results>>

\* The disk is full: the request is aborted.
DataNotWritten ==
  /\ pc = "receive" /\ command = "get" /\ answer.rest # <<>> /\ position = DiskSize
  /\ pc' = "answered"
  /\ statusG' = "AbortedByCallback"
  /\ UNCHANGED <<parameters, answer, collected, listed, outfile, retriesG, late, cut>>

-----------------------------------------------------------------------------
\* Mutant of should_retry: the retries are not counted.
RetryUncounted ==
  /\ retriesG' = retriesG
  /\ pc' = IF retriesG # 0 THEN "ask" ELSE "answered"

should_retry ==
  /\ retriesG' = retriesG - 1
  /\ pc' = IF retriesG # 0 THEN "ask" ELSE "answered"

\* The request ends as curl says: the complete callback of Listing passes on
\* what was collected, responseCompleteCallback keeps the status.
Complete(code) ==
  /\ pc = "receive"
  /\ code = "OK" => answer.rest = <<>>
  /\ IF collected = <<>> THEN UNCHANGED listed ELSE ListCallback(collected)
  /\ collected' = <<>>
  /\ statusG' = RecordCurlResult("OK", code)
  /\ IF statusG' \in Retryable THEN should_retry ELSE pc' = "answered" /\ UNCHANGED retriesG
  /\ late' = (late \/ (code # "OK" /\ Len(printed') + position > answer.before))
  /\ cut' = (code = "PARTIAL_FILE")
  /\ UNCHANGED <<parameters, answer, outfile>>

NextPage ==
  /\ pc = "answered" /\ statusG = "OK" /\ isTruncated
  /\ maxkeys = 0 \/ keyCount < maxkeys
  /\ isTruncated' = FALSE
  /\ pc' = "ask"
  /\ UNCHANGED <<parameters, answer, collected, nextMarker, keyCount, printed, outfile, results>>

Done ==
  /\ pc = "answered"
  /\ ~(statusG = "OK" /\ isTruncated /\ (maxkeys = 0 \/ keyCount < maxkeys))
  /\ pc' = "done"
  /\ UNCHANGED <<parameters, answer, collected, listed, outfile, results>>

Finished == pc = "done" /\ UNCHANGED vars

Next ==
  \/ Ask \/ EntryComes \/ DataWritten \/ DataNotWritten
  \/ \E code \in CurlCodes \ {"WRITE_ERROR"} : Complete(code)
  \/ NextPage \/ Done
  \/ Finished

\* The program runs on and each of its requests ends (RequestLifecycle).
Spec == Init /\ [][Next]_vars /\ WF_vars(Next)

-----------------------------------------------------------------------------
(* The pages of a listing fit together: nothing is left out between them   *)
(* and nothing comes twice, and a listing without a maximum that is        *)
(* reported to be OK is whole, except that an answer that was cut short is *)
(* taken for a whole one.  Only `list` without a delimiter can repeat a    *)
(* request part of whose answer has been printed; the others would go on   *)
(* behind the page, or start again.                                        *)
ListedOnce ==
  command # "get" /\ pc \in {"answered", "done"} /\ (late => command = "list") =>
    /\ ToSet(printed) = 1 .. Len(printed)
    /\ pc = "done" /\ statusG = "OK" /\ maxkeys = 0 /\ ~cut => Len(printed) = Len(entries)

(* A get that is reported to be OK has the whole object in the file, in    *)
(* its order, unless the answer was cut short.  A repeated request writes  *)
(* behind what the failed one has written, and what the file had more is   *)
(* left there.                                                             *)
SavedWhole ==
  command = "get" /\ pc = "done" /\ statusG = "OK" /\ ~cut =>
    /\ position >= Len(entries)
    /\ SubSeq(file, position - Len(entries) + 1, position) = [i \in DOMAIN entries |-> i]
    /\ ~late => position = Len(entries)

(* Every command ends: it does not ask for the same page, or repeat a      *)
(* request, for ever.                                                      *)
CommandEnds == <>(pc = "done")
=============================================================================
