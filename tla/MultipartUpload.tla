-------------------------- MODULE MultipartUpload --------------------------
(***************************************************************************)
(* `s3 put` and the copy of a large object (put_object in src/src/s3.c):   *)
(* a short source in one request, a long one as a multipart upload that is *)
(* initiated, sent in parts and committed, every request retried while its *)
(* status is retryable; and the continuation of an upload that an earlier  *)
(* run of the program left behind, from the parts S3 lists.                *)
(*                                                                         *)
(* S3 is the environment.  Requests are blocking, so that one is a step;   *)
(* RequestLifecycle says what happens inside and that it ends.  A request  *)
(* may be carried out by S3 although the program is told that it failed.   *)
(* The program may be killed at any point and started again.               *)
(*                                                                         *)
(* The bytes of the source are 1, 2, ...; the ETag of a part is its        *)
(* content.  ints wrap at IntMax, 64-bit lengths at LongMod.               *)
(***************************************************************************)
EXTENDS Integers, Sequences, FiniteSets, SequencesExt

CONSTANTS
  ContentLengths,          \* lengths of the source
  MULTIPART_CHUNK_SIZE,
  IntMax, LongMod,         \* an int is in -IntMax .. IntMax - 1
  PageSize,                \* parts S3 lists in one response
  Retries,                 \* retriesG when the program starts
  XmlSize,                 \* pieces the commit's document is read in
  MaxUploads, MaxRuns,     \* bounds: uploads initiated, program starts
  NoPart                   \* no part, no ETag, no object

ASSUME UploadAssumption ==
  /\ IntMax \in Nat /\ LongMod \in Nat
  /\ ContentLengths \subseteq 1 .. LongMod - 1
  /\ MULTIPART_CHUNK_SIZE \in 2 .. IntMax - 1
  /\ 2 * IntMax \in 1 .. LongMod
  /\ PageSize \in Nat \ {0} /\ Retries \in Nat /\ XmlSize \in Nat \ {0}
  /\ MaxUploads \in Nat /\ MaxRuns \in Nat
  /\ NoPart \notin Seq(Nat)

VARIABLES
  \* the source, which stays the same
  length,          \* its length
  copying,         \* it is an object in S3, not a file
  \* S3
  uploads,         \* uploads initiated: 1 .. uploads
  open,            \* those neither committed nor aborted
  parts,           \* their parts
  object,          \* what is under the key
  \* UploadManager
  upload_id, etags, next_etags_pos, remaining,
  \* put_object
  contentLength, seq, partContentLength,
  partLeft,        \* put_object_callback_data.contentLength
  position,        \* of the input file
  \* list_parts_callback_data
  isTruncated, nextPartNumberMarker,
  \* the program
  statusG, retriesG, pc, outcome,
  runs,            \* history: starts of the program
  relisted         \* history: some run was given parts by two list requests

source     == <<length, copying>>
server     == <<uploads, open, parts, object>>
manager    == <<upload_id, etags, next_etags_pos, remaining>>
putVars    == <<contentLength, seq, partContentLength, partLeft, position>>
listVars   == <<isTruncated, nextPartNumberMarker>>
history    == <<runs, relisted>>
vars == <<source, server, manager, putVars, listVars, statusG, retriesG, pc,
          outcome, history>>

Bytes(from, count) == [i \in 1 .. count |-> from + i]

Shorter(a, b) == IF a < b THEN a ELSE b

ToInt(n)  == ((n + IntMax) % (2 * IntMax)) - IntMax
ToLong(n) == n % LongMod

TotalSeq == (length + MULTIPART_CHUNK_SIZE - 1) \div MULTIPART_CHUNK_SIZE

Chunk(n) ==
  LET from == MULTIPART_CHUNK_SIZE * (n - 1)
  IN  Bytes(from, Shorter(MULTIPART_CHUNK_SIZE, length - from))

Numbers == 1 .. TotalSeq

Init ==
  /\ length \in ContentLengths /\ copying \in BOOLEAN
  /\ copying => length > MULTIPART_CHUNK_SIZE
  /\ uploads = 0 /\ open = {}
  /\ parts = [id \in 1 .. MaxUploads |-> [n \in Numbers |-> NoPart]]
  /\ object = NoPart
  /\ upload_id = 0
  /\ etags = [i \in 0 .. TotalSeq - 1 |-> NoPart]
  /\ next_etags_pos = 0 /\ remaining = 0
  /\ contentLength = length /\ seq = 1
  /\ partContentLength = 0 /\ partLeft = length /\ position = 0
  /\ isTruncated = FALSE /\ nextPartNumberMarker = 0
  /\ statusG = "OK" /\ retriesG = Retries
  /\ pc = "idle" /\ outcome = "none" /\ runs = 0 /\ relisted = FALSE

-----------------------------------------------------------------------------
(* Requests and retries *)

Results == {"OK", "retryable", "failed"}

\* `while (S3_status_is_retryable(statusG) && should_retry())`, where the
\* request at `at` goes on to `then`.
Conclude(result, at, then) ==
  /\ statusG' = result
  /\ retriesG' = IF result = "retryable" THEN retriesG - 1 ELSE retriesG
  /\ pc' = CASE result = "OK"                           -> then
             [] result = "retryable" /\ retriesG # 0    -> at
             [] OTHER                                   -> "clean"

-----------------------------------------------------------------------------
(* The program starts, is killed, and ends *)

Begin(at) ==
  /\ pc = "idle" /\ runs < MaxRuns
  /\ runs' = runs + 1
  /\ pc' = at
  /\ UNCHANGED <<source, server, etags, next_etags_pos, putVars, listVars,
                 statusG, retriesG, outcome, relisted>>

StartPut ==
  /\ Begin(IF length <= MULTIPART_CHUNK_SIZE THEN "put" ELSE "initiate")
  /\ UNCHANGED <<upload_id, remaining>>

\* `upload-id=`: for a file only, put_object has no file to seek in else.
StartContinue ==
  \E id \in 1 .. uploads :
    /\ ~copying
    /\ Begin("list")
    /\ upload_id' = id
    /\ remaining' = ToInt(length)

\* The end of the program: its variables are gone, what S3 has stays.
Reset(report) ==
  /\ upload_id' = 0
  /\ etags' = [i \in 0 .. TotalSeq - 1 |-> NoPart]
  /\ next_etags_pos' = 0 /\ remaining' = 0
  /\ contentLength' = length /\ seq' = 1
  /\ partContentLength' = 0 /\ partLeft' = length /\ position' = 0
  /\ isTruncated' = FALSE /\ nextPartNumberMarker' = 0
  /\ statusG' = "OK" /\ retriesG' = Retries
  /\ pc' = "idle"
  /\ outcome' = report
  /\ UNCHANGED <<source, server, history>>

Killed == pc # "idle" /\ Reset("none")

Clean == pc = "clean" /\ Reset(IF statusG = "OK" THEN "OK" ELSE "error")

-----------------------------------------------------------------------------
(* Reading the file: putObjectDataCallback *)

\* What the callback can still supply in the current request.
Available ==
  Shorter(partLeft, IF position < length THEN length - position ELSE 0)

\* Mutant of Supply: only the count is set back for a retry, not the file.
SupplyCountReset(sent) ==
  /\ sent \in 0 .. Available
  /\ position' = position + sent
  /\ partLeft' = IF pc = "part" /\ statusG' # "OK" THEN partContentLength
                 ELSE partLeft - sent

\* A request reads `sent` bytes; a failed one leaves the rest to the next.
Supply(sent) ==
  /\ sent \in 0 .. Available
  /\ position' = position + sent
  /\ partLeft' = partLeft - sent

\* S3 takes a body of the length it was promised, and may have done so when
\* the program is told otherwise.
Taken(promised, sent, result) ==
  IF sent # promised THEN (IF result = "OK" THEN {} ELSE {FALSE})
  ELSE IF result = "OK" THEN {TRUE} ELSE BOOLEAN

PutObject ==
  /\ pc = "put"
  /\ \E sent \in 0 .. length, result \in Results :
       /\ Conclude(result, "put", "clean")
       /\ Supply(sent)
       /\ \E taken \in Taken(length, sent, result) :
            object' = IF taken THEN Bytes(position, sent) ELSE object
  /\ UNCHANGED <<source, uploads, open, parts, manager, contentLength, seq,
                 partContentLength, listVars, outcome, history>>

-----------------------------------------------------------------------------
(* S3_initiate_multipart, S3_upload_part, S3_copy_object_range *)

\* The id reaches initial_multipart_callback, which the complete callback
\* makes; after a failure it is not used.
Initiate ==
  /\ pc = "initiate"
  /\ \E result \in Results, made \in BOOLEAN :
       /\ Conclude(result, "initiate", "upload")
       /\ result = "OK" => made
       /\ made => uploads < MaxUploads
       /\ uploads' = IF made THEN uploads + 1 ELSE uploads
       /\ open' = IF made THEN open \cup {uploads'} ELSE open
       /\ upload_id' = IF result = "OK" THEN uploads' ELSE 0
  /\ UNCHANGED <<source, parts, object, etags, next_etags_pos, remaining, putVars,
                 listVars, outcome, history>>

NextPart ==
  /\ pc = "upload" /\ seq <= TotalSeq
  /\ pc' = "part"
  /\ partContentLength' = Shorter(contentLength, MULTIPART_CHUNK_SIZE)
  /\ partLeft' = partContentLength'
  /\ UNCHANGED <<source, server, manager, contentLength, seq, position, listVars,
                 statusG, retriesG, outcome, history>>

\* A part that S3 takes is stored under its number, over what was there.
StorePart(content, taken) ==
  /\ taken => upload_id \in open
  /\ parts' = IF taken THEN [parts EXCEPT ![upload_id][seq] = content] ELSE parts

\* Mutant of PartDone: the loop does not go on to the next part.
PartDoneUncounted(result) ==
  /\ contentLength' = IF result = "OK"
                      THEN ToLong(contentLength - MULTIPART_CHUNK_SIZE)
                      ELSE contentLength
  /\ UNCHANGED seq

\* The next round of the loop over the parts.
PartDone(result) ==
  IF result = "OK"
  THEN /\ contentLength' = ToLong(contentLength - MULTIPART_CHUNK_SIZE)
       /\ seq' = seq + 1
  ELSE UNCHANGED <<contentLength, seq>>

\* MultipartResponseProperiesCallback keeps the ETag as soon as the headers
\* of a successful response are in; the request may fail after that.
UploadPart ==
  /\ pc = "part" /\ ~copying
  /\ \E sent \in 0 .. MULTIPART_CHUNK_SIZE, result \in Results :
       /\ Conclude(result, "part", "upload")
       /\ Supply(sent)
       /\ \E taken \in Taken(partContentLength, sent, result), answered \in BOOLEAN :
            /\ result = "OK" => answered
            /\ answered => taken
            /\ StorePart(Bytes(position, sent), taken)
            /\ IF answered
               THEN /\ etags' = [etags EXCEPT ![seq - 1] = Bytes(position, sent)]
                    /\ next_etags_pos' = seq
               ELSE UNCHANGED <<etags, next_etags_pos>>
       /\ PartDone(result)
  /\ UNCHANGED <<source, uploads, open, object, upload_id, remaining,
                 partContentLength, listVars, outcome, history>>

\* The bytes S3_copy_object_range copies: "bytes=start-(start+count)", which
\* are one more than count, or all when count is 0.
CopiedRange(start, count) ==
  IF count = 0 THEN Bytes(0, length) ELSE Bytes(start, count + 1)

\* A range of the source object; next_etags_pos is not counted.
CopyPart ==
  /\ pc = "part" /\ copying
  /\ LET content == CopiedRange(MULTIPART_CHUNK_SIZE * (seq - 1), partContentLength - 1) IN
       \E result \in Results, taken \in BOOLEAN :
         /\ Conclude(result, "part", "upload")
         /\ result = "OK" => taken
         /\ StorePart(content, taken)
         /\ etags' = [etags EXCEPT ![seq - 1] = IF result = "OK" THEN content ELSE @]
         /\ PartDone(result)
  /\ UNCHANGED <<source, uploads, open, object, upload_id, next_etags_pos, remaining,
                 partContentLength, partLeft, position, listVars, outcome, history>>

-----------------------------------------------------------------------------
(* S3_complete_multipart_upload *)

BuildCommit ==
  /\ pc = "upload" /\ seq > TotalSeq
  /\ pc' = "commit"
  /\ remaining' = XmlSize
  /\ UNCHANGED <<source, server, upload_id, etags, next_etags_pos, putVars, listVars,
                 statusG, retriesG, outcome, history>>

\* S3 takes a document that is complete and names the parts it has, none
\* but the last of them too small.
Committable(sent) ==
  /\ sent = XmlSize
  /\ upload_id \in open
  /\ \A n \in Numbers :
       /\ parts[upload_id][n] # NoPart
       /\ parts[upload_id][n] = etags[n - 1]
       /\ n < TotalSeq => parts[upload_id][n] # <<>>

\* The document is read as it is sent: a retry sends what the last try left.
Commit ==
  /\ pc = "commit"
  /\ \E sent \in 0 .. remaining, result \in Results, taken \in BOOLEAN :
       /\ Conclude(result, "commit", "clean")
       /\ result = "OK" => taken
       /\ taken => Committable(sent)
       /\ remaining' = remaining - sent
       /\ IF taken
          THEN /\ object' = FlattenSeq([n \in Numbers |-> parts[upload_id][n]])
               /\ open' = open \ {upload_id}
          ELSE UNCHANGED <<object, open>>
  /\ UNCHANGED <<source, uploads, parts, upload_id, etags, next_etags_pos, putVars,
                 listVars, outcome, history>>

-----------------------------------------------------------------------------
(* try_get_parts_info: the parts S3 has, page by page *)

Stored == {n \in Numbers : parts[upload_id][n] # NoPart}

After == {n \in Stored : n > nextPartNumberMarker}

\* The numbers of the parts on the page after the marker, in order.
Page == [i \in 1 .. Shorter(Cardinality(After), PageSize) |->
           CHOOSE n \in After : Cardinality({m \in After : m <= n}) = i]

More == Cardinality(After) > PageSize

\* manager->remaining when the first `count` parts of the page are taken off it.
RemainingAfter(count) ==
  LET left[i \in 0 .. count] ==
        IF i = 0 THEN remaining
        ELSE ToInt(left[i - 1] - Len(parts[upload_id][Page[i]]))
  IN  left[count]

\* Mutant of StoreListed: the index is the part's number.
StoreListedByNumber(count) ==
  /\ etags' = [i \in DOMAIN etags |->
                 IF i \in 1 .. count THEN parts[upload_id][Page[i]] ELSE etags[i]]
  /\ next_etags_pos' = next_etags_pos + count
  /\ remaining' = RemainingAfter(count)

\* listPartsCallback with the first `count` parts of the page: their ETags are
\* stored from the start of the array on every page.
StoreListed(count) ==
  /\ etags' = [i \in DOMAIN etags |->
                 IF i < count THEN parts[upload_id][Page[i + 1]] ELSE etags[i]]
  /\ next_etags_pos' = next_etags_pos + count
  /\ remaining' = RemainingAfter(count)

\* A request that fails may have delivered some parts of its page, and with
\* them the flag and the marker; S3 may give the marker of the last page or
\* none.
ListParts ==
  /\ pc = "list"
  /\ \E result \in Results, count \in 0 .. PageSize :
       /\ count <= Len(Page)
       /\ result = "OK" => count = Len(Page) /\ upload_id \in open
       /\ upload_id \notin open => count = 0
       /\ StoreListed(count)
       /\ IF count = 0
          THEN UNCHANGED <<isTruncated, nextPartNumberMarker>>
          ELSE /\ isTruncated' = More
               /\ nextPartNumberMarker' \in
                    {Last(Page)} \cup IF More THEN {} ELSE {0}
       /\ relisted' = (relisted \/ (count > 0 /\ next_etags_pos > 0))
       /\ Conclude(result, "list", "listed")
  /\ UNCHANGED <<source, server, upload_id, putVars, outcome, runs>>

NextPage ==
  /\ pc = "listed" /\ isTruncated
  /\ isTruncated' = FALSE
  /\ pc' = "list"
  /\ UNCHANGED <<source, server, manager, putVars, nextPartNumberMarker,
                 statusG, retriesG, outcome, history>>

\* Mutant of Resume: no fseek.
ResumeAtStart ==
  /\ pc = "listed" /\ ~isTruncated
  /\ contentLength' = ToLong(remaining)
  /\ seq' = next_etags_pos + 1
  /\ pc' = "upload"
  /\ UNCHANGED <<source, server, manager, partContentLength, partLeft, position,
                 listVars, statusG, retriesG, outcome, history>>

\* `fseek(data.infile, -(manager.remaining), 2)`, which fails before the start
\* of the file and goes beyond its end.
Resume ==
  /\ pc = "listed" /\ ~isTruncated
  /\ position' = IF remaining <= length THEN length - remaining ELSE position
  /\ contentLength' = ToLong(remaining)
  /\ seq' = next_etags_pos + 1
  /\ pc' = "upload"
  /\ UNCHANGED <<source, server, manager, partContentLength, partLeft, listVars,
                 statusG, retriesG, outcome, history>>

-----------------------------------------------------------------------------
Program ==
  \/ PutObject
  \/ Initiate \/ NextPart \/ UploadPart \/ CopyPart
  \/ BuildCommit \/ Commit
  \/ ListParts \/ NextPage \/ Resume
  \/ Clean

Next == StartPut \/ StartContinue \/ Killed \/ Program

Spec == Init /\ [][Next]_vars

\* The program runs on: each of its requests ends (RequestLifecycle).
FairSpec == Spec /\ WF_vars(Program)

-----------------------------------------------------------------------------
\* A last part of one byte is copied with a count of 0, which copies all.
LastByteAlone == copying /\ length = MULTIPART_CHUNK_SIZE * (TotalSeq - 1) + 1

(* A part that S3 has is the piece of the source that its number says,     *)
(* also when requests were retried and uploads continued, as long as the   *)
(* length of the source is an int and each continuation got its parts from *)
(* one list parts request.  The last part of a copy is left out when it    *)
(* has one byte.                                                           *)
PartsAreChunks ==
  length < IntMax /\ ~relisted =>
    \A id \in 1 .. uploads : \A n \in Numbers :
      ~(LastByteAlone /\ n = TotalSeq) => parts[id][n] \in {NoPart, Chunk(n)}

(* With the same exception for long lists, the ETags that are committed    *)
(* are those of the parts S3 has, whichever run of the program sent them.  *)
EtagsOfParts ==
  pc = "commit" /\ ~relisted /\ upload_id \in open =>
    \A n \in Numbers : etags[n - 1] = parts[upload_id][n]

(* The program ends: it does not retry for ever, nor list the same page    *)
(* again and again.                                                        *)
ProgramEnds == pc # "idle" ~> pc = "idle"

Whole == FlattenSeq([n \in Numbers |-> Chunk(n)])

Put == INSTANCE AtomicPut WITH Nothing <- NoPart, source <- Whole

(* `s3 put` implements AtomicPut, whatever fails and is retried, and       *)
(* wherever the program is killed and continued, until a continuation is   *)
(* given parts by two list parts requests.  A copy does, too, unless its   *)
(* last part has one byte.                                                 *)
ImplementsAtomicPut ==
  Put!Init /\ [][relisted \/ LastByteAlone \/ Put!Next]_(Put!vars)

-----------------------------------------------------------------------------
(* What is said of these functions, and they do not do.                    *)

\* libs3.h on S3_copy_object_range: "count is the number of bytes starting at
\* startOffset in original object to copy.  0 indicates no-range (i.e. all)";
\* put_object passes one less, and 0 for one byte.
CopiedPartsAreChunks ==
  copying => \A id \in 1 .. uploads : \A n \in Numbers :
               parts[id][n] \in {NoPart, Chunk(n)}

\* The help of s3 offers "to continue to put the object"; after a list in two
\* requests it may put another, and say that it succeeded.
SuccessIsWhole == outcome = "OK" => object = Whole
=============================================================================
