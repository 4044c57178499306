# libs3 in TLA+

A specification of the concurrent and stateful core of libs3, the C client
library for Amazon S3: TLA+ modules translated from the source, TLC
configurations that check them on small instances, and theorems that TLAPS
proves for instances of every size. Paths are relative to the repository.

## 1. The system

libs3 turns a call such as `S3_list_bucket` or `S3_put_object` into one HTTP
request and reports its progress and its end through callbacks.

| part | source | state | operations | uses |
|---|---|---|---|---|
| Library initialization | `src/general.c` | `initializeCountG` | `S3_initialize`, `S3_deinitialize` | Request pool |
| Request pool | `src/request.c` | `requestStackG`, `requestStackCountG`, `requestStackMutexG`; shared by all threads | `request_get`, `request_release`, `request_destroy`, `request_api_initialize`, `request_api_deinitialize` | curl easy handles |
| Request life cycle | `src/request.c`, `inc/request.h` | a `Request`: status, response code, bytes to send, callbacks | the callbacks curl makes (`curl_header_func`, `curl_read_func`, `curl_write_func`), `request_headers_done`, `request_finish` | error parser, response headers, user callbacks |
| Request context | `src/request_context.c`, `request_perform` | circular list of `Request`s, curl multi handle, `verifyPeer` | `S3_create_`/`S3_destroy_`/`S3_runonce_`/`S3_runall_`/`S3_process_request_context`, `S3_set_request_context_verify_peer` | all of the above |
| Listing operations | `src/bucket.c`, `src/multipart.c` | arrays of items and common prefixes and their counts | XML, data and complete callbacks of the three list functions | SAX front end, string buffers |
| String buffers | `inc/string_buffer.h` | a char array and a length | append; the multibuffer's add and append | |
| SAX front end | `src/simplexml.c` | element path, status | `simplexml_add`, the SAX callbacks | libxml2 |
| Error parser | `src/error_parser.c` | code, message, details | `error_parser_add`, `error_parser_convert_status` | SAX front end |
| Response headers | `src/response_headers_handler.c` | properties, meta headers | `..._add`, `..._done` | multibuffer |
| Multipart operations | `src/multipart.c` | upload id, location, ETag | initiate, upload part, complete, abort | Request context |
| Object, bucket, service operations | `src/object.c`, `src/bucket.c`, `src/service.c` | the result being collected | one request each | Request context |
| Access control, logging | `src/bucket_metadata.c`, `src/service_access_logging.c` | grants being collected | one request each, with an XML document | Request context |
| Composition and signing | `src/request.c`, `src/util.c` | none | `setup_request`, `compose_uri`, `setup_curl` | OpenSSL |
| Command line tool | `src/s3.c` | upload manager, retry counters | `put`, `get`, `list`, ... | the library |

How they interact. An operation fills a `RequestParams` with its own callbacks
and calls `request_perform`. That gets a `Request` from the pool and either runs
it to its end (`curl_easy_perform`) or links it into the context's list and
hands it to the curl multi handle. curl calls back into `request.c` while the
transfer runs; `request.c` calls the operation's callbacks, and these the
user's. `request_finish` makes the last of them and gives the `Request` back to
the pool, which may hand it out again at once - also to a request that the user
issues inside that last callback.

What is hard:

* *threads*: every thread of the program uses the pool; `S3_initialize` and
  `S3_deinitialize` share a counter without a lock;
* *reentrancy*: user code runs in the middle of `process_request_context` and
  `S3_destroy_request_context` and may add to the list they walk;
* *reuse*: a `Request` that was finished comes back with whatever the last use
  left in it, its list links and curl options included;
* *order*: which of several things that happen to a request decides the status
  that is reported - curl's result, an S3 error document, the HTTP code, a user
  callback, the destruction of the context;
* *failure in the middle*: a batch that is refused, an error of curl's own
  functions, an initialization that fails after the counter was incremented;
* *limits*: a full stack, full arrays, texts as long as their buffers that come
  in pieces.

What makes each part correct is stated by the properties in section 3, the
hazards behind them, line by line, are in `PROJECT.json`.

## 2. The modules

| module | models | composed from |
|---|---|---|
| `RequestPool` | the pool; an action is one step of one thread between two points where another can be seen; `ImplementsIdlePool` | `IdlePool` |
| `IdlePool` | abstract: a bounded LIFO of idle Requests | |
| `RequestPoolProofs` | theorems about `RequestPool` | `RequestPool` |
| `RequestStatus` | how curl's result, the error document's code and the HTTP code become an `S3Status`; pure | |
| `RequestLifecycle` | one request; an action is one curl callback, the end of the transfer, or `request_finish` | `RequestStatus` |
| `RequestLifecycleProofs` | theorems about `RequestLifecycle` | `RequestLifecycle` |
| `RequestContext` | a context with several requests, and the application that uses it; an action is a call, a round of a loop, or a user callback's step; `ImplementsRequestLedger` | `RequestStatus`, `RequestLedger` |
| `RequestLedger` | abstract: each call is completed at most once, and exactly once unless it was forgotten, with the occasions for that | |
| `MCRequestContext` | instance for TLC: symmetry of calls and Requests | `RequestContext` |
| `RequestContextProofs` | theorems about `RequestContext` | `RequestContext` |
| `StringBuffer` | `string_buffer` and `string_multibuffer`: arrays of characters with their nulls; pure | |
| `Listing` | the batching of `S3_list_bucket`, `S3_list_multipart_uploads`, `S3_list_parts` | `StringBuffer` |
| `ListingProofs` | theorems about `Listing` | `Listing` |
| `ReadCommands` | `s3 list`, `listmultiparts`, `listparts` and `get`: pages, batches and repeated requests | `RequestStatus` |
| `ReadCommandsProofs` | theorems about `ReadCommands` | `ReadCommands` |
| `Composition` | `setup_request`, `compose_uri` and `setup_curl`: the headers, what is signed and what is sent; pure | |
| `ResponseHeaders` | `response_headers_handler_add` and `_done`; pure | `StringBuffer` |
| `Headers` | metadata and properties from the program to S3 and back; an action is a request or a header | `Composition`, `ResponseHeaders` |
| `MCHeaders` | instance for TLC: the requests and answers | `Headers` |
| `AccessControl` | the ACL and logging documents: what is written, and the callbacks that read them | `StringBuffer` |
| `ErrorParser` | `errorXmlCallback` and the buffers it fills | `StringBuffer` |
| `Documents` | a document that is set, kept, sent and parsed; an action is one SAX callback | `AccessControl`, `ErrorParser` |
| `DocumentReader` | abstract: an ACL or a logging document read unit by unit, with texts that come one character at a time | `Documents` |
| `MCDocuments` | instance for TLC: grants, owners and element names | `DocumentReader` |
| `DocumentsAndHeadersProofs` | theorems about `Documents` and about the properties of `Headers` | `DocumentReader`, `Headers` |
| `Operations` | what the `S3_...` functions put between the user's callbacks and `request.c`: refusals, callback data, documents, answers | |
| `OperationsProofs` | theorems about `Operations` | `Operations` |
| `Library` | the initialization count | |
| `MultipartUpload` | `s3 put` and large copies: one request or initiate, parts and commit, with retries, kills and continued uploads; `ImplementsAtomicPut` | `AtomicPut` |
| `MultipartUploadProofs` | theorems about `MultipartUpload` | `MultipartUpload` |
| `AtomicPut` | abstract: the object is the whole source or absent | |

Variables and actions have the names of the fields and functions they stand
for; `PROJECT.json` ("map") gives the lines of each.

Operators commented `Mutant of X` are plausible mistakes in the code, each the
form of `X` it would have. They are used by no specification: put in the place of
`X` they make the property named for them in `PROJECT.json` fail, which shows
that the property depends on the code doing what `X` says.

### RequestPool

`pc[t]` is the next line of thread `t` in `request_get` or `request_release`;
`request[t]` its local variable; `inUse[t]` the Requests it holds between the
two. `live` is what `malloc` returned and `free` did not take, `slist` says whose
`headers` field owns a curl list and `leaked` whose list was lost. The store and the
increment of `requestStackG[requestStackCountG++] = request` are two steps. For
`IdlePool` the stack is the array up to the count, and what is allocated and not
there is busy: a Request is given back when the count is incremented.
`request_api_deinitialize` leaves the count at -1, as `while (count--)` does.

### RequestLifecycle

The environment is curl and the server: `ReceiveInterim`, `ReceiveFinal` (curl
may report a 100 for a final response, as the comment in `request_finish` says),
the sizes curl asks for, the body pieces, and the transfer's result. `calls`
is the history of user callbacks with their results. A user callback that returns more
bytes than it was asked for is outside the contract of `S3PutObjectDataCallback`
and not modelled.

### RequestContext

One point of control, `pc`, because a context may be used by one thread at a
time (Threading Rule 2). `pc = "callback"` is user code inside a complete
callback; there and in `"user"` the application may issue requests. The pool is any
Request not in use. `adverse`, chosen at the start from `Adverse`, says what goes against the
program: `"curl"`, curl's own functions may fail; `"verifyPeer"`, the flags differ;
`"destroy"`, complete callbacks issue calls also while the context is destroyed. When curl may fail
there are at most `MaxAdverseCalls` calls. `messages` are the transfers that ended and that
`curl_multi_info_read` has not returned; which one it returns next is curl's affair, and they
are a set. `Listed` are the Requests that every set has which holds the head of the
list and the `next` of its members. `S3_destroy_request_context` called from inside a callback,
and requests issued from inside a callback that curl makes (curl forbids
recursive calls of its multi interface), are not modelled.

A context does not complete every call: of two, one may be taken off the list with the other
(`request_context.c:155`), an error of curl's takes a Request off it, and what a complete callback issues
while the context is destroyed may come too late. The history `forgotten` has the calls this
happened to, and `RequestLedger` says when it may: with an error of curl's, to a call that is not
the only one, or to one that is made while the context closes. All others are completed before the
context is gone.

### StringBuffer

Two shapes. A string buffer is its text and its size: `string_buffer_append` copies
what fits. A multibuffer is a char array with its nulls, because its users keep
pointers into it: `string_multibuffer_add` and `_append` write at the end and tell
afterwards, from the size, whether it was enough; what does not fit is gone, and
what was written before stays.

### Listing

One text field stands for the six to eight of an item. Characters are
`<<element, position>>`, so that a reported text says where its characters come
from, and the properties need not describe the buffers. `listing`, chosen at the start, selects
the differences of the three operations: list parts has no prefixes and counts
`handlePartsStart`; list multipart uploads writes each piece of a prefix at the
start of the array (`multipart.c:724-728`). Four histories say what a user has seen:
`closed` are the elements of each kind that the parser has left, `reported` the texts passed
on, `refused` that a batch was not accepted, and `firsts` the number each batch of
parts was said to begin with, next to the number of parts reported before it.
`EntriesInOrder` holds until a batch is refused, not as long as the status is OK: a
callback may refuse with any status, `S3StatusXmlParseFailure` too, which is what a document
that was broken off leaves.

### ReadCommands

An entry of a listing or a piece of an object is its number. A page has its items in
order and behind them its common prefixes in order (`InOrder`), and comes entry by
entry; batches are passed on at `MAX_ITEMS` and `MAX_COMMON_PREFIXES` and by the
complete callback, as `Listing` says. What `listBucketCallback`,
`listMultipartCallback` and `listPartsCallback` keep of a batch are the next marker,
the truncation flag and the count; where the items of a batch are in it is
`ItemPlaces`. `Complete` ends the request with any of curl's
results at any point, and repeats it when `should_retry` says so: the next request
has the marker that the printing has moved. `get` writes at `position` of the file,
which may be longer than the object, and the disk may fill up.

### Documents, AccessControl, ErrorParser

A document is a sequence of tags and letters; `Set` composes it piece by piece with
`append` in a buffer of `DocumentSize`. libxml2 calls `saxStartElement`, `saxCharacters` and `saxEndElement` for
the tags and texts of a document somebody has stored, with texts in any pieces, and stops
anywhere; `elementPath` is the path `simplexml.c` keeps and `data` what
the callbacks of `S3_convert_acl` and `S3_get_server_access_logging` have in their structures. Error
documents are built up from `ErrorNames` element by element, so that all shapes up to
`MaxElements` come.

### Headers, Composition, ResponseHeaders

Names are model strings, values are sequences of characters of which `Blank` is the
one the code looks for. `compose_amz_headers` returns the array `amzHeaders` as a
function from places to headers: a header that did not fit leaves its place to
be written by the next one, and is counted (`request.c:305-310`). A signature is the
text that is signed: `Composed` gives what curl sends with it, and `Accepted` compares it
with what S3 expects of the headers and the query that arrive (`Expected`). `ResponseHeaders` keeps its strings in one multibuffer for the
properties and one for the metadata; a redirect's headers go into the same. A response is a set of
headers, which come in any order.

### Library

`++` and `--` on the plain `int` are a load and a store. Threading Rule 3 asks the
program to call `S3_initialize` from one thread at a time, and nothing of
`S3_deinitialize`; that is `MayInitialize`.

### Operations

The 22 operations differ in few things, and a record of these things is what each
is: whether it allocates callback data, where the document it sends is kept, what
becomes of the response's body and of the properties callback's answer, what its
complete callback does, and which statuses it reports without making a request.
The actions run one operation, chosen at the start, from the call to the complete callback.
`frame` says that the `S3_...` function has not returned: with a request context it
returns before the request runs, and a byte read from its local variables or
from the caller's arguments is then any byte (`ByteRead`). `Properties`,
`Receive` and `Finish` come in every order `RequestLifecycle` allows.

### MultipartUpload

A blocking request is one step, its inside is `RequestLifecycle`'s. S3 is the
environment: `uploads`, `open`, `parts` and `object`. It may carry out a request
whose failure is reported to the program; it takes a body only with the promised
length, and a commit only with the ETags of the parts it has. `Conclude` is the
loop around every request, and `should_retry`. What a retry finds is what the
failed try left: `position` of the file, `partLeft`, the `remaining` of the
commit's document. `Killed` ends the program at any point, `StartContinue` is
`s3 put ... upload-id=`. The bytes are numbered, so that a part says which piece
of the file it is. `Page` is what S3 answers to a list parts request, the first
`PageSize` parts `After` the marker, and `RemainingAfter` takes their sizes off the `int`
one by one, as `listPartsCallback` does. `relisted` remembers that one run was given parts by
two of these requests; what goes wrong then is told below. Widths are scaled: `MULTIPART_CHUNK_SIZE` is to 2^31 as 3
is to 8.

## 3. What is checked

A run asks one question of one component. Passing runs:

| run | bounds | shows |
|---|---|---|
| `RequestPool` | 2 threads, 3 Requests, 2 slots | no Request has two owners, is used after `free`, or is lost; the header list is lost only when `request_get` fails after building it; the pool refines `IdlePool`; every critical section ends; the inductive invariant of the proofs |
| `RequestLifecycle` | 2 bytes up, 2 pieces down, 5 response codes, all 8 sets of callbacks | order of the user callbacks; no data callback after an abort, whose status is reported; a status of OK means success; a failure is reported; every request completes, with the exceptions below; the inductive invariant of the proofs |
| `RequestContext` | 3 calls, 3 Requests, all pending at once and destroyed so; 2 calls when curl's functions may fail, with all `verifyPeer` flags | the list is a ring of Requests in use, curl runs only those, destroying the context meets only Requests whose calls are not completed, each call completes at most once, `S3_runall_request_context` leaves none pending; a context told to verify the peer does, on used handles too; the context refines `RequestLedger` |
| `RequestContext_sequential` | 3 calls, one pending, 2 Requests | `S3_runall_request_context` terminates, though callbacks follow each call with the next |
| `Listing` | 3 operations, 5 elements of up to 4 characters, arrays of 2 | items and prefixes are reported once, in order, uncorrupted, and never stored behind the arrays; parts with the number of the first |
| `ReadCommands` | up to 4 entries, pages of 3, batches of 2, maxima 0, 2 and 4, 2 retries; a file of 0 or 5 pieces, a disk of 7 | pages fit together, an OK listing is whole, an OK `get` has saved the object, the commands end; with the exceptions below |
| `Documents` | up to 2 grants and one more, buffers of 4, documents of 44 units, texts in pieces of 1 and 3; error documents of up to 6 elements and 4 pieces | what was set is what is read back, or an error says that it cannot be; the pieces of a text make no difference; a document is sent whole; an error's details are its own; with the exceptions below |
| `Headers` | up to 3 metadata headers, values up to the length of the buffers and longer, queries at and over their limits, one redirect | S3 takes the signature; metadata and properties are those of the object and of the response; with the exceptions below |
| `Operations` | 22 operations, documents of up to 3 bytes, 4 user callbacks | a document is sent byte for byte also after the call returned; a user's refusal ends the request and is reported; one complete callback, the callback data freed; with the exceptions below |
| `MultipartUpload` | sources of 3, 5, 7 and 17 bytes, chunks of 3, an `int` of 16 values, pages of 2 parts, 1 retry, 3 starts of the program | `s3 put` refines `AtomicPut` until `relisted`; parts are the pieces their numbers say and the commit names the ETags S3 has, with the exceptions below and those of a copy whose last part has one byte; the program ends |

Why the bounds are enough. The pool's stack gets empty, partly filled and
full, and there is a Request more than it holds; with two threads every pair of
steps meets, and the proofs cover all other sizes. Three calls are needed for a list
that is longer than the two elements `process_request_context` mistakes for one;
three Requests keep all of them in progress at once, two force reuse. In the
listings the arrays hold two elements, so that either is filled and started again
in every order; texts reach the length of their buffer, exceed it, and come in
one or more pieces. `UploadSize` 2 with requests for 1 or 2 bytes has a last piece
shorter than curl's buffer; here too the proofs cover the other sizes. Four
entries in pages of three and batches of two give a page of two batches and
a second page, and a failure in, between and behind the batches. `Documents` has
a document that ends before, at and behind each limit of its buffer, and a third
grant where two have room; six elements and four pieces give more details than the three that
have places, with names that repeat next to each other and apart. `Headers` has
metadata that fits `amzHeadersRaw`, that does not, and that does not although the next
header does. The sources of `MultipartUpload` are sent in one request, in two and three
parts with a shorter last one, and one is longer than an `int` can say; three
starts are an upload, its continuation and the continuation of that. `Operations`
sends a document of three bytes in one to three pieces, and four user callbacks before
the complete callback have a refusal in every place. History variables are
bounded by what they record; `reported` keeps the first two statuses of a call;
`MaxChunks`, `MaxText`, `MaxElements`, `MaxPieces`, `MaxEntries`, `MaxRedirects`, `MaxPending`,
`MaxAdverseCalls`, `DocLen`, `MaxCalls`, `MaxUploads` and `MaxRuns` are the only other
bounds.

Fairness. `RequestPool`: a thread that holds the mutex does no I/O and runs no
callback, so the scheduler lets it go on (weak fairness of its critical steps, nothing
about the others). `RequestLifecycle`: `setup_curl` sets
`CURLOPT_LOW_SPEED_TIME`, so curl ends a transfer that stays slow (weak fairness
of `CurlEnds`), and `request_finish` is called by the code that saw the end.
`RequestContext`: library code and user callbacks run to their next return (weak
fairness), and curl, called in a loop, ends each transfer sometime: strong
fairness, since a transfer can end only while curl is being called.
`MultipartUpload` and `ReadCommands`: a blocking request ends (`RequestLifecycle`) and
the program runs on (weak fairness of its steps).
`RunallTerminates` relies on the application issuing finitely many requests.

Runs in which the code does not do what a header or a comment says. Each
checks one property and TLC finds a counterexample:

| run | what happens | where |
|---|---|---|
| `RequestContext_destroy` | after one of two requests completed, the context's list is empty and destroying it completes nothing | `request_context.c:155` |
| `Library_concurrent` | concurrent `S3_deinitialize` loses an update of the count | `general.c:54` |

Because of `RequestContext_destroy`, `CompletedAtMostOnce` says at most once, and `RequestLedger`
lets a context forget calls. `RunallTerminates` is checked without a request that
`process_request_context` has lost in a list of two and with curl's functions succeeding; the
termination of `S3_destroy_request_context` needs no fairness of curl's: `DestroyMeetsLive` says that
each round of its loop completes a call that was not completed, and there are finitely many.

### Where the properties stop, and why

The passing properties say what holds of the code as it is. Where they are weaker
than one would like, the code is the reason. They do not say that what the code does
there is right: a property leaves such a case open, so that it would hold of a
code that does otherwise, too. What a header or a comment says of the case is a
definition at the end of the module (the last table of this section), and `PROJECT.json`
("findings") quotes it.


* *Request life cycle.* When no headers were processed before, `request_finish` makes the
  properties callback for a 2xx response whose transfer failed or was interrupted, and
  takes its result as the status (`request.c:187`): of a failure (`FailureReported`), and of an
  upload callback's refusal (`AbortIsFinal`, `OkIsSuccess`). An upload callback's refusal is
  also lost to `InternalError` when S3 answers a code that is none. `OkIsSuccess` lets the code 100
  pass, which `request_finish` forgives; and `FailureReported`, `OkIsSuccess`, `ListedOnce` and
  `SavedWhole` leave out `CURLE_PARTIAL_FILE`, which `request.c:1728` maps to OK.
* *Context.* `VerificationNotWeakened` leaves open what a context told not to verify does when
  `S3_initialize` was told to: `request.c:1587` takes `verifyPeerSet` for the value. When a
  function of curl's fails, the Request is neither completed nor released;
  `RequestLedger` counts its call among the forgotten ones.
* *Listings.* `EntriesInOrder` expects texts to be cut one character before their
  buffers are full (`string_buffer.h:57`, `bucket.c:570`) and says nothing of the
  prefix of a multipart listing, of which only the last piece is left
  (`multipart.c:724-728`).
* *Paging commands.* A request that is repeated after a part of its answer was printed
  goes on behind the page, or starts again, for all listings but `list`
  without a delimiter (`s3.c:1307`); `ListedOnce` leaves those out. The
  number of keys asked for may be exceeded. A repeated `get` writes behind what the failed
  one has written (`s3.c:3013`), and the old rest of a longer file stays;
  `SavedWhole` says where in the file the object then is. `should_retry` takes `retriesG`
  below zero.
* *Documents.* A document that ends at the last place of its buffer loses its
  last character (`bucket_metadata.c:187`) and is refused by S3: `SetSendsWhole` leaves
  open what becomes of it. The logging callback looks for the ID of
  a canonical user under the path of an ACL, so that a logging document with such
  a grant cannot be read (`CanBeRead`). Nothing tells the parser that a document has
  ended (`simplexml.c:207`): one that was broken off is reported with the grants that came.
  The detail after `EXTRA_DETAILS_SIZE` others is stored behind its array, because
  `extraDetailsCount` is compared with a size in bytes (`error_parser.c:90`).
* *Headers.* `kv_gnome_sort` reverses headers of one name, because `headerle` is not
  true of equal names (`request.c:648-685`); the loop that strips trailing blanks of
  `Content-Type` and `Content-MD5` strips none; metadata without a value, or with a value
  that begins with a blank, is signed in another form than it is sent; a parameter too long
  for `canonicalQueryString` is cut: `SignatureTaken` says of such requests neither that S3 takes
  them nor that it does not (`MetaDataPlain`, `StandardPlain`, `QueryFits`). `compose_amz_headers` takes
  no notice of a header that did not fit, whose place is sent with the next
  one's text (`request.c:305`), and places as many headers as there are, beyond `amzHeaders` and
  `sortedHeaders` too: `AllPlaced` leaves those requests out. `metaDataCount` is compared with
  a size in bytes (`response_headers_handler.c:164`), hence `S3_MAX_METADATA_COUNT` in
  `MetaDataReadBack`; and only when exactly one place of the property strings is left
  all headers that follow are ignored (`OneShort`), when none is left a property may be set to the place behind
  the array.
* *Operations.* `SentAsGiven` leaves out `S3_set_acl` with a context, whose document is in a
  local variable of a function that has returned (`bucket_metadata.c:323`), and
  `S3_set_lifecycle`, which keeps the caller's string until the request runs (`547`);
  `AbortReported` the properties callback of `S3_complete_multipart_upload`, whose
  result is dropped (`multipart.c:299`), an upload callback's refusal that a properties callback comes
  after (above), and the batch a complete callback delivers, whose refusal is not heard and
  which may be one that was refused before (`bucket.c:652`); `CompletedOnce` lets the
  response callback of initiate and complete come after the complete callback
  (`multipart.c:67`), and abort make no complete callback (`multipart.c:192`).
* *Uploads.* `PartsAreChunks` and `EtagsOfParts` leave out continued uploads whose parts came in
  more than one answer: `listPartsCallback` stores the ETags of every answer from
  the start of the array and counts parts twice that a repeated request delivers
  (`s3.c:1625-1627`); `PartsAreChunks` leaves out sources of 2 GB and more, whose rest
  `UploadManager.remaining` cannot hold (`s3.c:2478`). A copied part is one byte longer than
  its range, and a count of 0 copies the whole source (`request.c:402-405`, `s3.c:2531`): the last
  part of a copy is left out of `PartsAreChunks`, and its copy of `ImplementsAtomicPut`, when it has
  one byte (`LastByteAlone`).
  `ImplementsAtomicPut` holds until `relisted`. At the bounds of the run S3 refuses the
  commits that follow, so that it would hold there without that condition; TLC finds why it does
  not in general with five starts (`SuccessIsWhole` below): a list parts request that fails after it has delivered a part is
  repeated, the part is counted twice, a part of the source is skipped, and later runs fill
  the places that are left and commit other bytes than the source's, with success reported.
* *Library.* `UpWhileHeld` ends with a failed `S3_initialize`, which leaves the count
  incremented (`general.c:44`).

What `libs3.h`, a comment or a help text says of these cases is defined at the end of each
module. TLC finds each of the following violated when it takes the place of the
properties in the run's configuration, some with other constants:

| definition | run | constants |
|---|---|---|
| `ContextFlagUsed` | `RequestContext` | `Adverse = {{"verifyPeer"}}`, 2 calls and 2 Requests |
| `UploadRefusalReported` | `RequestLifecycle` | those of the run |
| `SentWhenever`, `CompleteComesLast`, `EveryRefusalReported` | `Operations` | those of the run |
| `CopiedPartsAreChunks` | `MultipartUpload` | `ContentLengths = {7}` |
| `SuccessIsWhole` | `MultipartUpload` | a copy: `ContentLengths = {7}`; a continued upload: `ContentLengths = {11}`, `IntMax = 16`, `PageSize = 4`, `MaxUploads = 1`, `MaxRuns = 5` |
| `SortIsStable`, `BlanksRemoved`, `AmzHeadersRepresented`, `PropertiesInArray` | `Headers` | those of the run |

## 4. What is proved

Eight modules hold proofs. Each theorem is for every value of the constants that the
assumption in its component's module allows; one has a further hypothesis,
which is named. All are of the form `Spec => P`, where `P` is a property that a
run checks too (`TypeCorrect`, most `Invariance` and the two theorems that end in `InPlace`
excepted), so that TLC has seen each
hold and, by the mutants, fail for a plausible mistake in the code. The last step of each is
the temporal one, by `PTL`, from three facts: the initial states satisfy the inductive
invariant `IInv`, every step keeps it, and it implies the property.

### RequestPool

For any sets of threads and Requests and any stack size of at least one
(`PoolAssumption`, which also says that the two null values are no Request and no
thread):

| theorem | says |
|---|---|
| `Invariance` | `Spec => []IInv` |
| `TypeCorrect` | `Spec => []TypeOK`: the count stays within the array |
| `OwnershipIsExclusive` | `Spec => []ExclusiveOwnership` |
| `AllocatedAreOwned` | `Spec => []LiveAreOwned`: no Request dangles (`NoDanglingRequest`) or is lost (`NoLostRequest`) |
| `HeadersKept` | `Spec => HeadersLostOnlyInFailedSetup` |
| `PoolIsLifo` | `Spec => ImplementsIdlePool`: the refinement of `IdlePool` |

The argument. That no Request has two owners depends on what the mutex does:
between the test of the count and the access of the array nobody else changes
either. So the invariant needs `MutualExclusion` (the mutex is held exactly by the
thread in a critical section) and `TestsHold` (what was tested is still
true, and between the store and the increment the slot above the count holds
the thread's Request). That a step that drops `request[t]` loses nothing needs
`LocalRequest` (at which points `request` points somewhere). That the stack can be
reset by `request_api_initialize` needs `DownIsQuiet`, and that
`request->headers = 0` loses no list needs `HeadersOwned`. `IInv` is the conjunction
of these with the properties; there is a lemma for each of the twenty actions that
it preserves `IInv`, with a step per conjunct the action can disturb.

Four steps of the refinement are not stutters: the decrement (`PopIsReuse`), the increment
(`PushIsReturn`), `malloc` and `free` (`FreeIsDiscard`); and `request_api_deinitialize` is
`Drain`, since `DownIsQuiet` and `NoLostRequest` leave no Request with a thread. That the
increment adds the right Request is the last conjunct of `TestsHold`: the store comes before it,
to a slot the abstract stack does not have yet (`PoolStutter`).

### RequestLifecycle

The theorems of `RequestLifecycleProofs` hold for any size of the upload, any number of
pieces of any length, any final HTTP codes from 101 to 599 and any statuses
a callback may return (`LifecycleAssumption`):

| theorem | says |
|---|---|
| `Invariance` | `Spec => []IInv` |
| `TypeCorrect` | `Spec => []TypeOK`: no more bytes are sent than were announced |
| `CallbacksMadeInOrder` | `Spec => []CallbacksInOrder` |
| `AbortsAreFinal` | `Spec => []AbortIsFinal` |
| `OkMeansSuccess` | `Spec => []OkIsSuccess` |
| `FailuresReported` | `Spec => FailureReported` |

Each with the exceptions its property names, which are the first of the list above.

The argument. The properties speak of the history of callbacks, the code only looks at
its own fields, so the invariant says what the fields remember of the history: that
no callback which needs the headers was made before `propertiesCallbackMade` was set
(`HeadersFirst`), that it was set for a successful response only together with the
properties callback (`PropertiesMade`), that a refusal has stopped the
transfer (`AbortStops`) and is still in `status` until `request_finish` (`AbortKept`), and so is a failure of the
transfer (`FailureKept`). A step makes no callback, a `toS3` call, a properties call or
a `fromS3` call or both, or the complete call behind a properties call; each has a lemma, from what it
appends to the history (`AddCall`, `AddCalls`), and the actions are reduced to these. That
`request_finish` replaces no status but OK (`FinalStatusKeeps`), and OK only without an error
code and with a successful response (`FinalStatusOk`), closes the last step.

### RequestContext

For any sets of calls and Requests, any set of curl's results and any bounds on pending
calls (`ContextAssumption`):

| theorem | says |
|---|---|
| `Invariance` | `Spec => []IInv` |
| `CompletedOnce` | `Spec => []CompletedAtMostOnce` |
| `ListStaysRing` | `Spec => []ListIsRing` |
| `CurlOnlyHasUsed` | `Spec => []AttachedInUse` |
| `RunallLeavesNone` | `Spec => RunallDrains` |
| `PeerIsVerified` | `Spec => VerificationNotWeakened` |
| `DestroyedAreLive` | `Spec => []DestroyMeetsLive` |
| `LedgerKept` | `Spec => ImplementsRequestLedger` |

The argument. The hard part is the list. `Unlink` empties the list when a Request's two
neighbours are one, which is so of the last Request and also of one of two
(`request_context.c:155`): the other one goes on in curl, in a ring of its own that the context has
forgotten, and its later `Unlink` must do no harm. So the invariant does not speak of the list but
of a set `S` of Requests whose links make rings, of which the list is one (`Rings`), with
every other Request that curl has such that `Unlink` takes it for the last; and
`LinkIntoRing` and `UnlinkFromRing` show that these shapes are kept. While the context is
destroyed nothing is a ring any more, since the loop frees what it walks: then `Ahead` says that the
loop has Requests before it that end at the first one, which it compares with. `CallsServed` gives every
Request in use a call that is not completed, except the one whose complete callback
runs - and the one a double `free` has crashed the program with. `PendingInCurl` and
`RunningCounted`, which hold as long as curl's functions do not fail, tie `requestsRemaining` to the
calls that are left, for `RunallDrains`.

`LedgerKept` needs two more invariants. `Kept` says that the list has the Request of each call that is not
completed and not forgotten, and that a call a freed context leaves is forgotten. While the context is
destroyed the list is no longer kept, so `Way` says that the loop meets everything `Ahead` has before it
(`Reaches`: what the first Request and the `next` of its members are in is all), and `Served` that
the calls that are left are among that; when nothing is left, none is. That removing a Request from a
list of more than two leaves the others on it is where finiteness is needed: a part of a finite ring that
is closed under `next` is closed under `prev`, too.

### Operations

For documents of any length and any number of callbacks (`OperationsAssumption`):

| theorem | says |
|---|---|
| `Invariance` | `Spec => []IInv` |
| `DocumentSentAsGiven` | `Spec => []SentAsGiven` |
| `AbortIsReported` | `Spec => []AbortReported` |
| `CallCompletedOnce` | `Spec => []CompletedOnce` |

`IInv` adds what the program remembers of a history of callbacks: that the bytes
received are as many as were copied and that the frame is gone exactly with a context (`Sent`), that
the headers are processed when the properties callback was made (`PropertiesOnce`), and that a
refusal is in `status` until the end (`RefusalKept`), behind an item as the parse error the SAX front end
makes of it (`ReportedAs`, `ListerStatus`). Which callbacks' refusals count is `Refused`. `RowFacts` says once which of the
combinations of the table's columns occur, and `CompletionShape` which calls a
complete callback adds, so that no proof runs through the 22 operations.

### MultipartUpload

For any chunk size of at least two bytes, page size, number of retries, uploads and starts,
and any widths of `int` and `long` with the one less than half the other
(`UploadAssumption`):

| theorem | says |
|---|---|
| `Invariance` | `Spec => []IInv` |
| `PartsInTheirPlace` | `Spec => []PartsAreChunks` |
| `EtagsAreThoseOfParts` | `Spec => []EtagsOfParts` |
| `PutIsAtomic` | `Spec => ImplementsAtomicPut`, if no length is above an `int` |

`PartsAreChunks`, `EtagsOfParts` and `ImplementsAtomicPut` stop at `relisted`, and the first and the last
leave out what a last part of one byte does to a copy.

What must be kept between steps, retries and starts of the program: S3 has the
first parts of an upload and no others (`NoGaps`); the program has the ETags of the first
`seq - 1` of them, or of as many as were listed (`Progress`, `Kept`); and the file's position,
the rest of the part and of the source are those of part `seq` (`InPlace`, only for
lengths an `int` can hold, since `remaining` is one). `NoGaps` is what makes a page of the
parts `After` the marker an interval that begins at the marker (`PageOfPrefix`), so that taking its
sizes off `remaining` leaves the place of the next part (`RemainingListed`). All this is up
to `relisted`, after which it is not so. The reported success is
`Reported`: only an object that is the parts S3 was given, one behind the other, is a success. What S3 is
given as a part is `Part`, which is the piece of the source but for a copy's last part of one byte; without that
the object is the source (`ContentIsWhole`).

### ReadCommands

For listings and objects of any size, pages, batches, maxima, retries and disks of any
size (`ReadCommandsAssumption`):

| theorem | says |
|---|---|
| `Invariance` | `Spec => []IInv` |
| `EntriesListedOnce` | `Spec => []ListedOnce` |
| `FileIsWhole` | `Spec => []SavedWhole` |

For the listings the invariant is that what is printed, collected and still to come of the
answer is together the entries `1 .. n`, each once (`Whole(Answered)`), and that the marker is
where the next page begins - with the answer's truncation flag only when a callback was
made since the request (`CalledBack`), because the flag and the marker are the previous page's until
then, which is what a repeated request would ask with. For `get`, that the pieces since the request was
sent are in the file where the request began (`InFile`), wherever that was.

### Listing

For documents with any number of elements, texts of any length in pieces of any lengths, and
arrays and buffers of any size (`ListingAssumption`):

| theorem | says |
|---|---|
| `Invariance` | `Spec => []IInv` |
| `PlacesLeft` | `Spec => []PlaceForNext` |
| `EntriesReportedInOrder` | `Spec => []EntriesInOrder` |
| `StartsAreCounted` | `Spec => []StartCountsReported` |

`ItemInPlace` and `PrefixInPlace` say what the place behind the last entry of each array
has: the text received so far, cut to the buffer, or nothing. A piece that is appended to it
keeps that (`ItemPiece`, `PrefixPiece`); closing the element moves the text to what waits (`Waiting`),
and a batch moves what waits to what is reported, at each of which the reported and waiting
texts are those of the closed elements.

### Documents and Headers

For error documents with any number of elements, texts in pieces of any lengths, and a path, array
and buffer of any size (`DocumentsAssumption`, `ErrorParserAssumption`); for any grants and heads (those of
`S3AclGrant`'s shape, `GrantsAssumption`) and buffers and documents of any size from 2 up
(`AccessControlAssumption`); and for any headers, redirects and trailers in any order and strings of at least two characters (`ResponseHeadersAssumption`,
`HeadersAssumption`):

| theorem | says |
|---|---|
| `DetailsInPlace` | `Spec => []ErrorInv` |
| `DetailsKeptApart` | `Spec => []DetailsNotMixed` |
| `DocumentsSentWhole` | `Spec => SetSendsWhole` |
| `GrantsAreReadBack` | `Spec => []GrantsReadBack` |
| `PiecesAreJoined` | `Spec => []PiecesMakeNoDifference` |
| `PropertiesInPlace` | `HeadersSpec => []HeadersInv` |
| `PropertiesKept` | `HeadersSpec => []PropertiesAsAnswered` |

The two specifications share no state, but both keep texts in a `string_multibuffer` and pointers to
them, and what is proved of that is proved once: `DocumentsAndHeadersProofs` extends both modules, which is
why the specification of `Headers` is `HeadersSpec` and not `Spec`. `Holds` says that a
string and its null are at a place below a limit, `StringIsRead` that it is then what is read there, and
`StaysThere` that it stays while the places below the limit are `Unchanged`, as `string_multibuffer_add`
and `_append` leave them (`StringIsAdded`, `StringIsContinued`).

For the details the last string is special: a piece that is appended to it overwrites its null, so
everything else must lie before it (`Placed`). There are two regimes (`InPlace`): while all details fit, the
buffer's size is the room they take, and the last value ends there; from the piece that does not fit
on, the size stands at the buffer's end, the detail it belongs to is given up, and nothing that comes
later is kept, however short. `WithPiece` is what a piece makes of the document's
details, and `PieceIsKept` that the parser follows it.

`DocumentsSentWhole` needs no invariant but `Given` (what is set does not change): a document is its pieces put together, and
`append` has written them all (`Written`) while they fit and is in error for good when one does not
(`TooLargeDocuments`). `AllWritten` is the induction over the pieces, `CutJoined` the arithmetic of its cut.

`GrantsAreReadBack` goes by way of `DocumentReader`, in two halves that meet in `FollowsReader`.

* *The reader and the document.* `Leads(s, r, units, q)` says that the reader `r` becomes `q` by these units, and
  composes (`LeadsJoined`), so that a document can be read block by block: a text (`TextLeads`), an element
  (`ElementRead`), a grant (`GrantBlock`), all grants (`AllAreRead`, by induction over their number), the
  whole ACL or logging configuration (`AclRead`, `SalRead`). Each block says what it leads to if it can be read,
  and that otherwise the reader fails there, with a beginning of the grants (`ReadsTo`). That texts end up in their own
  fields rests on `PlacesDiffer`: no two of the paths `convertXml` compares with are equal.
* *The parser and the reader.* `IsAt(r, path, d)` says that the parser's path and data are what the reader's texts
  leave in the buffers, cut where `snprintf` cuts them. `StartFollows`, `EndFollows` and `TextFollows` say of
  `saxStartElement`, `saxEndElement` and `saxCharacters` that they keep it, the last for a piece of any length against
  as many steps of the reader.

`ReaderInv` is the inductive invariant: nothing is read before the document is got, a document by libs3 has passed
`S3_set_acl`'s checks, what has come is a beginning of the whole, and `FollowsReader`: in every reading of the whole
document the reader behind `position` units is where the parser is, and has failed if the parser has. `GrantsReadBack` itself is not inductive:
it speaks of the end, and what is in the buffers between two tags is what the next end tag turns into a
grant. As `ReaderInv` quantifies over all functions that are readings, TLC cannot run it;
`PiecesMakeNoDifference`, which does the reading by a recursive function (`ReaderAfter`), is the part of it that TLC checks.

For the properties `StringsTaken` ties the size to the headers that came, except when exactly one place is
left (`LeftOne`): then everything that follows is ignored (`response_headers_handler.c:73-76`), and so the
value is not always the last header's. `HasPlace` is what a property's pointer shows, in each of these cases.

### How numbers are inducted over, and what stays with TLC

The provers cannot instantiate the library's induction theorems, which take an operator.
Where a proof needs induction over numbers it goes by way of the set of the numbers a
formula holds of: `LeastNumber` (from the well-foundedness of `<` and `WFMin`, whose
parameters are sets) gives every non-empty set of numbers a least one, `AllNumbers` follows, and `MaxFacts`
and `TotalFacts` (sums of numbers, by the series of `Sums`) go the same way. What a recursive function computes for every input is reached in this way where
its steps are enough (`RemainingSteps`). The folds and filters of the community modules
(`FoldLeft`, `SelectSeq`) are opaque to the provers; where a proved module would have used
one it has a function or a set instead (`RemainingAfter`, `InOrder`, `ItemPlaces`).

Only model-checked:

* liveness under fairness, which is out of the prover's reach, as `ENABLED` is:
  `MutexReleased`, `EveryRequestCompletes`, `RunallTerminates`, `ProgramEnds`, `CommandEnds`;
* `SignatureTaken` and `MetaDataReadBack`, whose headers are sorted and composed with the folds and
  filters the provers do not know;
* `ImplementsAtomicPut` for lengths above an `int`.

TLC checks `IInv` in the runs `RequestPool` and `RequestLifecycle`. The other `IInv` are
stated in the modules of proofs, next to the argument they are for.

## 5. Not modelled

* In `request.c` and `util.c`: URL encoding, dates, SHA-256, HMAC and MD5, the query strings of
  `S3_generate_authenticated_query_string`, folded header lines.
* In `response_headers_handler.c`: how a line is cut into name and value.
* The single values an operation collects from a response: a bucket's location, an ETag, a
  copied object's time.
* In `s3.c`: parsing of arguments, printing, and the commands that are one request in a
  retry loop. In `general.c`: names of statuses and the check of bucket names.
* `testsimplexml.c`, a test driver, and the Windows replacements.
* libxml2, curl and S3, except for what they may do to their caller.
* Memory exhaustion outside `request_get`.

## 6. Plan

Next is `MetaDataReadBack`, by the lemmas on the multibuffer that the properties have, and
with it that a header list's places are those of its headers (`AllPlaced`). For this the filters of
`Composition` would become functions on places first, as in `ReadCommands`. Of `Library` there is
nothing to prove: its one property is violated, and holds if `S3_initialize` and `S3_deinitialize`
never overlap, which the code does not ask for. Then the
remaining single values of the operations and the check of bucket names, as pure
operators compared with a reference definition.
