------------------------------ MODULE Headers ------------------------------
(***************************************************************************)
(* The headers of requests and responses: a request is composed and signed *)
(* (module Composition), S3 checks its signature and keeps the metadata of *)
(* an object; and a later request for that object, which S3 or somebody    *)
(* else has given its metadata, is answered, perhaps after redirects, by   *)
(* responses whose headers response_headers_handler_add collects until the *)
(* first data comes (module ResponseHeaders, request_headers_done).        *)
(*                                                                         *)
(* curl and S3 are the environment.  curl passes on the headers of every   *)
(* response, the redirects and what follows the body included              *)
(* (CURLOPT_FOLLOWLOCATION); it does not send a header without a value.    *)
(***************************************************************************)
EXTENDS Composition, ResponseHeaders

CONSTANTS
  Requests,        \* parameters of requests that are composed
  ForeignMetaData, \* metadata others have given objects
  Redirects,       \* sets of headers of redirecting responses
  Answers,         \* sets of headers of final responses, without metadata
  Trailers,        \* headers that come behind the data
  MaxRedirects     \* bound on redirects

ASSUME HeadersAssumption ==
  /\ MaxRedirects \in Nat
  /\ \A headers \in ForeignMetaData : \A h \in headers : h.name \in MetaNames
  /\ \A headers \in Redirects \cup Answers : \A h \in headers : IsString(h.value)

VARIABLES
  params,       \* the request that is composed
  phase,        \* "compose", "answer", "final", "done"
  reported,     \* what the composed request reports
  stored,       \* the object's metadata in S3
  coming,       \* headers of the response that have not come yet
  redirects,    \* redirects so far
  handler,      \* the ResponseHeadersHandler of the later request
  answered      \* history: the headers that came before the data, in order

headersVars == <<params, phase, reported, stored, coming, redirects, handler, answered>>

NoRequest == [type |-> "none"]

HeadersInit ==
  /\ \/ params \in Requests /\ phase = "compose" /\ stored = {}
     \/ params = NoRequest /\ phase = "answer" /\ stored \in ForeignMetaData
  /\ reported = "OK"
  /\ coming = {} /\ redirects = 0
  /\ handler = response_headers_handler_initialize
  /\ answered = <<>>

-----------------------------------------------------------------------------
(* S3 *)

Trimmed(value) == StripStart(StripEnd(value))

\* Sorted by name; those of one name stay in order.
ByName(seq) ==
  FoldLeft(LAMBDA sorted, h :
             LET before == SelectSeq(sorted, LAMBDA g : Rank(g.name) <= Rank(h.name))
             IN  before \o <<h>> \o SubSeq(sorted, Len(before) + 1, Len(sorted)),
           <<>>, seq)

\* The headers that arrive, those of one name in one line.
Arrived(headers) ==
  Folded(ByName(SelectSeq([i \in DOMAIN headers |-> [headers[i] EXCEPT !.value = Trimmed(@)]],
                          LAMBDA h : h.value # <<>>)))

\* What S3 expects to have been signed of a request it receives.
Expected(request) ==
  <<ByName(request.query),
    SelectSeq(Arrived(request.headers),
              LAMBDA h : h.name \notin {"cache-control", "if-match"})>>

\* No header of its own may come twice.
Accepted(request) ==
  /\ request.signature = Expected(request)
  /\ \A i, j \in DOMAIN request.headers :
       request.headers[i].name = request.headers[j].name
         => i = j \/ request.headers[i].name \in MetaNames

Kept(request) ==
  {h \in Range(Arrived(request.headers)) : h.name \in MetaNames}

-----------------------------------------------------------------------------
\* request_perform up to the request's end, for a request with metadata.
Compose ==
  /\ phase = "compose"
  /\ LET request == Composed(params) IN
       IF request.status # "OK"
       THEN reported' = request.status /\ phase' = "done" /\ UNCHANGED stored
       ELSE IF ~Accepted(request)
       THEN reported' = "ErrorSignatureDoesNotMatch" /\ phase' = "done" /\ UNCHANGED stored
       ELSE /\ UNCHANGED reported
            /\ stored' = Kept(request)
            /\ phase' = IF params.type \in {"PUT", "COPY"} THEN "answer" ELSE "done"
  /\ UNCHANGED <<params, coming, redirects, handler, answered>>

Redirect ==
  /\ phase = "answer" /\ coming = {}
  /\ redirects < MaxRedirects
  /\ redirects' = redirects + 1
  /\ coming' \in Redirects
  /\ phase' = "answer"
  /\ UNCHANGED <<params, reported, stored, handler, answered>>

Answer ==
  /\ phase = "answer" /\ coming = {}
  /\ \E headers \in Answers :
       coming' = headers \cup stored
  /\ phase' = "final"
  /\ UNCHANGED <<params, reported, stored, redirects, handler, answered>>

\* curl_header_func
curl_header_func ==
  /\ phase \in {"answer", "final"}
  /\ \E header \in coming :
       /\ coming' = coming \ {header}
       /\ handler' = response_headers_handler_add(handler, header)
       /\ answered' = Append(answered, header)
  /\ UNCHANGED <<params, phase, reported, stored, redirects>>

\* The first data, or the end of the request: the properties callback is made.
request_headers_done ==
  /\ phase = "final" /\ coming = {}
  /\ phase' = "done"
  /\ handler' = response_headers_handler_done(handler)
  /\ UNCHANGED <<params, reported, stored, coming, redirects, answered>>

TrailerComes ==
  /\ phase = "done" /\ handler.done
  /\ \E header \in Trailers : handler' = response_headers_handler_add(handler, header)
  /\ UNCHANGED <<params, phase, reported, stored, coming, redirects, answered>>

HeadersFinished == phase = "done" /\ UNCHANGED headersVars

HeadersNext ==
  Compose \/ Redirect \/ Answer \/ curl_header_func \/ request_headers_done
  \/ TrailerComes \/ HeadersFinished

HeadersSpec == HeadersInit /\ [][HeadersNext]_headersVars

-----------------------------------------------------------------------------
\* Each x-amz- header has a place of its own, and both arrays have room.
AllPlaced ==
  LET count == Len(AmzHeaders(params)) IN
    /\ Cardinality(DOMAIN compose_amz_headers(params).memory) = count
    /\ count <= AmzHeadersCount
    /\ count + Len(SelectSeq(StandardHeaders(params),
                             LAMBDA h : h.name \notin {"cache-control", "if-match"}))
         <= SortedCount

\* The values of a name among the metadata that are given, in order, without
\* the blanks around them.
Values(name) ==
  LET given == SelectSeq(params.metaData,
                         LAMBDA h : h.name = name /\ Trimmed(h.value) # <<>>)
  IN  [i \in DOMAIN given |-> Trimmed(given[i].value)]

\* No value is empty or begins with a blank; those of one name are the same
\* backwards.
MetaDataPlain ==
  /\ \A h \in Range(params.metaData) : Trimmed(h.value) # <<>> /\ h.value[1] # Blank
  /\ \A name \in MetaNames : Values(name) = Reverse(Values(name))

\* What compose_standard_headers accepts; a Content-Type or Content-MD5 does
\* not end with a blank.
StandardPlain ==
  \A i \in DOMAIN params.standard :
    LET header == params.standard[i] IN
      header.value # <<>> =>
        /\ StandardStatus(header) = "OK"
        /\ header.name \in {"content-type", "content-md5"} => Last(header.value) # Blank

\* The parameters fit canonicalQueryString and the URI.
QueryFits ==
  /\ QueryLength(params.query) <= QuerySize
  /\ QueryLength(params.query \o params.subResource) <= UriSize

(* What is signed is what S3 finds in the request it receives, whichever   *)
(* headers and parameters there are and in whichever order they are given: *)
(* S3 takes the signature.  It is said of requests whose headers have all  *)
(* found room, whose values have no blanks to be removed, and whose        *)
(* headers of one name may be turned round; of the others see the end of   *)
(* the module.                                                             *)
SignatureTaken ==
  [][phase = "compose" /\ AllPlaced /\ MetaDataPlain /\ StandardPlain /\ QueryFits
       => reported' = "OK"]_headersVars

\* What the answers so far take of the property strings.
Used(count) ==
  Total([i \in 1 .. count |->
           IF answered[i].name \in StringProperties THEN Len(answered[i].value) + 1 ELSE 0])

\* When exactly one place was left the headers that followed were ignored.
OneShort == \E i \in DOMAIN answered : Used(i) = PropertyStringsSize - 1

MetaDataRoom ==
  MapThenSumSet(LAMBDA h : 1 + 1 + Len(h.value) + 1, stored)

Joined(values) ==
  FoldLeft(LAMBDA str, value : IF str = <<>> THEN value ELSE str \o <<",">> \o value,
           <<>>, values)

GivenMetaData ==
  IF params = NoRequest THEN stored
  ELSE {Header(name, Joined(Values(name))) :
          name \in {n \in MetaNames : Values(n) # <<>>}}

(* The metadata the properties callback gets is the metadata the object    *)
(* was given, by libs3 or somebody else, with or without redirects: no     *)
(* value is under another name or cut short, and all of it is there if it  *)
(* fits the strings.  It holds up to S3_MAX_METADATA_COUNT of them; more   *)
(* are stored behind the array.  And it does not hold for metadata that    *)
(* did not fit amzHeadersRaw, in place of which the next header was sent   *)
(* twice; nor when exactly one place of the other strings was left.        *)
MetaDataReadBack ==
  LET read == MetaData(handler) IN
    handler.done /\ Cardinality(stored) <= S3_MAX_METADATA_COUNT
      /\ (params # NoRequest => AllPlaced) =>
        /\ Range(read) \subseteq GivenMetaData
        /\ MetaDataRoom <= MetaDataStringsSize /\ ~OneShort =>
             Range(read) = GivenMetaData /\ Len(read) = Cardinality(GivenMetaData)

Lines(name) == {i \in DOMAIN answered : answered[i].name = name}

(* Each property is the one in the last response that had it, redirects    *)
(* among them but not what comes behind the data, if those of all          *)
(* responses together fit the strings; if not, it is cut short or starts   *)
(* behind the array, but is never taken from two headers.                  *)
PropertiesAsAnswered ==
  \A name \in StringProperties :
    LET lines == Lines(name)
        read  == Property(handler, name)
    IN  /\ \/ read = <<Behind>> /\ Used(Len(answered)) > PropertyStringsSize
           \/ read = <<>>
           \/ \E i \in lines : IsPrefix(read, answered[i].value)
        /\ Used(Len(answered)) <= PropertyStringsSize /\ ~OneShort =>
             read = IF lines = {} THEN <<>> ELSE answered[Max(lines)].value

-----------------------------------------------------------------------------
(* What the comments in the code say, and it does not do.                  *)

\* request.c: "gnome sort is the world's simplest stable sort".
SortIsStable ==
  params # NoRequest => kv_gnome_sort(AmzHeaders(params)) = ByName(AmzHeaders(params))

\* request.c: 'normalizes' the headers by removing whitespace, and "Now remove
\* the whitespace at the end".
BlanksRemoved ==
  params # NoRequest /\ Composed(params).status = "OK" =>
    \A h \in Range(Composed(params).headers) : h.value = Trimmed(h.value)

\* request.c: "creates an array of string pointers representing these headers".
AmzHeadersRepresented ==
  params # NoRequest =>
    LET amz == compose_amz_headers(params) IN
      \A i \in DOMAIN amz.amzHeaders :
        /\ amz.amzHeaders[i] \in DOMAIN amz.memory
        /\ amz.memory[amz.amzHeaders[i]].name = AmzHeaders(params)[i].name

\* response_headers_handler.c: "If we've already filled up the response headers,
\* ignore this data."
PropertiesInArray ==
  handler.done => \A name \in StringProperties : Property(handler, name) # <<Behind>>
=============================================================================
