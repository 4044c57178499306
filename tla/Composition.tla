---------------------------- MODULE Composition ----------------------------
(***************************************************************************)
(* What setup_request (src/src/request.c) makes of the parameters of a     *)
(* request: the headers that are sent, the URI, and the text that is       *)
(* signed.                                                                 *)
(*                                                                         *)
(* A header is a name and a value, a sequence of characters; all names     *)
(* count as one character.  Header lines are not folded.  A signature      *)
(* stands for the text that was signed.                                    *)
(***************************************************************************)
EXTENDS Naturals, Sequences, SequencesExt, FiniteSetsExt

CONSTANTS
  AmzHeadersCount,  \* elements of amzHeaders: S3_MAX_METADATA_COUNT + 2
  SortedCount,      \* elements of sortedHeaders: S3_MAX_METADATA_COUNT + 3
  RawSize,          \* sizeof(amzHeadersRaw)
  StandardSize,     \* size of the buffers of the other headers
  QuerySize,        \* sizeof(canonicalQueryString)
  UriSize           \* room for the query in Request.uri

ASSUME CompositionAssumption ==
  /\ AmzHeadersCount \in Nat /\ SortedCount \in Nat /\ RawSize \in Nat /\ StandardSize \in Nat
  /\ QuerySize \in Nat /\ UriSize \in Nat

Header(name, value) == [name |-> name, value |-> value]

Blank == " "

StripEnd(str) ==
  LET kept == {0} \cup {i \in DOMAIN str : str[i] # Blank}
  IN  SubSeq(str, 1, Max(kept))

StripStart(str) ==
  LET kept == {i \in DOMAIN str : str[i] # Blank}
  IN  IF kept = {} THEN <<>> ELSE SubSeq(str, Min(kept), Len(str))

-----------------------------------------------------------------------------
(* The x-amz- headers.  amzHeaders has the places in amzHeadersRaw where   *)
(* the headers start, memory what starts there.                            *)

NoHeaders == [amzHeaders |-> <<>>, memory |-> [at \in {} |-> <<>>], length |-> 0]

append_amz_header(values, header) ==
  LET at     == values.length + 1
      kept   == StripEnd(header.value)
      fits   == values.length + 1 + Len(header.value) + 3 < RawSize
      placed == [values EXCEPT !.amzHeaders = Append(@, at)]
  IN  IF ~fits THEN placed
      ELSE [placed EXCEPT
              !.memory = [a \in DOMAIN @ \cup {at} |->
                            IF a = at THEN Header(header.name, kept) ELSE @[a]],
              !.length = IF kept = <<>> THEN at + 2 ELSE at + 3 + Len(kept)]

\* A small number is printed as one character.
Printed(n) == <<"0", "1", "2", "3", "4", "5">>[n + 1]

When(condition, headers) == IF condition THEN headers ELSE <<>>

\* What compose_amz_headers passes to append_amz_header; it takes no notice of
\* what that returns.
AmzHeaders(params) ==
  params.metaData
  \o When(params.cannedAcl, <<Header("x-amz-acl", <<"p">>)>>)
  \o When(params.encrypted, <<Header("x-amz-server-side-encryption", <<"E">>)>>)
  \o <<Header("x-amz-date", <<"d">>)>>
  \o When(params.type = "COPY", <<Header("x-amz-copy-source", <<"s">>)>>)
  \o When(params.type = "COPY" /\ params.byteCount > 0,
          <<Header("x-amz-copy-source-range",
                   <<Printed(params.startByte),
                     Printed(params.startByte + params.byteCount)>>)>>)
  \o When(params.type = "COPY" /\ params.properties,
          <<Header("x-amz-metadata-directive", <<"R">>)>>)
  \o When(params.token, <<Header("x-amz-security-token", <<"t">>)>>)
  \o <<Header("x-amz-content-sha256", <<"h">>)>>

compose_amz_headers(params) ==
  FoldLeft(append_amz_header, NoHeaders, AmzHeaders(params))

-----------------------------------------------------------------------------
(* The other headers *)

\* do_put_header and do_get_header.  The loop that is to remove the blanks at
\* the end looks at the null behind them, and removes none.
StandardStatus(header) ==
  IF header.value = <<>> THEN "OK"
  ELSE IF StripStart(header.value) = <<>> THEN "Bad"
  ELSE IF Len(StripStart(header.value)) + 3 >= StandardSize THEN "TooLong"
  ELSE "OK"

\* The first status that is not OK, of fields in the order of the code.
compose_standard_headers(params) ==
  LET failed == SelectSeq(params.standard, LAMBDA h : StandardStatus(h) # "OK")
  IN  IF failed = <<>> THEN "OK" ELSE StandardStatus(Head(failed))

RangeHeader(params) ==
  When(params.startByte > 0 \/ params.byteCount > 0,
       <<Header("range", <<Printed(params.startByte)>>
                         \o When(params.byteCount > 0,
                                 <<Printed(params.startByte + params.byteCount - 1)>>))>>)

StandardHeaders(params) ==
  <<Header("host", <<"b">>)>>
  \o SelectSeq([i \in DOMAIN params.standard |->
                  [params.standard[i] EXCEPT !.value = StripStart(@)]],
               LAMBDA h : h.value # <<>>)
  \o RangeHeader(params)

-----------------------------------------------------------------------------
(* The text that is signed *)

\* The names in the order of headerle.
Names ==
  <<"cache-control", "content-md5", "content-type", "host", "if-match", "range",
    "x-amz-acl", "x-amz-content-sha256", "x-amz-copy-source",
    "x-amz-copy-source-range", "x-amz-date", "x-amz-meta-a", "x-amz-meta-b",
    "x-amz-metadata-directive", "x-amz-security-token", "x-amz-server-side-encryption",
    "delimiter", "encoding-type", "key-marker", "marker", "max-keys", "max-parts",
    "max-uploads", "part-number-marker", "partNumber", "prefix", "upload-id-marker",
    "uploadId", "uploads">>

Rank(name) == CHOOSE n \in DOMAIN Names : Names[n] = name

headerle(h1, h2) == Rank(h1.name) < Rank(h2.name)

\* Mutant of kv_gnome_sort: it stops before the last one.
SortAllButLast(headers) ==
  IF headers = <<>> THEN <<>>
  ELSE Append(FoldLeft(LAMBDA sorted, h :
                         LET before == SelectSeq(sorted, LAMBDA g : headerle(g, h))
                         IN  before \o <<h>> \o SubSeq(sorted, Len(before) + 1, Len(sorted)),
                       <<>>, Front(headers)),
              Last(headers))

\* Each one moves back over those that headerle does not put before it: also
\* over those of the same name.
kv_gnome_sort(headers) ==
  FoldLeft(LAMBDA sorted, h :
             LET before == SelectSeq(sorted, LAMBDA g : headerle(g, h))
             IN  before \o <<h>> \o SubSeq(sorted, Len(before) + 1, Len(sorted)),
           <<>>, headers)

\* Values of headers of one name that follow each other are put in one line.
Folded(headers) ==
  FoldLeft(LAMBDA lines, h :
             IF lines # <<>> /\ Last(lines).name = h.name
             THEN [lines EXCEPT ![Len(lines)].value = @ \o <<",">> \o h.value]
             ELSE Append(lines, h),
           <<>>, headers)

\* The text of a header without a value is read to behind its end.
Garbled == <<Header("garbled", <<>>)>>

canonicalize_signature_headers(headers) ==
  IF \E i \in DOMAIN headers : headers[i].value = <<>> THEN Garbled
  ELSE Folded(kv_gnome_sort(headers))

QueryLength(query) ==
  FoldLeft(LAMBDA n, p : n + 1 + Len(p.value) + 2, 0, query)

\* The sub-resource is put behind the sorted parameters.
canonicalize_query_string(params) ==
  IF QueryLength(params.query) > QuerySize THEN Garbled
  ELSE kv_gnome_sort(params.query) \o params.subResource

-----------------------------------------------------------------------------
(* setup_request, and what request_get does with what it computed.         *)

\* A signature is what was signed.
compose_auth_header(params, signedHeaders) ==
  <<canonicalize_query_string(params), canonicalize_signature_headers(signedHeaders)>>

\* The other headers that are signed, too.
SignedToo(params) ==
  SelectSeq(StandardHeaders(params),
            LAMBDA h : h.name \in {"host", "content-type", "content-md5", "range"})

\* What lies behind the end of an array, or was never written, makes the
\* result undefined.
setup_request(params) ==
  LET amz     == compose_amz_headers(params)
      status  == compose_standard_headers(params)
      written == \A i \in DOMAIN amz.amzHeaders : amz.amzHeaders[i] \in DOMAIN amz.memory
      given   == [i \in DOMAIN amz.amzHeaders |-> amz.memory[amz.amzHeaders[i]]]
  IN  IF Len(amz.amzHeaders) > AmzHeadersCount THEN [status |-> "undefined"]
      ELSE IF status # "OK" THEN [status |-> status]
      ELSE IF \/ ~written
              \/ Len(amz.amzHeaders) + Len(SignedToo(params)) > SortedCount
              \/ params.subResource # <<>> /\ QueryLength(params.query) > QuerySize
           THEN [status |-> "undefined"]
      ELSE [status |-> "OK", given |-> given,
            signature |-> compose_auth_header(params, given \o SignedToo(params))]

compose_uri(params) ==
  IF QueryLength(params.subResource) + QueryLength(params.query) > UriSize
  THEN "UriTooLong" ELSE "OK"

\* The request as curl sends it.
setup_curl(params, computed) ==
  [status    |-> "OK",
   headers   |-> StandardHeaders(params) \o computed.given,
   query     |-> params.subResource \o params.query,
   signature |-> computed.signature]

Composed(params) ==
  LET computed == setup_request(params)
  IN  IF computed.status # "OK" THEN computed
      ELSE IF compose_uri(params) # "OK" THEN [status |-> compose_uri(params)]
      ELSE setup_curl(params, computed)
=============================================================================
