----------------------------- MODULE MCHeaders -----------------------------
(***************************************************************************)
(* Headers for TLC: the requests and responses of the instance.            *)
(***************************************************************************)
EXTENDS Headers

MetaValues ==
  {<<>>, <<"v">>, <<"w", " ">>, <<" ", "v">>, [i \in 1 .. 7 |-> "l"], [i \in 1 .. 30 |-> "l"]}

Metas == {Header(n, v) : n \in MetaNames, v \in MetaValues}

ContentTypes == {<<>>, <<"c">>, <<"c", " ">>, <<" ">>, <<"c", "c", "c", "c", "c", "c">>}

Request(type, metaData, standard, acl) ==
  [type |-> type, properties |-> metaData # <<>>, metaData |-> metaData, cannedAcl |-> acl,
   encrypted |-> acl, token |-> FALSE, standard |-> standard, startByte |-> 0, byteCount |-> 0,
   query |-> <<>>, subResource |-> <<>>]

PutRequests ==
  {Request(t, m, <<>>, FALSE) : t \in {"PUT", "COPY"}, m \in SeqOf(Metas, 2)}
  \cup {Request(t, m, <<>>, FALSE) :
          t \in {"PUT", "COPY"},
          m \in [1 .. 3 -> {h \in Metas : h.value \in {<<>>, <<"v">>, <<"w", " ">>}}]}
  \cup {Request("PUT", m, <<Header("cache-control", <<"n">>), Header("content-type", c)>>, a) :
          m \in SeqOf({h \in Metas : h.value = <<"v">>}, 2), c \in ContentTypes, a \in BOOLEAN}

Query(names) ==
  [i \in DOMAIN names |->
     Header(names[i], IF names[i] = "part-number-marker" THEN <<"q", "q", "q">> ELSE <<"q", "q">>)]

\* The parameters in the order in which the operations put them.
Queries ==
  {[query |-> Query(q), subResource |-> <<>>] :
     q \in {<<"prefix", "marker", "delimiter", "max-keys">>, <<"partNumber", "uploadId">>}}
  \cup {[query |-> Query(SelectSeq(<<"prefix", "key-marker", "delimiter", "upload-id-marker",
                                     "encoding-type", "max-uploads">>, LAMBDA n : n \in names)),
         subResource |-> <<Header("uploads", <<>>)>>] :
          names \in SUBSET {"prefix", "delimiter", "upload-id-marker", "max-uploads"}}
  \cup {[query |-> Query(q), subResource |-> Query(<<"uploadId">>)] :
          q \in {<<>>, <<"part-number-marker", "encoding-type", "max-parts">>}}

GetRequests ==
  {[Request("GET", <<>>, <<Header("if-match", <<"e">>)>>, FALSE) EXCEPT
      !.query = q.query, !.subResource = q.subResource, !.token = TRUE] : q \in Queries}
  \cup {[Request(t, <<>>, <<>>, FALSE) EXCEPT !.startByte = from, !.byteCount = count] :
          t \in {"GET", "COPY"}, from \in 0 .. 1, count \in 0 .. 2}

MCRequests == PutRequests \cup GetRequests

MCForeignMetaData ==
  LET line(n, v) == Header(n, v) IN
  {{}, {line("x-amz-meta-a", <<>>), line("x-amz-meta-b", <<"v">>)},
   {line("x-amz-meta-a", <<"v", "v", "v">>), line("x-amz-meta-b", <<"w", "w", "w">>)},
   {line("x-amz-meta-a", <<"v", "v", "v", "v", "v", "v", "v">>), line("x-amz-meta-b", <<"w">>)}}

MCRedirects == {{Header("x-amz-request-id", <<"r">>), Header("content-type", <<"x", "x">>)}}

MCAnswers ==
  {{Header("x-amz-request-id", <<"i", "i">>), Header("content-length", <<"1", "2">>)},
   {Header("x-amz-request-id", <<"i", "i", "i">>), Header("etag", <<"e">>)}}

MCTrailers == {Header("etag", <<"t">>), Header("x-amz-meta-a", <<"t">>)}
=============================================================================
