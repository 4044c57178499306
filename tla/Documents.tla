----------------------------- MODULE Documents -----------------------------
(***************************************************************************)
(* The XML documents libs3 exchanges with S3 and the SAX front end that    *)
(* reads them (src/src/simplexml.c): an ACL or a logging configuration     *)
(* that is set, kept by S3 and read back, or that somebody else has set;   *)
(* and the error document of a failed request.                             *)
(*                                                                         *)
(* libxml2 is the environment: it makes the callbacks of a well formed     *)
(* document, cuts texts into pieces anywhere, and stops where the data     *)
(* stops.  simplexml_add tells it of no end, so that nothing is reported   *)
(* then.  The document of an ACL is chosen at the start; that of an error  *)
(* is made up callback by callback.                                        *)
(***************************************************************************)
EXTENDS AccessControl, ErrorParser

CONSTANTS
  PathSize,           \* size of SimpleXml.elementPath; a name has length 1
  ProgramGrants,      \* grants programs set
  ForeignGrants,      \* grants other clients of S3 set
  Heads,              \* owners (ID, display name) or targets (bucket, prefix)
  PieceLengths,       \* lengths of the pieces of texts
  ErrorNames,         \* names of elements of error documents, by depth
  MaxElements,        \* bound: elements of an error document
  MaxPieces           \* bound: pieces of text in it

ASSUME DocumentsAssumption ==
  /\ PathSize \in Nat \ {0}
  /\ PieceLengths \subseteq Nat \ {0}
  /\ MaxElements \in Nat /\ MaxPieces \in Nat
  /\ ErrorNames \in Seq(Range(ErrorNames)) /\ ErrorNames # <<>>
  /\ Null \notin UNION Range(ErrorNames)

\* The deepest path of an ACL or a logging configuration has six names.
ASSUME GrantsAssumption ==
  /\ PathSize >= 2 * 6
  /\ \A grant \in ProgramGrants \cup ForeignGrants : IsGrant(grant)
  /\ \A grant \in ProgramGrants : grant.granteeType \in GranteeTypes
  /\ \A head \in Heads : IsString(head[1]) /\ IsString(head[2])

VARIABLES
  subject,       \* "acl", "logging" or "error"
  writer,        \* who wrote what S3 has
  heads, grants, \* what is set, or what S3 has
  pc,            \* "set", "get", "parse", "done"
  status,        \* SimpleXml.status, and what the operation reports
  document,      \* what is parsed
  position,      \* units of it given to libxml2
  elementPath,   \* SimpleXml.elementPath, as a sequence of names
  data,          \* ConvertAclData or ConvertBlsData
  errorParser,   \* ErrorParser
  elements, runs \* history: elements started; texts of the unknown elements,
                 \* consecutive pieces of one name put together

vars == <<subject, writer, heads, grants, pc, status, document, position, elementPath,
          data, errorParser, elements, runs>>

given == <<subject, writer, heads, grants>>

\* What S3 has if everything was written.
Whole == FlattenSeq(Pieces(subject, writer, heads, grants))

Init ==
  /\ \/ /\ subject \in {"acl", "logging"}
        /\ heads \in Heads
        /\ \/ /\ pc = "set" /\ writer = "libs3"
              /\ grants \in SeqOf(ProgramGrants, S3_MAX_ACL_GRANT_COUNT + 1)
           \/ /\ pc = "get" /\ writer = "others"
              /\ grants \in SeqOf(ForeignGrants, S3_MAX_ACL_GRANT_COUNT + 1)
     \/ /\ subject = "error" /\ pc = "parse" /\ writer = "others"
        /\ heads = <<>> /\ grants = <<>>
  /\ status = "OK"
  /\ document = <<>> /\ position = 0
  /\ elementPath = <<>>
  /\ data = convert_initialize
  /\ errorParser = error_parser_initialize
  /\ elements = 0 /\ runs = <<>>

Report(s) == status' = s /\ pc' = "done"

-----------------------------------------------------------------------------
(* S3_set_acl and S3_set_server_access_logging.  S3 refuses a document     *)
(* that is not whole.                                                      *)

SetTooMany ==
  /\ pc = "set" /\ Len(grants) > S3_MAX_ACL_GRANT_COUNT
  /\ Report("TooManyGrants")
  /\ UNCHANGED <<given, document, position, elementPath, data, errorParser, elements, runs>>

Set ==
  /\ pc = "set" /\ Len(grants) <= S3_MAX_ACL_GRANT_COUNT
  /\ LET doc == generateXmlDocument(subject, heads, grants) IN
       /\ document' = Sent(doc)
       /\ IF doc.status # "OK" THEN Report(doc.status)
          ELSE IF Sent(doc) # Whole THEN Report("ErrorMalformedXML")
          ELSE status' = "OK" /\ pc' = "get"
  /\ UNCHANGED <<given, position, elementPath, data, errorParser, elements, runs>>

\* S3_get_acl and S3_get_server_access_logging: the document is kept in a
\* string_buffer, which it has to fit in (getAclDataCallback), and parsed by
\* the complete callback.
Get ==
  /\ pc = "get"
  /\ LET kept == string_buffer_append(Empty, DocumentSize, Whole) IN
       /\ document' = kept.text
       /\ IF Len(Whole) > DocumentSize THEN Report("XmlDocumentTooLarge")
          ELSE pc' = "parse" /\ UNCHANGED status
  /\ UNCHANGED <<given, position, elementPath, data, errorParser, elements, runs>>

-----------------------------------------------------------------------------
(* simplexml.c *)

Parsing == pc = "parse" /\ status = "OK"

\* A path has its names and the slashes between them.
PathLength == IF elementPath = <<>> THEN 0 ELSE 2 * Len(elementPath) - 1

saxStartElement(name) ==
  /\ Parsing
  /\ IF PathLength + 2 >= PathSize
     THEN status' = "XmlParseFailure" /\ UNCHANGED elementPath
     ELSE elementPath' = Append(elementPath, name) /\ UNCHANGED status
  /\ UNCHANGED <<given, pc, document, data, errorParser>>

\* The error parser takes no notice of the ends.
saxEndElement ==
  /\ Parsing
  /\ elementPath # <<>>
  /\ LET result == IF subject = "error" THEN Unread(data)
                   ELSE convertXmlEnd(subject, data, elementPath)
     IN  status' = result.status /\ data' = result.data
  /\ elementPath' = Front(elementPath)
  /\ UNCHANGED <<given, pc, document, errorParser>>

saxCharacters(str) ==
  /\ Parsing
  /\ IF subject = "error"
     THEN /\ errorParser' = errorXmlCallback(errorParser, elementPath, str)
          /\ UNCHANGED <<status, data>>
     ELSE LET result == convertXmlText(subject, data, elementPath, str) IN
            /\ status' = result.status /\ data' = result.data
            /\ UNCHANGED errorParser
  /\ UNCHANGED <<given, pc, document, elementPath>>

-----------------------------------------------------------------------------
(* libxml2 *)

\* The next piece of the document that S3 sent.
Piece(n) == SubSeq(document, position + 1, position + n)

NextIs(tag) == position < Len(document) /\ document[position + 1].tag = tag

ParseDocument ==
  /\ subject # "error"
  /\ \/ /\ NextIs("start")
        /\ saxStartElement(document[position + 1].what)
        /\ position' = position + 1
     \/ NextIs("end") /\ saxEndElement /\ position' = position + 1
     \/ \E n \in PieceLengths :
          /\ position + n <= Len(document)
          /\ \A i \in DOMAIN Piece(n) : Piece(n)[i].tag = "char"
          /\ saxCharacters([i \in 1 .. n |-> Piece(n)[i].what])
          /\ position' = position + n
  /\ UNCHANGED <<elements, runs>>

\* What the n-th piece of text of an error document is made of: of six pieces
\* that follow each other each has a letter of its own.
Letter(n) == <<"a", "b", "c", "d", "e", "f">>[1 + (n % 6)]

Recorded(name, str) ==
  IF runs # <<>> /\ Last(runs).name = name
  THEN [runs EXCEPT ![Len(runs)].value = @ \o str]
  ELSE Append(runs, [name |-> name, value |-> str])

NamesBelow(path) == ErrorNames[Shorter(Len(path) + 1, Len(ErrorNames))]

ParseError ==
  /\ subject = "error"
  /\ \/ /\ elements < MaxElements
        /\ \E name \in NamesBelow(elementPath) : saxStartElement(name)
        /\ elements' = elements + 1
        /\ UNCHANGED <<position, runs>>
     \/ saxEndElement /\ UNCHANGED <<position, elements, runs>>
     \/ /\ position < MaxPieces /\ elementPath # <<>>
        /\ position' = position + 1
        /\ \E n \in PieceLengths :
             LET str == [i \in 1 .. n |-> Letter(position + 1)] IN
               /\ saxCharacters(str)
               /\ runs' = IF IsDetail(elementPath)
                          THEN Recorded(ElementName(elementPath), str) ELSE runs
        /\ UNCHANGED elements

\* The data ends: at the document's end or, when the transfer broke off, before.
DataEnds ==
  /\ pc = "parse"
  /\ pc' = "done"
  /\ UNCHANGED <<given, status, document, position, elementPath, data, errorParser,
                 elements, runs>>

Finished == pc = "done" /\ UNCHANGED vars

Next == SetTooMany \/ Set \/ Get \/ ParseDocument \/ ParseError \/ DataEnds \/ Finished

Spec == Init /\ [][Next]_vars

-----------------------------------------------------------------------------
Cut(str, room) == SubSeq(str, 1, Shorter(Len(str), room))

\* A logging configuration without a target bucket turns logging off.
LoggingOff == subject = "logging" /\ heads[1] = <<>>

Said == IF LoggingOff THEN <<>> ELSE grants

\* The grants as they can be read: texts cut to what their buffers hold.
AsRead ==
  [i \in DOMAIN Said |->
     LET g == Said[i] IN
       Grant(IF subject = "logging" /\ writer = "libs3" /\ g.granteeType = "LogDelivery"
             THEN "AllUsers" ELSE g.granteeType,
             Cut(g.id, Held(GranteeSize)), Cut(g.name, Held(GranteeSize)), g.permission)]

CanBeRead(grant) ==
  /\ grant.permission \in Permissions
  /\ Len(grant.id) <= GranteeSize /\ Len(grant.name) <= GranteeSize
  /\ grant.granteeType = "CanonicalUser" => subject = "acl" /\ grant.id # <<>> /\ grant.name # <<>>
  /\ grant.granteeType = "AmazonCustomerByEmail" => grant.id # <<>>
  /\ grant.granteeType \in GranteeTypes
  /\ grant.granteeType = "LogDelivery" => subject = "acl" \/ writer = "libs3"

Fits == Len(Whole) < IF writer = "libs3" THEN DocumentSize - 1 ELSE DocumentSize + 1

Readable ==
  /\ Fits
  /\ Len(IF writer = "libs3" THEN grants ELSE Said) <= S3_MAX_ACL_GRANT_COUNT
  /\ \A i \in DOMAIN Said : CanBeRead(Said[i])
  /\ LoggingOff \/ \A n \in 1 .. 2 : Len(heads[n]) < GranteeSize

HeadsRead ==
  [n \in 1 .. 2 |-> IF LoggingOff THEN <<>> ELSE Cut(heads[n], GranteeSize - 2)]

(* Grants that were set, or that somebody else has set, are those that a   *)
(* successful S3_get_acl or S3_get_server_access_logging reports: each     *)
(* with its own grantee and permission, in order.  When the document was   *)
(* broken off the last ones are missing, but none is made of parts of two. *)
(* When it was not, it is reported if and only if all of it can be: no ID  *)
(* or address is empty, a canonical user has a display name and is not in  *)
(* a logging document (where convert_bls does not look for the ID), a text *)
(* is not longer than its buffer, there are not too many grants, and the   *)
(* document fits.                                                          *)
GrantsReadBack ==
  subject # "error" /\ pc = "done" =>
    IF status # "OK" THEN ~Readable
    ELSE /\ IsPrefix(data.grants, AsRead)
         /\ position = Len(Whole) =>
              /\ Readable
              /\ data.grants = AsRead
              /\ \A n \in 1 .. 2 : data.heads[n].text = HeadsRead[n]

(* A document is set, and sent whole, if its buffer has more than the one  *)
(* place left that its null takes; it is called too large if it does not   *)
(* fit with its null; and OK is reported only of one that was sent whole.  *)
(* One with exactly the place for its null loses its last character in     *)
(* append, and S3 refuses it; it is not said that it must.                 *)
SetSendsWhole ==
  [][pc = "set" /\ Len(grants) <= S3_MAX_ACL_GRANT_COUNT =>
       /\ Len(Whole) < DocumentSize - 1 => status' = "OK"
       /\ status' = "OK" => document' = Whole
       /\ status' = "XmlDocumentTooLarge" <=> Len(Whole) >= DocumentSize]_vars

Room(details) ==
  Total([i \in DOMAIN details |-> Len(details[i].name) + Len(details[i].value) + 2])

(* The extra details of an error are the elements libs3 does not know, in  *)
(* order, each with its own text and all of it; when the buffer of names   *)
(* and values gets full the last ones are missing.  This holds up to       *)
(* EXTRA_DETAILS_SIZE details; the next is stored behind the array, over   *)
(* the names and values of the first.                                      *)
DetailsNotMixed ==
  subject = "error" /\ Len(runs) <= EXTRA_DETAILS_SIZE =>
    /\ IsPrefix(ExtraDetails(errorParser), runs)
    /\ Room(runs) <= DetailsBufferSize => ExtraDetails(errorParser) = runs
=============================================================================
