--------------------------- MODULE AccessControl ---------------------------
(***************************************************************************)
(* Grants as XML documents: what S3_set_acl and                            *)
(* S3_set_server_access_logging write (src/src/bucket_metadata.c,          *)
(* src/src/service_access_logging.c) and what S3_convert_acl               *)
(* (src/src/general.c) and convert_bls read back.  The two readers and the *)
(* two writers differ in few things, which subject ("acl" or "logging")    *)
(* selects.                                                                *)
(*                                                                         *)
(* A document is a sequence of tags and characters, each of length one.    *)
(***************************************************************************)
EXTENDS StringBuffer

CONSTANTS
  S3_MAX_ACL_GRANT_COUNT,
  GranteeSize,      \* S3_MAX_GRANTEE_..._SIZE; of the other texts, too
  DocumentSize      \* ACL_XML_DOC_MAXSIZE and BLS_XML_DOC_MAXSIZE

ASSUME AccessControlAssumption ==
  /\ S3_MAX_ACL_GRANT_COUNT \in Nat
  /\ GranteeSize \in Nat \ {0, 1} /\ DocumentSize \in Nat \ {0, 1}

Start(name) == <<[tag |-> "start", what |-> name]>>
End(name)   == <<[tag |-> "end", what |-> name]>>
Text(str)   == [i \in DOMAIN str |-> [tag |-> "char", what |-> str[i]]]
Element(name, str) == Start(name) \o Text(str) \o End(name)

\* An S3AclGrant; id is also the email address.
Grant(type, id, name, permission) ==
  [granteeType |-> type, id |-> id, name |-> name, permission |-> permission]

GranteeTypes ==
  {"AmazonCustomerByEmail", "CanonicalUser", "AllAwsUsers", "AllUsers", "LogDelivery"}

\* Only users have an ID or an address, only canonical users a name: the
\* grantee is a union.
IsGrant(grant) ==
  /\ grant = Grant(grant.granteeType, grant.id, grant.name, grant.permission)
  /\ IsString(grant.id) /\ IsString(grant.name)
  /\ grant.granteeType # "CanonicalUser" => grant.name = <<>>
  /\ grant.granteeType \notin {"CanonicalUser", "AmazonCustomerByEmail"} => grant.id = <<>>

Permissions == {"READ", "WRITE", "READ_ACP", "WRITE_ACP", "FULL_CONTROL"}

-----------------------------------------------------------------------------
(* Writing.  head1 and head2 are the owner's ID and display name, or the   *)
(* target bucket and prefix of the log.                                    *)

\* Each group's URI is its name; libs3 writes two groups in a logging document.
GroupUri(writer, type) ==
  IF writer = "libs3" /\ type # "AllAwsUsers" THEN "AllUsers" ELSE type

GranteePiece(writer, grant) ==
  CASE grant.granteeType = "AmazonCustomerByEmail" -> Element("EmailAddress", grant.id)
    [] grant.granteeType = "CanonicalUser" ->
         Element("ID", grant.id) \o Element("DisplayName", grant.name)
    [] OTHER -> Element("URI", <<GroupUri(writer, grant.granteeType)>>)

GrantPieces(writer, grant) ==
  <<Start("Grant") \o Start("Grantee"),
    GranteePiece(writer, grant),
    End("Grantee") \o Element("Permission", <<grant.permission>>) \o End("Grant")>>

AllGrantPieces(writer, grants) ==
  FlattenSeq([i \in DOMAIN grants |-> GrantPieces(writer, grants[i])])

\* What generateAclXmlDocument and generateSalXmlDocument pass to append.
AclPieces(head1, head2, grants) ==
  <<Start("AccessControlPolicy") \o Start("Owner") \o Element("ID", head1)
      \o Element("DisplayName", head2) \o End("Owner") \o Start("AccessControlList")>>
  \o AllGrantPieces("any", grants)
  \o <<End("AccessControlList") \o End("AccessControlPolicy")>>

SalPieces(writer, head1, head2, grants) ==
  <<Start("BucketLoggingStatus")>>
  \o (IF head1 = <<>> THEN <<>>
      ELSE <<Start("LoggingEnabled") \o Element("TargetBucket", head1),
             Element("TargetPrefix", head2)>>
           \o (IF grants = <<>> THEN <<>>
               ELSE <<Start("TargetGrants")>> \o AllGrantPieces(writer, grants)
                    \o <<End("TargetGrants")>>)
           \o <<End("LoggingEnabled")>>)
  \o <<End("BucketLoggingStatus")>>

Pieces(subject, writer, heads, grants) ==
  IF subject = "acl" THEN AclPieces(heads[1], heads[2], grants)
  ELSE SalPieces(writer, heads[1], heads[2], grants)

\* Mutant of append: one place of the buffer is not counted.
AppendOneMore(doc, piece) ==
  LET len == doc.len + Len(piece)
  IN  IF doc.status # "OK" THEN doc
      ELSE [text   |-> Snprintf(doc.text, doc.len, DocumentSize - doc.len - 1, piece),
            len    |-> len,
            status |-> IF len >= DocumentSize + 1 THEN "XmlDocumentTooLarge" ELSE "OK"]

\* The macro append, which returns from its function when the buffer is full.
append(doc, piece) ==
  LET len == doc.len + Len(piece)
  IN  IF doc.status # "OK" THEN doc
      ELSE [text   |-> Snprintf(doc.text, doc.len, DocumentSize - doc.len - 1, piece),
            len    |-> len,
            status |-> IF len >= DocumentSize THEN "XmlDocumentTooLarge" ELSE "OK"]

\* Of the document that is then sent, len bytes, the last may be the null.
generateXmlDocument(subject, heads, grants) ==
  LET pieces == Pieces(subject, "libs3", heads, grants)
      doc[n \in 0 .. Len(pieces)] ==
        IF n = 0 THEN [text |-> <<>>, len |-> 0, status |-> "OK"]
        ELSE append(doc[n - 1], pieces[n])
  IN  doc[Len(pieces)]

Sent(doc) ==
  [i \in 1 .. doc.len |-> IF i \in DOMAIN doc.text THEN doc.text[i]
                          ELSE [tag |-> "char", what |-> Null]]

-----------------------------------------------------------------------------
(* Reading.  The ConvertAclData or ConvertBlsData is a record.             *)

Fields == {"emailAddress", "userId", "userDisplayName", "groupUri", "permission"}

NoFields == [f \in Fields |-> Empty]

convert_initialize == [heads |-> <<Empty, Empty>>, fields |-> NoFields, grants |-> <<>>]

GrantPath(subject) ==
  IF subject = "acl" THEN <<"AccessControlPolicy", "AccessControlList", "Grant">>
  ELSE <<"BucketLoggingStatus", "LoggingEnabled", "TargetGrants", "Grant">>

HeadPaths(subject) ==
  IF subject = "acl"
  THEN <<<<"AccessControlPolicy", "Owner", "ID">>,
         <<"AccessControlPolicy", "Owner", "DisplayName">>>>
  ELSE <<<<"BucketLoggingStatus", "LoggingEnabled", "TargetBucket">>,
         <<"BucketLoggingStatus", "LoggingEnabled", "TargetPrefix">>>>

\* convert_bls looks for the ID where an ACL has it.
FieldPath(subject, field) ==
  CASE field = "emailAddress"    -> GrantPath(subject) \o <<"Grantee", "EmailAddress">>
    [] field = "userId"          -> GrantPath("acl") \o <<"Grantee", "ID">>
    [] field = "userDisplayName" -> GrantPath(subject) \o <<"Grantee", "DisplayName">>
    [] field = "groupUri"        -> GrantPath(subject) \o <<"Grantee", "URI">>
    [] field = "permission"      -> GrantPath(subject) \o <<"Permission">>

TooLong(subject, n) ==
  IF subject = "acl" THEN <<"UserIdTooLong", "UserDisplayNameTooLong">>[n]
  ELSE <<"TargetBucketTooLong", "TargetPrefixTooLong">>[n]

FieldTooLong ==
  [emailAddress |-> "EmailAddressTooLong", userId |-> "UserIdTooLong",
   userDisplayName |-> "UserDisplayNameTooLong", groupUri |-> "GroupUriTooLong",
   permission |-> "PermissionTooLong"]

\* Mutant of HeadText: each piece is checked by itself.
HeadTextOfPiece(subject, data, n, str) ==
  LET head  == data.heads[n]
      added == [text |-> Snprintf(head.text, head.len, GranteeSize - head.len - 1, str),
                len  |-> head.len + Len(str)]
  IN  [status |-> IF Len(str) >= GranteeSize THEN TooLong(subject, n) ELSE "OK",
       data   |-> [data EXCEPT !.heads[n] = added]]

\* A piece of a head's text, put into an array of the caller's.
HeadText(subject, data, n, str) ==
  LET head  == data.heads[n]
      added == [text |-> Snprintf(head.text, head.len, GranteeSize - head.len - 1, str),
                len  |-> head.len + Len(str)]
  IN  [status |-> IF added.len >= GranteeSize THEN TooLong(subject, n) ELSE "OK",
       data   |-> [data EXCEPT !.heads[n] = added]]

FieldText(data, field, str) ==
  LET fits == data.fields[field].len + Len(str) <= GranteeSize
  IN  [status |-> IF fits THEN "OK" ELSE FieldTooLong[field],
       data   |-> [data EXCEPT !.fields[field] = string_buffer_append(@, GranteeSize, str)]]

Unread(data) == [status |-> "OK", data |-> data]

\* The callback with a piece of an element's text.
convertXmlText(subject, data, path, str) ==
  IF \E n \in 1 .. 2 : path = HeadPaths(subject)[n]
  THEN HeadText(subject, data, CHOOSE n \in 1 .. 2 : path = HeadPaths(subject)[n], str)
  ELSE IF \E f \in Fields : path = FieldPath(subject, f)
  THEN FieldText(data, CHOOSE f \in Fields : path = FieldPath(subject, f), str)
  ELSE Unread(data)

\* The groups whose URIs the reader knows.
Groups(subject) ==
  {"AllAwsUsers", "AllUsers"} \cup IF subject = "acl" THEN {"LogDelivery"} ELSE {}

\* The grant the texts say, none if the grantee is not known.
GrantRead(subject, fields) ==
  LET text(f)    == fields[f].text
      permission == IF Len(text("permission")) = 1 THEN text("permission")[1] ELSE "none"
  IN  IF text("emailAddress") # <<>>
      THEN {Grant("AmazonCustomerByEmail", text("emailAddress"), <<>>, permission)}
      ELSE IF text("userId") # <<>> /\ text("userDisplayName") # <<>>
      THEN {Grant("CanonicalUser", text("userId"), text("userDisplayName"), permission)}
      ELSE {Grant(g, <<>>, <<>>, permission) :
              g \in {h \in Groups(subject) : text("groupUri") = <<h>>}}

\* Mutant of AddGrant: the texts are not cleared for the next grant.
AddGrantKeepsTexts(data, grant) == [data EXCEPT !.grants = Append(@, grant)]

AddGrant(data, grant) ==
  [heads |-> data.heads, fields |-> NoFields, grants |-> Append(data.grants, grant)]

\* The callback at the end of an element.
convertXmlEnd(subject, data, path) ==
  LET read == GrantRead(subject, data.fields)
  IN  IF path # GrantPath(subject) THEN Unread(data)
      ELSE IF Len(data.grants) = S3_MAX_ACL_GRANT_COUNT
      THEN [status |-> "TooManyGrants", data |-> data]
      ELSE IF read = {} THEN [status |-> "BadGrantee", data |-> data]
      ELSE IF \E g \in read : g.permission \notin Permissions
      THEN [status |-> "BadPermission", data |-> data]
      ELSE Unread(AddGrant(data, CHOOSE g \in read : TRUE))
=============================================================================
