-------------------------- MODULE ResponseHeaders --------------------------
(***************************************************************************)
(* What src/src/response_headers_handler.c collects from the headers of a  *)
(* response.  A ResponseHeadersHandler is a record; its strings are kept   *)
(* in two string_multibuffers and referred to by their places.             *)
(*                                                                         *)
(* A header is a name and a value without the blanks around it.  The names *)
(* of S3's headers are none of them the beginning of another one's, so     *)
(* that comparing their beginnings is comparing them.                      *)
(***************************************************************************)
EXTENDS StringBuffer

CONSTANTS
  S3_MAX_METADATA_COUNT,    \* elements of responseMetaData
  SizeofNameValue,          \* sizeof(S3NameValue)
  PropertyStringsSize,      \* size of responsePropertyStrings
  MetaDataStringsSize       \* size of responseMetaDataStrings

ASSUME ResponseHeadersAssumption ==
  /\ S3_MAX_METADATA_COUNT \in Nat /\ SizeofNameValue \in Nat \ {0}
  /\ PropertyStringsSize \in Nat \ {0, 1} /\ MetaDataStringsSize \in Nat \ {0}

StringProperties == {"x-amz-request-id", "x-amz-id-2", "content-type", "server", "etag"}

MetaNames == {"x-amz-meta-a", "x-amz-meta-b"}

response_headers_handler_initialize ==
  [properties              |-> [name \in {} |-> 0],
   contentLength           |-> 0,
   usesServerSideEncryption |-> FALSE,
   propertyStrings         |-> Multibuffer(PropertyStringsSize),
   metaData                |-> <<>>,
   metaDataStrings         |-> Multibuffer(MetaDataStringsSize),
   done                    |-> FALSE]

AddProperty(handler, name, value) ==
  [handler EXCEPT !.properties =
                    [n \in DOMAIN @ \cup {name} |->
                       IF n = name THEN handler.propertyStrings.size ELSE @[n]],
                  !.propertyStrings = string_multibuffer_add(@, value)]

Digits == <<"0", "1", "2", "3", "4", "5", "6", "7", "8", "9">>

\* What is in the value is taken for digits.
Number(value) ==
  FoldLeft(LAMBDA n, d : 10 * n + SelectInSeq(Digits, LAMBDA c : c = d) - 1, 0, value)

\* Mutant of MetaDataFits: whether the value fitted is not looked at.
MetaDataFitsByName(strings, name, value) == AllFit(strings, name)

MetaDataFits(strings, name, value) ==
  /\ AllFit(strings, name)
  /\ AllFit(string_multibuffer_add(strings, name), value)

\* The count is compared with the size of the array in bytes.
MetaDataFull(handler) == Len(handler.metaData) = S3_MAX_METADATA_COUNT * SizeofNameValue

\* What does not fit is left in the strings; without its name no value is added.
AddMetaData(handler, name, value) ==
  LET strings == handler.metaDataStrings
      named   == string_multibuffer_add(strings, name)
      valued  == IF AllFit(strings, name) THEN string_multibuffer_add(named, value)
                 ELSE named
  IN  IF MetaDataFull(handler) THEN handler
      ELSE [handler EXCEPT
              !.metaDataStrings = valued,
              !.metaData = IF MetaDataFits(strings, name, value)
                           THEN Append(@, [name |-> strings.size, value |-> named.size])
                           ELSE @]

\* Mutant of Ignored: headers that come behind the data are taken, too.
IgnoredWhenFull(handler) ==
  handler.propertyStrings.size = PropertyStringsSize - 1

\* One place before the end of the strings; what is behind it is not tested.
Ignored(handler) ==
  handler.done \/ handler.propertyStrings.size = PropertyStringsSize - 1

response_headers_handler_add(handler, header) ==
  LET name == header.name
      value == header.value
  IN  IF Ignored(handler) THEN handler
      ELSE IF name \in StringProperties THEN AddProperty(handler, name, value)
      ELSE IF name = "content-length"
      THEN [handler EXCEPT !.contentLength = Number(value)]
      ELSE IF name \in MetaNames THEN AddMetaData(handler, <<name>>, value)
      ELSE IF name = "x-amz-server-side-encryption" /\ value = <<"AES256">>
      THEN [handler EXCEPT !.usesServerSideEncryption = TRUE]
      ELSE handler

response_headers_handler_done(handler) == [handler EXCEPT !.done = TRUE]

-----------------------------------------------------------------------------
(* The S3ResponseProperties as the properties callback reads them.         *)

\* A string that starts behind the array can be anything.
Behind == "behind"

StringIn(strings, at) == IF at = SizeOf(strings) THEN <<Behind>> ELSE StringAt(strings, at)

Property(handler, name) ==
  IF name \notin DOMAIN handler.properties THEN <<>>
  ELSE StringIn(handler.propertyStrings, handler.properties[name])

MetaData(handler) ==
  [i \in DOMAIN handler.metaData |->
     [name  |-> StringIn(handler.metaDataStrings, handler.metaData[i].name)[1],
      value |-> StringIn(handler.metaDataStrings, handler.metaData[i].value)]]
=============================================================================
