---------------------------- MODULE ErrorParser ----------------------------
(***************************************************************************)
(* What src/src/error_parser.c collects from an S3 error document: the     *)
(* texts of the elements it knows, and names and values of all others as   *)
(* extra details.  An ErrorParser is a record; errorXmlCallback gives the  *)
(* one after a callback of the XML parser.                                 *)
(***************************************************************************)
EXTENDS StringBuffer

CONSTANTS
  EXTRA_DETAILS_SIZE,     \* elements of extraDetails
  SizeofDetail,        \* sizeof(S3NameValue)
  DetailsBufferSize,      \* size of extraDetailsNamesValues
  MessageSize             \* size of the buffers of the known elements

ASSUME ErrorParserAssumption ==
  /\ EXTRA_DETAILS_SIZE \in Nat \ {0} /\ SizeofDetail \in Nat \ {0}
  /\ DetailsBufferSize \in Nat \ {0} /\ MessageSize \in Nat \ {0}

Known == {"Code", "Message", "Resource", "FurtherDetails"}

error_parser_initialize ==
  [known        |-> [k \in Known |-> Empty],
   extraDetails |-> <<>>,    \* places of the names and values
   namesValues  |-> Multibuffer(DetailsBufferSize)]

\* An element's path below Error, as text.
ElementName(path) ==
  [i \in 1 .. 2 * Len(path) - 3 |-> IF i % 2 = 0 THEN "/" ELSE path[(i + 3) \div 2]]

IsDetail(path) == Len(path) > 1 /\ path[1] = "Error" /\ path \notin {<<"Error", k>> : k \in Known}

\* The memory behind extraDetails is extraDetailsNamesValues: a detail stored
\* behind the array's end writes two pointers over what is there.
StoredBehind(smb, n) ==
  LET at == 2 * (n - EXTRA_DETAILS_SIZE - 1)
  IN  IF n <= EXTRA_DETAILS_SIZE THEN smb
      ELSE [smb EXCEPT !.memory =
              [p \in DOMAIN @ |-> IF p \in {at, at + 1} THEN "pointer" ELSE @[p]]]

\* A new detail, if name and value fit: what does not is left in the buffer.
AddDetail(ep, name, data) ==
  LET named  == string_multibuffer_add(ep.namesValues, name)
      valued == string_multibuffer_add(named, data)
  IN  IF ~AllFit(ep.namesValues, name)
      THEN [ep EXCEPT !.namesValues = named]
      ELSE IF ~AllFit(named, data)
      THEN [ep EXCEPT !.namesValues = valued]
      ELSE [ep EXCEPT
              !.namesValues = StoredBehind(valued, Len(ep.extraDetails) + 1),
              !.extraDetails = Append(@, [name  |-> ep.namesValues.size,
                                          value |-> named.size])]

\* Another piece of the last detail's value, which is removed if it does not fit.
AppendToDetail(ep, data) ==
  [ep EXCEPT
     !.namesValues = string_multibuffer_append(@, data),
     !.extraDetails = IF AllFit(LastReopened(ep.namesValues), data) THEN @ ELSE Front(@)]

\* Mutant of ContinuesLast: the name is looked for among all details.
ContinuesAny(ep, name) ==
  \E i \in DOMAIN ep.extraDetails :
    StringAt(ep.namesValues, ep.extraDetails[i].name) = name

ContinuesLast(ep, name) ==
  /\ ep.extraDetails # <<>>
  /\ StringAt(ep.namesValues, Last(ep.extraDetails).name) = name

\* The count is compared with the size of the array in bytes.
DetailsFull(ep) == Len(ep.extraDetails) = EXTRA_DETAILS_SIZE * SizeofDetail

\* A piece of an element's text.  Elements outside Error are ignored.
errorXmlCallback(ep, path, data) ==
  IF Len(path) = 2 /\ path[1] = "Error" /\ path[2] \in Known
  THEN [ep EXCEPT !.known[path[2]] = string_buffer_append(@, MessageSize, data)]
  ELSE IF ~IsDetail(path) THEN ep
  ELSE IF ContinuesLast(ep, ElementName(path)) THEN AppendToDetail(ep, data)
  ELSE IF DetailsFull(ep) THEN ep
  ELSE AddDetail(ep, ElementName(path), data)

\* The extra details as S3ErrorDetails gives them to the user's callback.
ExtraDetails(ep) ==
  [i \in DOMAIN ep.extraDetails |->
     [name  |-> StringAt(ep.namesValues, ep.extraDetails[i].name),
      value |-> StringAt(ep.namesValues, ep.extraDetails[i].value)]]
=============================================================================
