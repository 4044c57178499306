------------------------------ MODULE Listing ------------------------------
(***************************************************************************)
(* The three listing operations that report their result in batches: list  *)
(* bucket (src/src/bucket.c), list multipart uploads and list parts        *)
(* (src/src/multipart.c).  Their XML callbacks are one algorithm, with the *)
(* differences that listing selects.                                       *)
(*                                                                         *)
(* The XML parser calls back for each piece of an element's text and at    *)
(* its end.  Items (Contents, Upload, Part) and common prefixes are        *)
(* collected in two arrays; when either is full both are passed to the     *)
(* user's callback and emptied; what is left at the end is passed on by    *)
(* the complete callback.                                                  *)
(*                                                                         *)
(* The server's document is the environment: its elements arrive one after *)
(* the other, their texts cut into pieces anywhere, and the transfer may   *)
(* stop at any point.  One text field stands for the fields of an item;    *)
(* the characters of an element are <<element, position>>, so that a text  *)
(* says where its characters come from.                                    *)
(***************************************************************************)
EXTENDS StringBuffer

CONSTANTS
  Listings,              \* which of "bucket", "uploads" and "parts"
  MAX_ITEMS,             \* MAX_CONTENTS, MAX_UPLOADS or MAX_PARTS
  MAX_COMMON_PREFIXES,
  ItemSize,              \* size of the string_buffer of an item's field
  PrefixSize,            \* size of the char array of a common prefix
  PieceLengths,          \* lengths of the pieces the parser passes on
  MaxText,               \* bound: length of an element's text
  MaxElements,           \* bound: elements of the document
  CallbackStatuses       \* statuses the user's callback may return

ASSUME ListingAssumption ==
  /\ Listings \subseteq {"bucket", "uploads", "parts"}
  /\ MAX_ITEMS \in Nat \ {0} /\ MAX_COMMON_PREFIXES \in Nat \ {0}
  /\ ItemSize \in Nat \ {0} /\ PrefixSize \in Nat \ {0, 1}
  /\ PieceLengths \subseteq Nat \ {0}
  /\ MaxText \in Nat /\ MaxElements \in Nat
  /\ "OK" \in CallbackStatuses

VARIABLES
  listing,              \* the operation, one of Listings
  status,               \* SimpleXml.status
  open,                 \* the element the parser is in, "none" between two
  received,             \* length of its text so far
  items,                \* contents, uploads or parts
  itemsCount,
  commonPrefixes,       \* with commonPrefixLens
  commonPrefixesCount,
  handlePartsStart,
  completed,            \* the complete callback was made
  closed,               \* history: the closed elements of each kind
  reported,             \* history: what the user's callback was passed
  refused,              \* history: the user's callback refused a batch
  firsts                \* history: the start of each call, with the number of
                        \* items reported before it

vars == <<listing, status, open, received, items, itemsCount, commonPrefixes,
          commonPrefixesCount, handlePartsStart, completed, closed, reported, refused,
          firsts>>

arrays == <<items, itemsCount, commonPrefixes, commonPrefixesCount, handlePartsStart>>
calls  == <<reported, refused, firsts>>

Kinds == IF listing = "parts" THEN {"item"} ELSE {"item", "prefix"}

\* Characters from .. to of the n-th element of the document.
Chars(n, from, to) == [i \in 1 .. to - from + 1 |-> <<n, from + i - 1>>]

\* The number of the element the parser is in, or comes to next.
Current == Len(closed.item) + Len(closed.prefix) + 1

Init ==
  /\ listing \in Listings
  /\ status = "OK"
  /\ open = "none" /\ received = 0
  /\ items = [i \in 0 .. MAX_ITEMS - 1 |-> Empty]
  /\ itemsCount = 0
  /\ commonPrefixes = [i \in 0 .. MAX_COMMON_PREFIXES - 1 |-> Empty]
  /\ commonPrefixesCount = 0
  /\ handlePartsStart = 0
  /\ completed = FALSE
  /\ closed = [item |-> <<>>, prefix |-> <<>>]
  /\ reported = [items |-> <<>>, prefixes |-> <<>>]
  /\ refused = FALSE /\ firsts = {}

-----------------------------------------------------------------------------
(* The parser.  Once a callback has returned an error it makes no further  *)
(* one, and request.c gives it no more data.                               *)

Parsing == status = "OK" /\ ~completed

StartElement(kind) ==
  /\ Parsing /\ open = "none" /\ Current <= MaxElements
  /\ open' = kind
  /\ received' = 0
  /\ UNCHANGED <<listing, status, arrays, completed, closed, calls>>

\* The text of an item is appended to a string_buffer; what does not fit is
\* dropped.
ItemText(n) ==
  /\ Parsing /\ open = "item" /\ received + n <= MaxText
  /\ received' = received + n
  /\ items' = [items EXCEPT ![itemsCount] =
       string_buffer_append(@, ItemSize, Chars(Current, received + 1, received + n))]
  /\ UNCHANGED <<listing, status, open, itemsCount, commonPrefixes,
                 commonPrefixesCount, handlePartsStart, completed, closed, calls>>

\* What a prefix's piece makes of the prefix: list bucket writes it after
\* what is there, list multipart uploads over it.
AddToPrefix(prefix, str) ==
  LET at == IF listing = "bucket" THEN prefix.len ELSE 0
  IN  [text |-> Snprintf(prefix.text, at, PrefixSize - prefix.len - 1, str),
       len  |-> prefix.len + Len(str)]

PrefixText(n) ==
  /\ Parsing /\ open = "prefix" /\ received + n <= MaxText
  /\ received' = received + n
  /\ commonPrefixes' = [commonPrefixes EXCEPT ![commonPrefixesCount] =
       AddToPrefix(@, Chars(Current, received + 1, received + n))]
  /\ status' = IF commonPrefixes'[commonPrefixesCount].len >= PrefixSize
               THEN "XmlParseFailure" ELSE "OK"
  /\ UNCHANGED <<listing, open, items, itemsCount, commonPrefixesCount,
                 handlePartsStart, completed, closed, calls>>

-----------------------------------------------------------------------------
(* The batches *)

FirstTexts(array, count) == [i \in 1 .. count |-> array[i - 1].text]

\* make_list_bucket_callback, make_list_multipart_callback and
\* make_list_parts_callback: a batch is passed to the user's callback.
Report(itemCount, prefixCount) ==
  /\ reported' = [items    |-> reported.items \o FirstTexts(items, itemCount),
                  prefixes |-> reported.prefixes \o FirstTexts(commonPrefixes, prefixCount)]
  /\ firsts' = firsts \cup {[start |-> handlePartsStart, before |-> Len(reported.items)]}

\* Mutant of InitializeData: the count of the prefixes is not reset.
InitializeKeepsPrefixes ==
  /\ itemsCount' = 0
  /\ items' = [items EXCEPT ![0] = Empty]
  /\ commonPrefixesCount' = commonPrefixesCount + IF open = "prefix" THEN 1 ELSE 0
  /\ UNCHANGED commonPrefixes

\* initialize_list_bucket_data, initialize_list_multipart_data and
\* initialize_list_parts_data.
InitializeData ==
  /\ itemsCount' = 0
  /\ items' = [items EXCEPT ![0] = Empty]
  /\ commonPrefixesCount' = 0
  /\ commonPrefixes' = [commonPrefixes EXCEPT ![0] = Empty]

CloseElement(kind) ==
  /\ Parsing /\ open = kind
  /\ open' = "none"
  /\ closed' = [closed EXCEPT ![kind] = Append(@, [number |-> Current, length |-> received])]
  /\ received' = 0
  /\ UNCHANGED <<listing, completed>>

\* Mutant of NextItem: the next place is not initialized.
NextItemStale ==
  /\ CloseElement("item")
  /\ itemsCount + 1 # MAX_ITEMS
  /\ itemsCount' = itemsCount + 1
  /\ UNCHANGED <<status, items, commonPrefixes, commonPrefixesCount, handlePartsStart,
                 calls>>

\* The array is not full: the next place is initialized.
NextItem ==
  /\ CloseElement("item")
  /\ itemsCount + 1 # MAX_ITEMS
  /\ itemsCount' = itemsCount + 1
  /\ items' = [items EXCEPT ![itemsCount + 1] = Empty]
  /\ UNCHANGED <<status, commonPrefixes, commonPrefixesCount, handlePartsStart, calls>>

NextPrefix ==
  /\ CloseElement("prefix")
  /\ commonPrefixesCount + 1 # MAX_COMMON_PREFIXES
  /\ commonPrefixesCount' = commonPrefixesCount + 1
  /\ commonPrefixes' = [commonPrefixes EXCEPT ![commonPrefixesCount + 1] = Empty]
  /\ UNCHANGED <<status, items, itemsCount, handlePartsStart, calls>>

\* Mutant of Accept: `handlePartsStart += partsCount` is missing.
AcceptKeepsStart(itemCount, prefixCount) ==
  /\ Report(itemCount, prefixCount)
  /\ InitializeData
  /\ UNCHANGED <<status, refused, handlePartsStart>>

\* The user's callback, which accepts the batch ...
Accept(itemCount, prefixCount) ==
  /\ Report(itemCount, prefixCount)
  /\ handlePartsStart' = handlePartsStart + IF listing = "parts" THEN itemCount ELSE 0
  /\ InitializeData
  /\ UNCHANGED <<status, refused>>

\* ... or refuses it: the counts stay as they are.
Refuse(itemCount, prefixCount) ==
  /\ status' \in CallbackStatuses \ {"OK"}
  /\ refused' = TRUE
  /\ Report(itemCount, prefixCount)
  /\ itemsCount' = itemCount
  /\ commonPrefixesCount' = prefixCount
  /\ UNCHANGED <<items, commonPrefixes, handlePartsStart>>

LastItem ==
  /\ CloseElement("item")
  /\ itemsCount + 1 = MAX_ITEMS
  /\ \/ Accept(itemsCount + 1, commonPrefixesCount)
     \/ Refuse(itemsCount + 1, commonPrefixesCount)

LastPrefix ==
  /\ CloseElement("prefix")
  /\ commonPrefixesCount + 1 = MAX_COMMON_PREFIXES
  /\ \/ Accept(itemsCount, commonPrefixesCount + 1)
     \/ Refuse(itemsCount, commonPrefixesCount + 1)

\* The request ends, with all of the document or some of it received or
\* refused: what is in the arrays is passed on, whatever the callback says.
CompleteCallback ==
  /\ ~completed
  /\ completed' = TRUE
  /\ IF itemsCount # 0 \/ commonPrefixesCount # 0
     THEN Report(itemsCount, commonPrefixesCount) /\ UNCHANGED refused
     ELSE UNCHANGED calls
  /\ UNCHANGED <<listing, status, open, received, arrays, closed>>

Finished == completed /\ UNCHANGED vars

Next ==
  \/ \E kind \in Kinds : StartElement(kind)
  \/ \E n \in PieceLengths : ItemText(n) \/ PrefixText(n)
  \/ NextItem \/ NextPrefix \/ LastItem \/ LastPrefix
  \/ CompleteCallback
  \/ Finished

Spec == Init /\ [][Next]_vars

-----------------------------------------------------------------------------
(* While the parser goes on there is a free place in both arrays: a text   *)
(* is never written behind their ends, though the counts can reach them.   *)
PlaceForNext ==
  Parsing => itemsCount < MAX_ITEMS /\ commonPrefixesCount < MAX_COMMON_PREFIXES

Waiting(array, count) == IF completed THEN <<>> ELSE FirstTexts(array, count)

\* The texts of elements, each cut to what there is room for.
Expected(elements, room) ==
  [i \in DOMAIN elements |->
     Chars(elements[i].number, 1, Shorter(elements[i].length, room))]

(* Each item is reported with its own text, cut to what its buffer holds,  *)
(* in the document's order and once: what was reported and what waits in   *)
(* the array are the closed items, unless the callback refused a batch.    *)
(* The same holds for the common prefixes, whose pieces are put together   *)
(* without a string_buffer.  Those of list multipart uploads, where each   *)
(* piece is written over the one before, have no character of another      *)
(* element, left in a place of the array that was used before.             *)
EntriesInOrder ==
  ~refused =>
    LET prefixes == reported.prefixes \o Waiting(commonPrefixes, commonPrefixesCount)
    IN  /\ reported.items \o Waiting(items, itemsCount) = Expected(closed.item, Held(ItemSize))
        /\ Len(prefixes) = Len(closed.prefix)
        /\ listing = "bucket" => prefixes = Expected(closed.prefix, PrefixSize - 2)
        /\ \A i \in DOMAIN prefixes :
             \A c \in ToSet(prefixes[i]) : c[1] = closed.prefix[i].number

(* The number that goes with a batch of parts is that of the parts         *)
(* reported before it; s3.c stores the parts' ETags by it.                 *)
StartCountsReported ==
  listing = "parts" /\ status = "OK" =>
    \A call \in firsts : call.start = call.before
=============================================================================
