--------------------------- MODULE DocumentReader ---------------------------
(***************************************************************************)
(* Reading an ACL or a logging configuration unit by unit: the SAX front   *)
(* end and convertXml with texts as long as they need be and characters    *)
(* that come one at a time.  What libs3 makes of a document is what this   *)
(* reader does, however libxml2 cuts the texts; and what a whole document  *)
(* comes to can be said of the reader element by element.                  *)
(***************************************************************************)
EXTENDS Documents

\* Where texts are put: the two heads and the fields of a grant.
Places == {"head1", "head2"} \cup Fields

PlacePath(s, place) ==
  CASE place = "head1" -> HeadPaths(s)[1]
    [] place = "head2" -> HeadPaths(s)[2]
    [] OTHER -> FieldPath(s, place)

\* The longest text of a place that is not refused.
Longest(place) == IF place \in Fields THEN GranteeSize ELSE GranteeSize - 1

Reader(path, texts, taken, outcome) ==
  [path |-> path, texts |-> texts, grants |-> taken, status |-> outcome]

NoTexts == [p \in Places |-> <<>>]

Fresh == Reader(<<>>, NoTexts, <<>>, "OK")

Failed(r) == Reader(r.path, r.texts, r.grants, "failed")

TextAdded(texts, place, str) ==
  [p \in Places |-> IF p = place THEN texts[p] \o str ELSE texts[p]]

Cleared(texts) == [p \in Places |-> IF p \in Fields THEN <<>> ELSE texts[p]]

TooDeep(path) == (IF path = <<>> THEN 0 ELSE 2 * Len(path) - 1) + 2 >= PathSize

-----------------------------------------------------------------------------
(* What libs3 has in its buffers when these are the texts.                 *)

HeadHeld(t) == [text |-> Cut(t, GranteeSize - 2), len |-> Len(t)]

FieldsHeld(texts) ==
  [f \in Fields |-> [text |-> Cut(texts[f], Held(GranteeSize)), len |-> Len(texts[f])]]

ConvertData(head1, head2, fields, gs) ==
  [heads |-> <<head1, head2>>, fields |-> fields, grants |-> gs]

DataOf(texts, gs) ==
  ConvertData(HeadHeld(texts["head1"]), HeadHeld(texts["head2"]), FieldsHeld(texts), gs)

-----------------------------------------------------------------------------
AfterStart(r, name) ==
  IF TooDeep(r.path) THEN Failed(r)
  ELSE Reader(Append(r.path, name), r.texts, r.grants, "OK")

AfterSign(s, r, sign) ==
  IF ~\E place \in Places : r.path = PlacePath(s, place) THEN r
  ELSE LET place == CHOOSE p \in Places : r.path = PlacePath(s, p)
       IN  IF Len(r.texts[place]) + 1 <= Longest(place)
           THEN Reader(r.path, TextAdded(r.texts, place, <<sign>>), r.grants, "OK")
           ELSE Failed(r)

AfterGrant(s, r) ==
  LET read == GrantRead(s, FieldsHeld(r.texts))
  IN  IF \/ Len(r.grants) = S3_MAX_ACL_GRANT_COUNT
         \/ read = {}
         \/ \E g \in read : g.permission \notin Permissions
      THEN Failed(r)
      ELSE Reader(Front(r.path), Cleared(r.texts), Append(r.grants, CHOOSE g \in read : TRUE), "OK")

AfterUnit(s, r, unit) ==
  IF r.status # "OK" THEN r
  ELSE CASE unit.tag = "start" -> AfterStart(r, unit.what)
         [] unit.tag = "char"  -> AfterSign(s, r, unit.what)
         [] OTHER -> IF r.path = GrantPath(s) THEN AfterGrant(s, r)
                     ELSE Reader(Front(r.path), r.texts, r.grants, "OK")

\* The reader after the first n units of the document.
ReaderAfter(n) ==
  LET after[i \in 0 .. n] ==
        IF i = 0 THEN Fresh ELSE AfterUnit(subject, after[i - 1], document[i])
  IN  after[n]

(* What the parser has made of a document so far, its path, what its       *)
(* buffers hold, the grants and whether it has failed, depends on the      *)
(* document alone and not on the pieces libxml2 has cut the texts into.    *)
PiecesMakeNoDifference ==
  subject # "error" /\ pc = "parse" =>
    LET r == ReaderAfter(position)
    IN  IF status # "OK" THEN r.status # "OK"
        ELSE r.status = "OK" /\ r.path = elementPath /\ data = DataOf(r.texts, r.grants)
=============================================================================
