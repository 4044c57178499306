--------------------------- MODULE ListingProofs ---------------------------
(***************************************************************************)
(* The safety properties of Listing, for documents with any number of      *)
(* elements, texts of any length in any pieces, and arrays and buffers of  *)
(* any size.                                                               *)
(***************************************************************************)
EXTENDS Listing, SequenceTheorems, TLAPS

-----------------------------------------------------------------------------
(* The inductive invariant                                                 *)

Texts    == Seq(Nat \X Nat)
Strings  == [text : Texts, len : Nat]
Elements == [number : Nat, length : Nat]

TypeOK ==
  /\ listing \in Listings
  /\ open \in {"none", "item", "prefix"} /\ received \in Nat
  /\ items \in [0 .. MAX_ITEMS - 1 -> Strings] /\ itemsCount \in 0 .. MAX_ITEMS
  /\ commonPrefixes \in [0 .. MAX_COMMON_PREFIXES - 1 -> Strings]
  /\ commonPrefixesCount \in 0 .. MAX_COMMON_PREFIXES
  /\ handlePartsStart \in Nat
  /\ completed \in BOOLEAN /\ refused \in BOOLEAN
  /\ closed \in [item : Seq(Elements), prefix : Seq(Elements)]
  /\ reported \in [items : Seq(Texts), prefixes : Seq(Texts)]

\* An item, and a prefix, of whose text the first r characters arrived.
ItemSoFar(n, r) ==
  [text |-> Chars(n, 1, Shorter(r, Held(ItemSize))), len |-> Shorter(r, ItemSize)]

PrefixSoFar(prefix, n, r) ==
  /\ prefix \in Strings /\ prefix.len = r
  /\ listing = "bucket" => prefix.text = Chars(n, 1, Shorter(r, PrefixSize - 2))
  /\ \A c \in ToSet(prefix.text) : c[1] = n

\* The next place of each array has the text that is being received, or none.
ItemInPlace ==
  items[itemsCount] = IF open = "item" THEN ItemSoFar(Current, received) ELSE Empty

PrefixInPlace ==
  IF open = "prefix"
  THEN PrefixSoFar(commonPrefixes[commonPrefixesCount], Current, received)
       /\ received < PrefixSize
  ELSE commonPrefixes[commonPrefixesCount] = Empty

\* While the parser goes on no batch was refused, and the parts reported were
\* counted.
StartIsCounted ==
  listing = "parts" /\ status = "OK" /\ ~completed => handlePartsStart = Len(reported.items)

\* The two halves of EntriesInOrder.
ItemsInOrder ==
  ~refused =>
    reported.items \o Waiting(items, itemsCount) = Expected(closed.item, Held(ItemSize))

PrefixesRight(prefixes, elements) ==
  /\ Len(prefixes) = Len(elements)
  /\ listing = "bucket" => prefixes = Expected(elements, PrefixSize - 2)
  /\ \A i \in DOMAIN prefixes : \A c \in ToSet(prefixes[i]) : c[1] = elements[i].number

PrefixesInOrder ==
  ~refused =>
    PrefixesRight(reported.prefixes \o Waiting(commonPrefixes, commonPrefixesCount),
                  closed.prefix)

IInv ==
  /\ TypeOK
  /\ status = "OK" => ~refused
  /\ PlaceForNext
  /\ Parsing => ItemInPlace /\ PrefixInPlace
  /\ ItemsInOrder /\ PrefixesInOrder
  /\ StartIsCounted /\ StartCountsReported

-----------------------------------------------------------------------------
(* Sequences                                                               *)

LEMMA AppendToEnd ==
  ASSUME NEW s \in Seq(Texts), NEW t \in Seq(Texts), NEW e \in Texts
  PROVE  s \o Append(t, e) = Append(s \o t, e)
BY SMTT(30)

\* Characters of one element, put behind each other.
LEMMA CharsFacts ==
  ASSUME NEW n \in Nat, NEW k \in Nat
  PROVE  /\ Chars(n, 1, k) \in Texts /\ Len(Chars(n, 1, k)) = k
         /\ \A c \in ToSet(Chars(n, 1, k)) : c[1] = n
         /\ Chars(n, 1, 0) = <<>>
<1>1. Chars(n, 1, k) = [i \in 1 .. k |-> <<n, 1 + i - 1>>]
  BY DEF Chars
<1>2. \A i \in 1 .. k : <<n, 1 + i - 1>> \in Nat \X Nat
  OBVIOUS
<1>3. Chars(n, 1, k) \in Texts /\ Len(Chars(n, 1, k)) = k
  BY <1>1, <1>2 DEF Texts
<1>4. \A c \in ToSet(Chars(n, 1, k)) : c[1] = n
  BY <1>1 DEF ToSet
<1>5. Chars(n, 1, 0) = <<>>
  <2>1. Chars(n, 1, 0) = [i \in 1 .. 0 |-> <<n, 1 + i - 1>>]
    BY DEF Chars
  <2> QED
    BY <2>1
<1> QED
  BY <1>3, <1>4, <1>5

LEMMA PieceLength ==
  ASSUME NEW n \in Nat, NEW r \in Nat, NEW k \in Nat
  PROVE  /\ Chars(n, r + 1, r + k) \in Texts /\ Len(Chars(n, r + 1, r + k)) = k
         /\ \A i \in 1 .. k : Chars(n, r + 1, r + k)[i] = <<n, r + i>>
<1> DEFINE t == Chars(n, r + 1, r + k)
<1>1. t = [i \in 1 .. k |-> <<n, r + i>>]
  <2>1. r + k - (r + 1) + 1 = k /\ \A i \in 1 .. k : r + 1 + i - 1 = r + i
    OBVIOUS
  <2> QED
    BY <2>1 DEF Chars
<1>2. \A i \in 1 .. k : <<n, r + i>> \in Nat \X Nat
  OBVIOUS
<1> HIDE DEF t
<1>3. t \in Texts /\ Len(t) = k /\ \A i \in 1 .. k : t[i] = <<n, r + i>>
  BY <1>1, <1>2 DEF Texts
<1> QED
  BY <1>3, Zenon DEF t

\* u is m characters of an element, those that follow the first r.
Follows(u, n, r, m) ==
  u \in Texts /\ Len(u) = m /\ \A i \in 1 .. m : u[i] = <<n, r + i>>

LEMMA PieceCut ==
  ASSUME NEW n \in Nat, NEW r \in Nat, NEW k \in Nat, NEW m \in Nat, m <= k
  PROVE  Follows(SubSeq(Chars(n, r + 1, r + k), 1, m), n, r, m)
<1> DEFINE t == Chars(n, r + 1, r + k)
           u == SubSeq(t, 1, m)
<1>1. t \in Seq(Nat \X Nat) /\ Len(t) = k /\ \A i \in 1 .. k : t[i] = <<n, r + i>>
  BY PieceLength, Zenon DEF Texts
<1> HIDE DEF t
<1>2. \A i \in 1 .. m : t[i] \in Nat \X Nat /\ t[i] = <<n, r + i>>
  BY <1>1
<1>3. /\ SubSeq(t, 1, m) \in Seq(Nat \X Nat)
      /\ Len(SubSeq(t, 1, m)) = IF 1 <= m THEN m - 1 + 1 ELSE 0
      /\ \A i \in 1 .. m - 1 + 1 : SubSeq(t, 1, m)[i] = t[1 + i - 1]
  BY <1>2, SubSeqProperties
<1>4. Len(u) = m
  BY <1>3
<1>5. \A i \in 1 .. m : u[i] = t[i]
  BY <1>3
<1>6. u \in Texts /\ Len(u) = m /\ \A i \in 1 .. m : u[i] = <<n, r + i>>
  BY <1>2, <1>3, <1>4, <1>5 DEF Texts
<1> QED
  BY <1>6, Zenon DEF t, Follows

\* What is cut from a piece of an element's text is the element's own.
LEMMA OwnCharacters ==
  ASSUME NEW n \in Nat, NEW r \in Nat, NEW k \in Nat, NEW m \in Nat, m <= k
  PROVE  \A c \in ToSet(SubSeq(Chars(n, r + 1, r + k), 1, m)) : c[1] = n
<1> DEFINE u == SubSeq(Chars(n, r + 1, r + k), 1, m)
<1>1. u \in Seq(Nat \X Nat) /\ Len(u) = m /\ \A i \in 1 .. m : u[i] = <<n, r + i>>
  <2>1. Follows(u, n, r, m)
    BY PieceCut, Zenon
  <2> HIDE DEF u
  <2> QED
    BY <2>1, Zenon DEF Follows, Texts
<1> HIDE DEF u
<1>2. DOMAIN u = 1 .. m
  BY <1>1, LenProperties
<1>3. \A c \in ToSet(u) : c[1] = n
  BY <1>1, <1>2 DEF ToSet
<1> QED
  BY <1>3 DEF u

\* The text so far and what follows.
LEMMA CharsContinued ==
  ASSUME NEW n \in Nat, NEW r \in Nat, NEW m \in Nat, NEW u, Follows(u, n, r, m)
  PROVE  SubSeq(Chars(n, 1, r), 1, r) \o u = Chars(n, 1, r + m)
<1> DEFINE s == Chars(n, 1, r)
<1>3. u \in Texts /\ Len(u) = m /\ \A i \in 1 .. m : u[i] = <<n, r + i>>
  BY Zenon DEF Follows
<1>5. SubSeq(s, 1, r) = s
  <2>1. s \in Seq(Nat \X Nat) /\ Len(s) = r
    BY CharsFacts DEF Texts
  <2> HIDE DEF s
  <2> QED
    BY <2>1
<1>6. s \o u = Chars(n, 1, r + m)
  <2>1. s \in Seq(Nat \X Nat) /\ Len(s) = r /\ u \in Seq(Nat \X Nat) /\ Len(u) = m
    BY <1>3, CharsFacts DEF Texts
  <2>2. /\ Chars(n, 1, r + m) \in Seq(Nat \X Nat) /\ Len(Chars(n, 1, r + m)) = r + m
    <3> DEFINE l == r + m
    <3>1. l \in Nat
      OBVIOUS
    <3> HIDE DEF l
    <3>2. Chars(n, 1, l) \in Texts /\ Len(Chars(n, 1, l)) = l
      BY <3>1, CharsFacts
    <3> QED
      BY <3>2 DEF l, Texts
  <2>3. \A i \in 1 .. r + m : Chars(n, 1, r + m)[i] = <<n, i>>
    BY DEF Chars
  <2>4. \A i \in 1 .. r : s[i] = <<n, i>>
    BY DEF Chars
  <2> HIDE DEF s
  <2>5. s \o u \in Seq(Nat \X Nat) /\ Len(s \o u) = r + m
    BY <2>1, ConcatProperties
  <2>6. ASSUME NEW i \in 1 .. r + m PROVE (s \o u)[i] = <<n, i>>
    <3>1. (s \o u)[i] = IF i <= r THEN s[i] ELSE u[i - r]
      BY <2>1, ConcatProperties
    <3>2. CASE i <= r
      <4>1. i \in 1 .. r
        BY <3>2
      <4> QED
        BY <2>4, <3>1, <3>2, <4>1
    <3>3. CASE i > r
      <4> DEFINE j == i - r
      <4>1. j \in 1 .. m /\ r + j = i /\ ~(i <= r)
        BY <3>3
      <4>2. (s \o u)[i] = u[j]
        BY <3>1, <4>1
      <4> HIDE DEF j
      <4>3. u[j] = <<n, r + j>>
        BY <1>3, <4>1
      <4> QED
        BY <4>1, <4>2, <4>3
    <3>4. i <= r \/ i > r
      OBVIOUS
    <3> QED
      BY <3>2, <3>3, <3>4, Zenon
  <2> QED
    BY <2>2, <2>3, <2>5, <2>6, SeqEqual
<1> QED
  BY <1>5, <1>6

\* What a piece of k characters adds to the r that were received.
Continues(n, r, k) ==
  /\ Len(Chars(n, r + 1, r + k)) = k
  /\ \A m \in Nat : m <= k =>
       /\ SubSeq(Chars(n, r + 1, r + k), 1, m) \in Texts
       /\ \A c \in ToSet(SubSeq(Chars(n, r + 1, r + k), 1, m)) : c[1] = n
       /\ SubSeq(Chars(n, 1, r), 1, r) \o SubSeq(Chars(n, r + 1, r + k), 1, m)
            = Chars(n, 1, r + m)

LEMMA PieceContinues ==
  ASSUME NEW n \in Nat, NEW r \in Nat, NEW k \in Nat
  PROVE  Continues(n, r, k)
<1>1. Len(Chars(n, r + 1, r + k)) = k
  BY PieceLength, Zenon
<1>2. ASSUME NEW m \in Nat, m <= k
      PROVE  SubSeq(Chars(n, 1, r), 1, r) \o SubSeq(Chars(n, r + 1, r + k), 1, m)
               = Chars(n, 1, r + m)
  <2> DEFINE u == SubSeq(Chars(n, r + 1, r + k), 1, m)
  <2>1. Follows(u, n, r, m)
    BY <1>2, PieceCut, Zenon
  <2> HIDE DEF u
  <2>2. SubSeq(Chars(n, 1, r), 1, r) \o u = Chars(n, 1, r + m)
    BY <2>1, CharsContinued
  <2> QED
    BY <2>2 DEF u
<1>3. ASSUME NEW m \in Nat, m <= k
      PROVE  \A c \in ToSet(SubSeq(Chars(n, r + 1, r + k), 1, m)) : c[1] = n
  BY <1>3, OwnCharacters, Zenon
<1>4. ASSUME NEW m \in Nat, m <= k
      PROVE  SubSeq(Chars(n, r + 1, r + k), 1, m) \in Texts
  BY <1>4, PieceCut, Zenon DEF Follows
<1> QED
  BY <1>1, <1>2, <1>3, <1>4, Zenon DEF Continues

-----------------------------------------------------------------------------
(* The buffers                                                             *)

LEMMA Sizes ==
  /\ MAX_ITEMS \in Nat \ {0} /\ MAX_COMMON_PREFIXES \in Nat \ {0}
  /\ ItemSize \in Nat \ {0} /\ Held(ItemSize) = ItemSize - 1 /\ Held(ItemSize) \in Nat
  /\ PrefixSize \in Nat /\ PrefixSize >= 2
BY ListingAssumption DEF Held

\* What is left of a buffer, and what the next k characters make of it.
LEMMA Room ==
  ASSUME NEW r \in Nat, NEW k \in Nat, NEW size \in Nat, r < size
  PROVE  /\ Shorter(r, size) = r /\ Shorter(r, size - 1) = r
         /\ Shorter(size - r - 1, k) \in Nat /\ Shorter(size - r - 1, k) <= k
         /\ r + Shorter(size - r - 1, k) = Shorter(r + k, size - 1)
         /\ size - r # 0
BY DEF Shorter

\* string_buffer_append makes of the first r characters of an element, as many
\* of them as fit, the first r + k.
LEMMA ItemPiece ==
  ASSUME NEW n \in Nat, NEW r \in Nat, NEW k \in Nat
  PROVE  string_buffer_append(ItemSoFar(n, r), ItemSize, Chars(n, r + 1, r + k))
           = ItemSoFar(n, r + k)
<1> DEFINE str  == Chars(n, r + 1, r + k)
           size == ItemSize
           sb   == [text |-> Chars(n, 1, Shorter(r, size - 1)), len |-> Shorter(r, size)]
<1>0. Continues(n, r, k) /\ size \in Nat \ {0} /\ Held(size) = size - 1
  BY PieceContinues, Sizes
<1> SUFFICES string_buffer_append(sb, size, str)
               = [text |-> Chars(n, 1, Shorter(r + k, size - 1)), len |-> Shorter(r + k, size)]
  BY <1>0 DEF ItemSoFar
<1> HIDE DEF size
<1>1. Len(str) = k
  BY <1>0 DEF Continues
<1>2. CASE r >= size
  <2>1. /\ Shorter(r, size) = size /\ Shorter(r, size - 1) = size - 1
        /\ Shorter(r + k, size - 1) = size - 1 /\ Shorter(size + k, size) = size
        /\ Shorter(r + k, size) = size
    BY <1>0, <1>2 DEF Shorter
  <2>2. sb.text = Chars(n, 1, size - 1) /\ sb.len = size
    BY <2>1
  <2>3. Snprintf(sb.text, sb.len, size - sb.len, str) = sb.text
    BY <1>0, <2>2 DEF Snprintf
  <2> HIDE DEF sb, str
  <2>4. string_buffer_append(sb, size, str) = [text |-> Chars(n, 1, size - 1), len |-> size]
    BY <1>1, <2>1, <2>2, <2>3 DEF string_buffer_append
  <2> QED
    BY <2>1, <2>4 DEF sb, str
<1>3. CASE r < size
  <2> DEFINE m == Shorter(size - r - 1, k)
  <2>1. /\ Shorter(r, size) = r /\ Shorter(r, size - 1) = r
        /\ r + m = Shorter(r + k, size - 1) /\ m \in Nat /\ m <= k
        /\ size - r # 0
    <3>1. k \in Nat /\ size \in Nat
      BY <1>0
    <3> QED
      BY <1>3, <3>1, Room, ZenonT(60)
  <2>2. sb.text = Chars(n, 1, r) /\ sb.len = r
    BY <2>1
  <2> HIDE DEF m
  <2>3. SubSeq(Chars(n, 1, r), 1, r) \o SubSeq(str, 1, m) = Chars(n, 1, r + m)
    BY <1>0, <2>1 DEF Continues
  <2> HIDE DEF sb, str
  <2>4. Snprintf(sb.text, sb.len, size - sb.len, str) = Chars(n, 1, r + m)
    BY <1>0, <1>1, <2>1, <2>2, <2>3 DEF Snprintf, m
  <2>5. string_buffer_append(sb, size, str)
          = [text |-> Chars(n, 1, r + m), len |-> Shorter(r + k, size)]
    BY <1>0, <1>1, <2>2, <2>4 DEF string_buffer_append
  <2> QED
    BY <2>1, <2>5 DEF sb, str
<1> QED
  BY <1>0, <1>2, <1>3

\* So do the prefixes of list bucket; those of list multipart uploads have, of
\* the last piece, what fits.
LEMMA PrefixPiece ==
  ASSUME NEW n \in Nat, NEW r \in Nat, NEW k \in Nat, NEW prefix, PrefixSoFar(prefix, n, r),
         r < PrefixSize
  PROVE  PrefixSoFar(AddToPrefix(prefix, Chars(n, r + 1, r + k)), n, r + k)
<1> DEFINE str  == Chars(n, r + 1, r + k)
           at   == IF listing = "bucket" THEN r ELSE 0
           room == PrefixSize - r - 1
           text == Snprintf(prefix.text, at, room, str)
<1>0. /\ prefix \in Strings /\ prefix.len = r
      /\ listing = "bucket" => prefix.text = Chars(n, 1, Shorter(r, PrefixSize - 2))
      /\ \A c \in ToSet(prefix.text) : c[1] = n
      /\ Continues(n, r, k)
  BY PieceContinues DEF PrefixSoFar
<1>1. Len(str) = k
  BY <1>0 DEF Continues
<1>2. PrefixSize \in Nat /\ PrefixSize - 2 \in Nat /\ room \in Nat
  BY Sizes
<1>3. AddToPrefix(prefix, str) = [text |-> text, len |-> r + k]
  BY <1>0, <1>1 DEF AddToPrefix
<1>4. prefix.text \in Texts
  BY <1>0 DEF Strings
<1>5. CASE room = 0
  <2>1. text = prefix.text
    BY <1>5 DEF Snprintf
  <2>2. Shorter(r, PrefixSize - 2) = Shorter(r + k, PrefixSize - 2)
    BY <1>2, <1>5 DEF Shorter
  <2> HIDE DEF text, room
  <2> QED
    BY <1>0, <1>3, <1>4, <2>1, <2>2 DEF Strings, PrefixSoFar
<1>6. CASE room # 0
  <2> DEFINE m == Shorter(room - 1, k)
  <2>1. /\ m \in Nat /\ m <= k
        /\ Shorter(r, PrefixSize - 2) = r /\ r + m = Shorter(r + k, PrefixSize - 2)
    <3> DEFINE size == PrefixSize - 1
    <3>1. size \in Nat /\ r < size /\ size - r - 1 = room - 1 /\ size - 1 = PrefixSize - 2
      BY <1>2, <1>6
    <3>2. m = Shorter(size - r - 1, k) /\ k \in Nat
      BY <3>1
    <3> HIDE DEF size, room, m
    <3>3. /\ Shorter(r, size - 1) = r
          /\ Shorter(size - r - 1, k) \in Nat /\ Shorter(size - r - 1, k) <= k
          /\ r + Shorter(size - r - 1, k) = Shorter(r + k, size - 1)
      BY <3>1, <3>2 DEF Shorter
    <3> QED
      BY <3>1, <3>2, <3>3
  <2>2. text = SubSeq(prefix.text, 1, at) \o SubSeq(str, 1, m)
    BY <1>1, <1>6 DEF Snprintf
  <2>3. /\ SubSeq(str, 1, m) \in Texts /\ \A c \in ToSet(SubSeq(str, 1, m)) : c[1] = n
        /\ SubSeq(Chars(n, 1, r), 1, r) \o SubSeq(str, 1, m) = Chars(n, 1, r + m)
    <3> HIDE DEF m
    <3> QED
      BY <1>0, <2>1 DEF Continues
  <2>4. CASE listing = "bucket"
    <3>1. text = Chars(n, 1, r + m)
      BY <1>0, <2>1, <2>2, <2>3, <2>4
    <3>2. text \in Texts /\ \A c \in ToSet(text) : c[1] = n
      BY <2>1, <3>1, CharsFacts
    <3> HIDE DEF text
    <3> QED
      BY <1>3, <2>1, <3>1, <3>2 DEF Strings, PrefixSoFar
  <2>5. CASE listing # "bucket"
    <3>1. text = SubSeq(str, 1, m)
      <4>1. SubSeq(prefix.text, 1, 0) = <<>>
        BY <1>4, SubSeqEmpty DEF Texts
      <4>2. <<>> \o SubSeq(str, 1, m) = SubSeq(str, 1, m)
        BY <2>3, ConcatEmptySeq DEF Texts
      <4> QED
        BY <2>2, <2>5, <4>1, <4>2
    <3> HIDE DEF text, m, str
    <3>2. text \in Texts /\ \A c \in ToSet(text) : c[1] = n
      BY <2>3, <3>1
    <3> QED
      BY <1>3, <2>5, <3>2 DEF Strings, PrefixSoFar, str
  <2> QED
    BY <2>4, <2>5
<1> QED
  BY <1>5, <1>6

-----------------------------------------------------------------------------
(* The batches                                                             *)

LEMMA FirstTextsFacts ==
  ASSUME NEW size \in Nat, NEW array \in [0 .. size - 1 -> Strings], NEW count \in 0 .. size
  PROVE  /\ FirstTexts(array, count) \in Seq(Texts) /\ Len(FirstTexts(array, count)) = count
         /\ \A i \in 1 .. count : FirstTexts(array, count)[i] = array[i - 1].text
<1> DEFINE s == FirstTexts(array, count)
<1>1. s = [i \in 1 .. count |-> array[i - 1].text]
  BY DEF FirstTexts
<1>2. count \in Nat /\ \A i \in 1 .. count : i - 1 \in 0 .. size - 1
  OBVIOUS
<1>3. \A i \in 1 .. count : array[i - 1].text \in Texts
  BY <1>2 DEF Strings
<1> HIDE DEF s
<1>4. s \in Seq(Texts) /\ Len(s) = count
  BY <1>1, <1>2, <1>3
<1> QED
  BY <1>1, <1>4 DEF s

LEMMA NoFirstTexts ==
  ASSUME NEW array
  PROVE  FirstTexts(array, 0) = <<>>
BY DEF FirstTexts

\* One more place.
LEMMA FirstTextsAppend ==
  ASSUME NEW size \in Nat, NEW array \in [0 .. size - 1 -> Strings],
         NEW count \in 0 .. size - 1
  PROVE  FirstTexts(array, count + 1) = Append(FirstTexts(array, count), array[count].text)
<1> DEFINE s == FirstTexts(array, count)
           t == FirstTexts(array, count + 1)
           e == array[count].text
<1>1. count \in 0 .. size /\ count + 1 \in 0 .. size /\ count \in Nat
  OBVIOUS
<1>2. s \in Seq(Texts) /\ Len(s) = count /\ \A i \in 1 .. count : s[i] = array[i - 1].text
  BY <1>1, FirstTextsFacts
<1>3. /\ t \in Seq(Texts) /\ Len(t) = count + 1
      /\ \A i \in 1 .. count + 1 : t[i] = array[i - 1].text
  BY <1>1, FirstTextsFacts
<1>4. e \in Texts
  BY DEF Strings
<1>5. t[count + 1] = e
  <2>1. count + 1 \in 1 .. count + 1 /\ count + 1 - 1 = count
    BY <1>1
  <2> HIDE DEF t
  <2> QED
    BY <1>3, <2>1
<1> HIDE DEF s, t, e
<1>6. Append(s, e) \in Seq(Texts) /\ Len(Append(s, e)) = count + 1
  BY <1>2, <1>4
<1>7. ASSUME NEW i \in 1 .. count + 1
      PROVE  Append(s, e)[i] = t[i]
  <2>1. CASE i = count + 1
    BY <1>2, <1>4, <1>5, <2>1
  <2>2. CASE i # count + 1
    <3>1. i \in 1 .. count
      BY <1>1, <2>2
    <3> QED
      BY <1>1, <1>2, <1>3, <1>4, <3>1
  <2> QED
    BY <2>1, <2>2
<1>8. Append(s, e) = t
  BY <1>1, <1>3, <1>6, <1>7, SeqEqual
<1> QED
  BY <1>8 DEF s, t, e

\* What becomes of the places behind them does not matter.
LEMMA FirstTextsKept ==
  ASSUME NEW size \in Nat, NEW array \in [0 .. size - 1 -> Strings], NEW count \in 0 .. size,
         NEW other \in [0 .. size - 1 -> Strings],
         \A i \in 0 .. count - 1 : other[i] = array[i]
  PROVE  FirstTexts(other, count) = FirstTexts(array, count)
<1>1. \A i \in 1 .. count : i - 1 \in 0 .. count - 1
  OBVIOUS
<1>2. \A i \in 1 .. count : other[i - 1].text = array[i - 1].text
  BY <1>1
<1> QED
  BY <1>2 DEF FirstTexts

\* One more element.
LEMMA ExpectedAppend ==
  ASSUME NEW s \in Seq(Elements), NEW e \in Elements, NEW room \in Nat
  PROVE  /\ Expected(s, room) \in Seq(Texts)
         /\ Expected(Append(s, e), room)
              = Append(Expected(s, room), Chars(e.number, 1, Shorter(e.length, room)))
<1> DEFINE Text(x) == Chars(x.number, 1, Shorter(x.length, room))
<1>1. ASSUME NEW x \in Elements PROVE Text(x) \in Texts
  <2>1. x.number \in Nat /\ Shorter(x.length, room) \in Nat
    BY DEF Elements, Shorter
  <2> QED
    BY <2>1, CharsFacts
<1> HIDE DEF Text
<1>2. ASSUME NEW q \in Seq(Elements)
      PROVE  /\ Expected(q, room) \in Seq(Texts) /\ Len(Expected(q, room)) = Len(q)
             /\ \A i \in 1 .. Len(q) : Expected(q, room)[i] = Text(q[i])
  <2>1. Expected(q, room) = [i \in 1 .. Len(q) |-> Text(q[i])]
    BY DEF Expected, Text
  <2>2. \A i \in 1 .. Len(q) : Text(q[i]) \in Texts
    BY <1>1
  <2> QED
    BY <2>1, <2>2
<1>3. Append(s, e) \in Seq(Elements) /\ Len(Append(s, e)) = Len(s) + 1
  OBVIOUS
<1> DEFINE a == Expected(s, room)
           b == Expected(Append(s, e), room)
<1>4. /\ a \in Seq(Texts) /\ Len(a) = Len(s) /\ \A i \in 1 .. Len(s) : a[i] = Text(s[i])
  BY <1>2
<1>5. /\ b \in Seq(Texts) /\ Len(b) = Len(s) + 1
      /\ \A i \in 1 .. Len(s) + 1 : b[i] = Text(Append(s, e)[i])
  BY <1>2, <1>3
<1>6. Text(e) \in Texts
  BY <1>1
<1> HIDE DEF a, b
<1>7. Append(a, Text(e)) \in Seq(Texts) /\ Len(Append(a, Text(e))) = Len(s) + 1
  BY <1>4, <1>6
<1>8. ASSUME NEW i \in 1 .. Len(s) + 1
      PROVE  Append(a, Text(e))[i] = b[i]
  <2>1. CASE i = Len(s) + 1
    <3>1. Append(s, e)[i] = e
      BY <2>1
    <3>2. Append(a, Text(e))[i] = Text(e)
      BY <1>4, <1>6, <2>1
    <3> QED
      BY <1>5, <3>1, <3>2
  <2>2. CASE i # Len(s) + 1
    <3>1. i \in 1 .. Len(s)
      BY <2>2
    <3>2. Append(s, e)[i] = s[i]
      BY <3>1
    <3>3. Append(a, Text(e))[i] = a[i]
      BY <1>4, <1>6, <3>1
    <3> QED
      BY <1>4, <1>5, <3>1, <3>2, <3>3
  <2> QED
    BY <2>1, <2>2
<1>9. Append(a, Text(e)) = b
  BY <1>5, <1>7, <1>8, SeqEqual
<1> QED
  BY <1>4, <1>9 DEF a, b, Text

\* One more prefix.
LEMMA PrefixAppended ==
  ASSUME NEW s \in Seq(Texts), NEW elements \in Seq(Elements), PrefixesRight(s, elements),
         NEW t \in Texts, NEW e \in Elements,
         listing = "bucket" => t = Chars(e.number, 1, Shorter(e.length, PrefixSize - 2)),
         \A c \in ToSet(t) : c[1] = e.number
  PROVE  PrefixesRight(Append(s, t), Append(elements, e))
<1>1. Len(s) = Len(elements) /\ Len(Append(s, t)) = Len(Append(elements, e))
  BY DEF PrefixesRight
<1>2. ASSUME listing = "bucket"
      PROVE  Append(s, t) = Expected(Append(elements, e), PrefixSize - 2)
  <2>1. PrefixSize - 2 \in Nat
    BY ListingAssumption
  <2>2. s = Expected(elements, PrefixSize - 2)
    BY <1>2 DEF PrefixesRight
  <2>3. Expected(Append(elements, e), PrefixSize - 2)
          = Append(Expected(elements, PrefixSize - 2),
                   Chars(e.number, 1, Shorter(e.length, PrefixSize - 2)))
    BY <2>1, ExpectedAppend
  <2> QED
    BY <1>2, <2>2, <2>3
<1>3. ASSUME NEW i \in DOMAIN Append(s, t), NEW c \in ToSet(Append(s, t)[i])
      PROVE  c[1] = Append(elements, e)[i].number
  <2>1. i \in 1 .. Len(s) + 1
    OBVIOUS
  <2>2. CASE i = Len(s) + 1
    <3>1. Append(s, t)[i] = t /\ Append(elements, e)[i] = e
      BY <1>1, <2>2
    <3> QED
      BY <1>3, <3>1
  <2>3. CASE i # Len(s) + 1
    <3>1. i \in 1 .. Len(s)
      BY <2>1, <2>3
    <3>2. Append(s, t)[i] = s[i] /\ Append(elements, e)[i] = elements[i] /\ i \in DOMAIN s
      BY <1>1, <3>1
    <3>3. \A d \in ToSet(s[i]) : d[1] = elements[i].number
      BY <3>2 DEF PrefixesRight
    <3>4. c \in ToSet(s[i])
      BY <1>3, <3>2
    <3> QED
      BY <3>2, <3>3, <3>4
  <2> QED
    BY <2>2, <2>3
<1> QED
  BY <1>1, <1>2, <1>3 DEF PrefixesRight

-----------------------------------------------------------------------------
(* The steps of the parser                                                 *)

LEMMA CurrentNat ==
  ASSUME TypeOK
  PROVE  Current \in Nat
<1>1. closed.item \in Seq(Elements) /\ closed.prefix \in Seq(Elements)
  BY DEF TypeOK
<1>2. Len(closed.item) \in Nat /\ Len(closed.prefix) \in Nat
  BY <1>1, LenProperties
<1>3. \A i, j \in Nat : i + j + 1 \in Nat
  OBVIOUS
<1> QED
  BY <1>2, <1>3, Zenon DEF Current

LEMMA InitInv == Init => IInv
<1> SUFFICES ASSUME Init PROVE IInv
  OBVIOUS
<1>1. /\ listing \in Listings /\ status = "OK" /\ open = "none" /\ received = 0
      /\ items = [i \in 0 .. MAX_ITEMS - 1 |-> Empty] /\ itemsCount = 0
      /\ commonPrefixes = [i \in 0 .. MAX_COMMON_PREFIXES - 1 |-> Empty]
      /\ commonPrefixesCount = 0 /\ handlePartsStart = 0 /\ completed = FALSE
      /\ closed = [item |-> <<>>, prefix |-> <<>>]
      /\ reported = [items |-> <<>>, prefixes |-> <<>>]
      /\ refused = FALSE /\ firsts = {}
  BY Zenon DEF Init
<1>2. Empty \in Strings
  BY DEF Empty, Strings, Texts
<1>3. 0 \in 0 .. MAX_ITEMS - 1 /\ 0 \in 0 .. MAX_COMMON_PREFIXES - 1
  BY Sizes
<1>4. TypeOK
  <2>1. closed \in [item : Seq(Elements), prefix : Seq(Elements)]
    BY <1>1
  <2>2. reported \in [items : Seq(Texts), prefixes : Seq(Texts)]
    BY <1>1
  <2> QED
    <3>1. items \in [0 .. MAX_ITEMS - 1 -> Strings]
      BY <1>1, <1>2, Zenon
    <3>2. commonPrefixes \in [0 .. MAX_COMMON_PREFIXES - 1 -> Strings]
      BY <1>1, <1>2, Zenon
    <3>3. 0 \in 0 .. MAX_ITEMS /\ 0 \in 0 .. MAX_COMMON_PREFIXES /\ 0 \in Nat
      BY Sizes
    <3> QED
      BY <1>1, <2>1, <2>2, <3>1, <3>2, <3>3, Zenon DEF TypeOK
<1>5. PlaceForNext
  BY <1>1, Sizes DEF PlaceForNext
<1>6. ItemInPlace /\ PrefixInPlace
  BY <1>1, <1>3 DEF ItemInPlace, PrefixInPlace
<1>7. reported.items \o Waiting(items, itemsCount) = <<>>
  <2>1. Waiting(items, itemsCount) = <<>>
    BY <1>1, NoFirstTexts DEF Waiting
  <2> QED
    BY <1>1, <2>1
<1>8. reported.prefixes \o Waiting(commonPrefixes, commonPrefixesCount) = <<>>
  <2>1. Waiting(commonPrefixes, commonPrefixesCount) = <<>>
    BY <1>1, NoFirstTexts DEF Waiting
  <2> QED
    BY <1>1, <2>1
<1>9. \A room : Expected(<<>>, room) = <<>>
  BY DEF Expected
<1>10. ItemsInOrder
  BY <1>1, <1>7, <1>9 DEF ItemsInOrder
<1>11. PrefixesInOrder
  <2>1. PrefixesRight(<<>>, <<>>)
    BY <1>9 DEF PrefixesRight
  <2> QED
    BY <1>1, <1>8, <2>1 DEF PrefixesInOrder
<1>12. StartIsCounted /\ StartCountsReported
  BY <1>1 DEF StartIsCounted, StartCountsReported
<1> QED
  BY <1>1, <1>4, <1>5, <1>6, <1>10, <1>11, <1>12 DEF IInv

\* Nothing was closed or reported, and no place of a batch was written.
LEMMA NothingReported ==
  ASSUME IInv, TypeOK', UNCHANGED <<listing, itemsCount, commonPrefixesCount, completed, closed>>,
         UNCHANGED calls, UNCHANGED handlePartsStart,
         status' = "OK" => status = "OK",
         \A i \in 0 .. itemsCount - 1 : items'[i] = items[i],
         \A i \in 0 .. commonPrefixesCount - 1 : commonPrefixes'[i] = commonPrefixes[i],
         Parsing' => ItemInPlace' /\ PrefixInPlace'
  PROVE  IInv'
<1>1. /\ UNCHANGED <<listing, itemsCount, commonPrefixesCount, completed, closed>>
      /\ UNCHANGED <<reported, refused, firsts, handlePartsStart>>
  BY Zenon DEF calls
<1>2. TypeOK /\ TypeOK'
  BY DEF IInv
<1>3. FirstTexts(items', itemsCount) = FirstTexts(items, itemsCount)
  <2>1. /\ MAX_ITEMS \in Nat /\ items \in [0 .. MAX_ITEMS - 1 -> Strings]
        /\ items' \in [0 .. MAX_ITEMS - 1 -> Strings] /\ itemsCount \in 0 .. MAX_ITEMS
    BY <1>2, Sizes DEF TypeOK
  <2> QED
    BY <2>1, FirstTextsKept
<1>4. FirstTexts(commonPrefixes', commonPrefixesCount)
        = FirstTexts(commonPrefixes, commonPrefixesCount)
  <2>1. /\ MAX_COMMON_PREFIXES \in Nat
        /\ commonPrefixes \in [0 .. MAX_COMMON_PREFIXES - 1 -> Strings]
        /\ commonPrefixes' \in [0 .. MAX_COMMON_PREFIXES - 1 -> Strings]
        /\ commonPrefixesCount \in 0 .. MAX_COMMON_PREFIXES
    BY <1>2, Sizes DEF TypeOK
  <2> QED
    BY <2>1, FirstTextsKept
<1>6. ItemsInOrder'
  <2>1. Waiting(items, itemsCount)' = Waiting(items, itemsCount)
    BY <1>1, <1>3 DEF Waiting
  <2> QED
    BY <1>1, <2>1 DEF IInv, ItemsInOrder
<1>7. PrefixesInOrder'
  <2>1. Waiting(commonPrefixes, commonPrefixesCount)' = Waiting(commonPrefixes, commonPrefixesCount)
    BY <1>1, <1>4 DEF Waiting
  <2> QED
    BY <1>1, <2>1 DEF IInv, PrefixesInOrder, PrefixesRight
<1>8. PlaceForNext' /\ (status' = "OK" => ~refused')
  BY <1>1 DEF IInv, PlaceForNext, Parsing
<1>9. StartIsCounted' /\ StartCountsReported'
  BY <1>1 DEF IInv, StartIsCounted, StartCountsReported
<1> QED
  BY <1>2, <1>6, <1>7, <1>8, <1>9 DEF IInv

LEMMA StepStart ==
  ASSUME IInv, NEW kind \in Kinds, StartElement(kind)
  PROVE  IInv'
<1>1. /\ Parsing /\ open = "none" /\ open' = kind /\ received' = 0
      /\ UNCHANGED <<listing, status, completed, closed>> /\ UNCHANGED calls
      /\ UNCHANGED <<items, itemsCount, commonPrefixes, commonPrefixesCount, handlePartsStart>>
  BY Zenon DEF StartElement, arrays
<1>2. kind \in {"item", "prefix"}
  BY DEF Kinds
<1>3. TypeOK'
  BY <1>1, <1>2 DEF IInv, TypeOK, calls
<1>4. Current \in Nat /\ Current' = Current
  BY <1>1, CurrentNat DEF IInv, Current
<1>5. ItemInPlace' /\ PrefixInPlace'
  <2>1. items[itemsCount] = Empty /\ commonPrefixes[commonPrefixesCount] = Empty
    BY <1>1 DEF IInv, ItemInPlace, PrefixInPlace
  <2>2. Chars(Current, 1, 0) = <<>>
    BY <1>4, CharsFacts
  <2>3. /\ Shorter(0, Held(ItemSize)) = 0 /\ Shorter(0, ItemSize) = 0
        /\ Shorter(0, PrefixSize - 2) = 0 /\ 0 < PrefixSize
    BY Sizes DEF Shorter
  <2>4. ItemInPlace'
    BY <1>1, <1>4, <2>1, <2>2, <2>3 DEF ItemInPlace, ItemSoFar, Empty
  <2>5. PrefixInPlace'
    <3>1. \A c \in ToSet(<<>>) : c[1] = Current
      BY DEF ToSet
    <3> QED
      BY <1>1, <1>4, <2>1, <2>2, <2>3, <3>1
         DEF PrefixInPlace, PrefixSoFar, Empty, Strings, Texts
  <2> QED
    BY <2>4, <2>5
<1> QED
  BY <1>1, <1>3, <1>5, NothingReported

LEMMA StepItemText ==
  ASSUME IInv, NEW n \in PieceLengths, ItemText(n)
  PROVE  IInv'
<1> DEFINE old == ItemSoFar(Current, received)
           new == ItemSoFar(Current, received + n)
<1>1. /\ Parsing /\ open = "item" /\ received' = received + n
      /\ items' = [items EXCEPT ![itemsCount] =
           string_buffer_append(@, ItemSize, Chars(Current, received + 1, received + n))]
      /\ UNCHANGED <<listing, status, open, itemsCount, commonPrefixes,
                     commonPrefixesCount, handlePartsStart, completed, closed>>
      /\ UNCHANGED calls
  BY Zenon DEF ItemText
<1>2. n \in Nat /\ received \in Nat /\ received + n \in Nat
  BY ListingAssumption DEF IInv, TypeOK
<1>3. Current \in Nat /\ Current' = Current
  BY <1>1, CurrentNat DEF IInv, Current
<1>4. /\ MAX_ITEMS \in Nat /\ items \in [0 .. MAX_ITEMS - 1 -> Strings]
      /\ itemsCount \in 0 .. MAX_ITEMS - 1
  BY <1>1, Sizes DEF IInv, TypeOK, PlaceForNext
<1>5. items[itemsCount] = old
  BY <1>1 DEF IInv, ItemInPlace
<1>6. string_buffer_append(old, ItemSize, Chars(Current, received + 1, received + n)) = new
  BY <1>2, <1>3, ItemPiece
<1>7. new \in Strings
  <2>1. Shorter(received + n, Held(ItemSize)) \in Nat /\ Shorter(received + n, ItemSize) \in Nat
    BY <1>2, Sizes DEF Shorter
  <2> QED
    BY <1>3, <2>1, CharsFacts DEF Strings, ItemSoFar
<1> HIDE DEF old, new
<1>8. items' = [items EXCEPT ![itemsCount] = new]
  BY <1>1, <1>5, <1>6
<1>9. TypeOK'
  <2>1. items' \in [0 .. MAX_ITEMS - 1 -> Strings]
    BY <1>7, <1>8, Zenon DEF IInv, TypeOK
  <2> QED
    BY <1>1, <1>2, <2>1 DEF IInv, TypeOK, calls
<1>10. /\ items'[itemsCount] = new
       /\ \A i \in 0 .. itemsCount - 1 : items'[i] = items[i]
  BY <1>4, <1>8
<1>11. ItemInPlace'
  BY <1>1, <1>3, <1>10 DEF ItemInPlace, new
<1>12. PrefixInPlace'
  BY <1>1 DEF IInv, PrefixInPlace
<1> QED
  BY <1>1, <1>9, <1>10, <1>11, <1>12, NothingReported

LEMMA StepPrefixText ==
  ASSUME IInv, NEW n \in PieceLengths, PrefixText(n)
  PROVE  IInv'
<1> DEFINE old == commonPrefixes[commonPrefixesCount]
           new == AddToPrefix(old, Chars(Current, received + 1, received + n))
<1>1. /\ Parsing /\ open = "prefix" /\ received' = received + n
      /\ commonPrefixes' = [commonPrefixes EXCEPT ![commonPrefixesCount] =
           AddToPrefix(@, Chars(Current, received + 1, received + n))]
      /\ status' = IF commonPrefixes'[commonPrefixesCount].len >= PrefixSize
                   THEN "XmlParseFailure" ELSE "OK"
      /\ UNCHANGED <<listing, open, items, itemsCount,
                     commonPrefixesCount, handlePartsStart, completed, closed>>
      /\ UNCHANGED calls
  BY Zenon DEF PrefixText
<1>2. n \in Nat /\ received \in Nat /\ received + n \in Nat
  BY ListingAssumption DEF IInv, TypeOK
<1>3. Current \in Nat /\ Current' = Current
  BY <1>1, CurrentNat DEF IInv, Current
<1>4. /\ MAX_COMMON_PREFIXES \in Nat
      /\ commonPrefixes \in [0 .. MAX_COMMON_PREFIXES - 1 -> Strings]
      /\ commonPrefixesCount \in 0 .. MAX_COMMON_PREFIXES - 1
  BY <1>1, Sizes DEF IInv, TypeOK, PlaceForNext
<1>5. PrefixSoFar(old, Current, received) /\ received < PrefixSize
  BY <1>1 DEF IInv, PrefixInPlace
<1>6. PrefixSoFar(new, Current, received + n)
  <2> HIDE DEF old
  <2> QED
    BY <1>2, <1>3, <1>5, PrefixPiece
<1>7. new \in Strings /\ new.len = received + n
  BY <1>6 DEF PrefixSoFar
<1>8. commonPrefixes' = [commonPrefixes EXCEPT ![commonPrefixesCount] = new]
  BY <1>1, <1>4
<1> HIDE DEF old, new
<1>9. TypeOK'
  <2>1. commonPrefixes' \in [0 .. MAX_COMMON_PREFIXES - 1 -> Strings]
    BY <1>7, <1>8, Zenon DEF IInv, TypeOK
  <2> QED
    BY <1>1, <1>2, <2>1 DEF IInv, TypeOK, calls
<1>10. /\ commonPrefixes'[commonPrefixesCount] = new
       /\ \A i \in 0 .. commonPrefixesCount - 1 : commonPrefixes'[i] = commonPrefixes[i]
  BY <1>4, <1>8
<1>11. status' = "OK" => PrefixInPlace'
  <2>1. status' = "OK" => received + n < PrefixSize
    BY <1>1, <1>2, <1>7, <1>10, Sizes
  <2> QED
    BY <1>1, <1>3, <1>6, <1>10, <2>1 DEF PrefixInPlace, PrefixSoFar
<1>12. ItemInPlace'
  BY <1>1 DEF IInv, ItemInPlace
<1>13. Parsing' => ItemInPlace' /\ PrefixInPlace'
  BY <1>11, <1>12 DEF Parsing
<1>14. status = "OK"
  BY <1>1 DEF Parsing
<1> QED
  BY <1>1, <1>9, <1>10, <1>13, <1>14, NothingReported

-----------------------------------------------------------------------------
(* The ends of elements                                                    *)

\* The element that is closed.
This == [number |-> Current, length |-> received]

\* What every close of an element finds and does.
LEMMA Closing ==
  ASSUME IInv, NEW kind \in {"item", "prefix"}, CloseElement(kind)
  PROVE  /\ Parsing /\ ~completed /\ status = "OK" /\ ~refused
         /\ open = kind /\ open' = "none" /\ received' = 0 /\ ~completed'
         /\ UNCHANGED <<listing, completed>>
         /\ closed' = [closed EXCEPT ![kind] = Append(@, This)]
         /\ This \in Elements
         /\ closed'.item \in Seq(Elements) /\ closed'.prefix \in Seq(Elements)
         /\ closed' \in [item : Seq(Elements), prefix : Seq(Elements)]
         /\ itemsCount \in 0 .. MAX_ITEMS - 1
         /\ commonPrefixesCount \in 0 .. MAX_COMMON_PREFIXES - 1
<1>1. /\ Parsing /\ open = kind /\ open' = "none" /\ received' = 0
      /\ UNCHANGED <<listing, completed>>
      /\ closed' = [closed EXCEPT ![kind] = Append(@, [number |-> Current, length |-> received])]
  BY DEF CloseElement
<1>2. TypeOK
  BY DEF IInv
<1>3. This \in Elements
  BY <1>2, CurrentNat DEF This, Elements, TypeOK
<1>4. closed \in [item : Seq(Elements), prefix : Seq(Elements)]
  BY <1>2 DEF TypeOK
<1>5. closed' = [closed EXCEPT ![kind] = Append(@, This)]
  BY <1>1 DEF This
<1>6. /\ closed' \in [item : Seq(Elements), prefix : Seq(Elements)]
      /\ closed'.item \in Seq(Elements) /\ closed'.prefix \in Seq(Elements)
  <2>1. CASE kind = "item"
    <3>1. Append(closed.item, This) \in Seq(Elements)
      BY <1>3, <1>4
    <3> QED
      BY <1>4, <1>5, <2>1, <3>1
  <2>2. CASE kind = "prefix"
    <3>1. Append(closed.prefix, This) \in Seq(Elements)
      BY <1>3, <1>4
    <3> QED
      BY <1>4, <1>5, <2>2, <3>1
  <2> QED
    BY <2>1, <2>2
<1>7. status = "OK" /\ ~completed /\ ~refused /\ ~completed'
  BY <1>1 DEF Parsing, IInv
<1>8. itemsCount \in 0 .. MAX_ITEMS - 1 /\ commonPrefixesCount \in 0 .. MAX_COMMON_PREFIXES - 1
  BY <1>1, <1>2, Sizes DEF IInv, PlaceForNext, TypeOK
<1> QED
  BY <1>1, <1>3, <1>5, <1>6, <1>7, <1>8

\* The closed item, or prefix, in the place it was received in.
LEMMA ClosedItem ==
  ASSUME IInv, CloseElement("item")
  PROVE  /\ items[itemsCount].text \in Texts
         /\ Append(reported.items \o FirstTexts(items, itemsCount), items[itemsCount].text)
              = Expected(closed'.item, Held(ItemSize))
         /\ closed'.prefix = closed.prefix
         /\ commonPrefixes[commonPrefixesCount] = Empty
<1>1. /\ Parsing /\ ~completed /\ ~refused /\ open = "item" /\ This \in Elements
      /\ closed' = [closed EXCEPT !["item"] = Append(@, This)]
      /\ itemsCount \in 0 .. MAX_ITEMS - 1
  BY Closing
<1>2. TypeOK /\ ItemInPlace /\ PrefixInPlace
  BY <1>1 DEF IInv
<1>3. items[itemsCount].text = Chars(This.number, 1, Shorter(This.length, Held(ItemSize)))
  BY <1>1, <1>2 DEF ItemInPlace, ItemSoFar, This
<1>4. items[itemsCount].text \in Texts
  BY <1>1, <1>2 DEF TypeOK, Strings
<1>5. reported.items \o FirstTexts(items, itemsCount) = Expected(closed.item, Held(ItemSize))
  BY <1>1 DEF IInv, ItemsInOrder, Waiting
<1>6. closed'.item = Append(closed.item, This) /\ closed'.prefix = closed.prefix
  BY <1>1, <1>2 DEF TypeOK
<1>7. closed.item \in Seq(Elements) /\ Held(ItemSize) \in Nat
  BY <1>2, Sizes DEF TypeOK
<1>8. Expected(Append(closed.item, This), Held(ItemSize))
        = Append(Expected(closed.item, Held(ItemSize)),
                 Chars(This.number, 1, Shorter(This.length, Held(ItemSize))))
  BY <1>1, <1>7, ExpectedAppend
<1>9. commonPrefixes[commonPrefixesCount] = Empty
  BY <1>1, <1>2 DEF PrefixInPlace
<1> QED
  BY <1>3, <1>4, <1>5, <1>6, <1>8, <1>9

LEMMA ClosedPrefix ==
  ASSUME IInv, CloseElement("prefix")
  PROVE  /\ commonPrefixes[commonPrefixesCount].text \in Texts
         /\ PrefixesRight(
              Append(reported.prefixes \o FirstTexts(commonPrefixes, commonPrefixesCount),
                     commonPrefixes[commonPrefixesCount].text),
              closed'.prefix)
         /\ closed'.item = closed.item
         /\ items[itemsCount] = Empty
<1>1. /\ Parsing /\ ~completed /\ ~refused /\ open = "prefix" /\ This \in Elements
      /\ closed' = [closed EXCEPT !["prefix"] = Append(@, This)]
      /\ commonPrefixesCount \in 0 .. MAX_COMMON_PREFIXES - 1
  BY Closing
<1>2. TypeOK /\ ItemInPlace /\ PrefixInPlace
  BY <1>1 DEF IInv
<1> DEFINE t == commonPrefixes[commonPrefixesCount].text
           s == reported.prefixes \o FirstTexts(commonPrefixes, commonPrefixesCount)
<1>3. /\ listing = "bucket" => t = Chars(This.number, 1, Shorter(This.length, PrefixSize - 2))
      /\ \A c \in ToSet(t) : c[1] = This.number
      /\ t \in Texts
  BY <1>1, <1>2 DEF PrefixInPlace, PrefixSoFar, This, Strings
<1>4. PrefixesRight(s, closed.prefix)
  BY <1>1 DEF IInv, PrefixesInOrder, Waiting
<1>5. closed'.prefix = Append(closed.prefix, This) /\ closed'.item = closed.item
  BY <1>1, <1>2 DEF TypeOK
<1>6. closed.prefix \in Seq(Elements)
  BY <1>2 DEF TypeOK
<1>7. s \in Seq(Texts)
  <2>1. /\ MAX_COMMON_PREFIXES \in Nat
        /\ commonPrefixes \in [0 .. MAX_COMMON_PREFIXES - 1 -> Strings]
        /\ commonPrefixesCount \in 0 .. MAX_COMMON_PREFIXES
        /\ reported.prefixes \in Seq(Texts)
    BY <1>2, Sizes DEF TypeOK
  <2>2. FirstTexts(commonPrefixes, commonPrefixesCount) \in Seq(Texts)
    BY <2>1, FirstTextsFacts
  <2> QED
    BY <2>1, <2>2
<1>8. items[itemsCount] = Empty
  BY <1>1, <1>2 DEF ItemInPlace
<1> HIDE DEF s, t
<1>9. PrefixesRight(Append(s, t), Append(closed.prefix, This))
  BY <1>1, <1>3, <1>4, <1>6, <1>7, PrefixAppended
<1> QED
  BY <1>3, <1>5, <1>8, <1>9 DEF s, t

\* What waits in the arrays, and what it becomes with one more place.
LEMMA BatchFacts ==
  ASSUME IInv
  PROVE  /\ reported.items \in Seq(Texts) /\ reported.prefixes \in Seq(Texts)
         /\ \A count \in 0 .. MAX_ITEMS :
              FirstTexts(items, count) \in Seq(Texts) /\ Len(FirstTexts(items, count)) = count
         /\ \A count \in 0 .. MAX_COMMON_PREFIXES :
              FirstTexts(commonPrefixes, count) \in Seq(Texts)
         /\ \A count \in 0 .. MAX_ITEMS - 1 :
              reported.items \o FirstTexts(items, count + 1)
                = Append(reported.items \o FirstTexts(items, count), items[count].text)
         /\ \A count \in 0 .. MAX_COMMON_PREFIXES - 1 :
              reported.prefixes \o FirstTexts(commonPrefixes, count + 1)
                = Append(reported.prefixes \o FirstTexts(commonPrefixes, count),
                         commonPrefixes[count].text)
<1>1. /\ MAX_ITEMS \in Nat /\ items \in [0 .. MAX_ITEMS - 1 -> Strings]
      /\ MAX_COMMON_PREFIXES \in Nat
      /\ commonPrefixes \in [0 .. MAX_COMMON_PREFIXES - 1 -> Strings]
      /\ reported.items \in Seq(Texts) /\ reported.prefixes \in Seq(Texts)
  BY Sizes DEF IInv, TypeOK
<1>2. ASSUME NEW count \in 0 .. MAX_ITEMS
      PROVE  FirstTexts(items, count) \in Seq(Texts) /\ Len(FirstTexts(items, count)) = count
  BY <1>1, FirstTextsFacts
<1>3. ASSUME NEW count \in 0 .. MAX_COMMON_PREFIXES
      PROVE  FirstTexts(commonPrefixes, count) \in Seq(Texts)
  BY <1>1, FirstTextsFacts
<1>4. ASSUME NEW count \in 0 .. MAX_ITEMS - 1
      PROVE  reported.items \o FirstTexts(items, count + 1)
               = Append(reported.items \o FirstTexts(items, count), items[count].text)
  <2>1. FirstTexts(items, count + 1) = Append(FirstTexts(items, count), items[count].text)
    BY <1>1, FirstTextsAppend
  <2>2. count \in 0 .. MAX_ITEMS /\ items[count].text \in Texts
    BY <1>1 DEF Strings
  <2>3. FirstTexts(items, count) \in Seq(Texts)
    BY <1>2, <2>2
  <2> DEFINE e == items[count].text
             t == FirstTexts(items, count)
             s == reported.items
  <2>4. s \in Seq(Texts) /\ t \in Seq(Texts) /\ e \in Texts
    BY <1>1, <2>2, <2>3
  <2> HIDE DEF e, t, s
  <2>5. s \o Append(t, e) = Append(s \o t, e)
    BY <2>4, AppendToEnd
  <2> QED
    BY <2>1, <2>5 DEF e, t, s
<1>5. ASSUME NEW count \in 0 .. MAX_COMMON_PREFIXES - 1
      PROVE  reported.prefixes \o FirstTexts(commonPrefixes, count + 1)
               = Append(reported.prefixes \o FirstTexts(commonPrefixes, count),
                        commonPrefixes[count].text)
  <2>1. FirstTexts(commonPrefixes, count + 1)
          = Append(FirstTexts(commonPrefixes, count), commonPrefixes[count].text)
    BY <1>1, FirstTextsAppend
  <2>2. count \in 0 .. MAX_COMMON_PREFIXES /\ commonPrefixes[count].text \in Texts
    BY <1>1 DEF Strings
  <2>3. FirstTexts(commonPrefixes, count) \in Seq(Texts)
    BY <1>3, <2>2
  <2> DEFINE e == commonPrefixes[count].text
             t == FirstTexts(commonPrefixes, count)
             s == reported.prefixes
  <2>4. s \in Seq(Texts) /\ t \in Seq(Texts) /\ e \in Texts
    BY <1>1, <2>2, <2>3
  <2> HIDE DEF e, t, s
  <2>5. s \o Append(t, e) = Append(s \o t, e)
    BY <2>4, AppendToEnd
  <2> QED
    BY <2>1, <2>5 DEF e, t, s
<1> QED
  BY <1>1, <1>2, <1>3, <1>4, <1>5, Zenon

LEMMA EmptyString == Empty \in Strings
BY DEF Empty, Strings, Texts

LEMMA StepNextItem ==
  ASSUME IInv, NextItem
  PROVE  IInv'
<1>1. /\ CloseElement("item") /\ itemsCount + 1 # MAX_ITEMS
      /\ itemsCount' = itemsCount + 1
      /\ items' = [items EXCEPT ![itemsCount + 1] = Empty]
      /\ UNCHANGED <<status, commonPrefixes, commonPrefixesCount, handlePartsStart>>
      /\ UNCHANGED <<reported, refused, firsts>>
  BY Zenon DEF NextItem, calls
<1>2. /\ Parsing /\ ~completed /\ status = "OK" /\ ~refused
      /\ open' = "none" /\ received' = 0 /\ ~completed' /\ UNCHANGED <<listing, completed>>
      /\ closed' \in [item : Seq(Elements), prefix : Seq(Elements)]
      /\ itemsCount \in 0 .. MAX_ITEMS - 1
      /\ commonPrefixesCount \in 0 .. MAX_COMMON_PREFIXES - 1
  BY <1>1, Closing
<1>3. /\ Append(reported.items \o FirstTexts(items, itemsCount), items[itemsCount].text)
           = Expected(closed'.item, Held(ItemSize))
      /\ closed'.prefix = closed.prefix
      /\ commonPrefixes[commonPrefixesCount] = Empty
  BY <1>1, ClosedItem
<1>4. itemsCount + 1 \in 0 .. MAX_ITEMS - 1 /\ itemsCount \in Nat /\ MAX_ITEMS \in Nat
  BY <1>1, <1>2, Sizes
<1>5. /\ items \in [0 .. MAX_ITEMS - 1 -> Strings]
      /\ items' \in [0 .. MAX_ITEMS - 1 -> Strings]
  BY <1>1, EmptyString DEF IInv, TypeOK
<1>6. /\ items'[itemsCount + 1] = Empty
      /\ \A i \in 0 .. (itemsCount + 1) - 1 : items'[i] = items[i]
  BY <1>1, <1>4, <1>5
<1>7. TypeOK'
  <2>1. itemsCount' \in 0 .. MAX_ITEMS
    BY <1>1, <1>4
  <2> QED
    BY <1>1, <1>2, <1>5, <2>1 DEF IInv, TypeOK
<1>8. FirstTexts(items', itemsCount + 1) = FirstTexts(items, itemsCount + 1)
  <2> DEFINE count == itemsCount + 1
  <2>1. count \in 0 .. MAX_ITEMS /\ \A i \in 0 .. count - 1 : items'[i] = items[i]
    BY <1>4, <1>6
  <2> HIDE DEF count
  <2>2. FirstTexts(items', count) = FirstTexts(items, count)
    BY <1>4, <1>5, <2>1, FirstTextsKept, ZenonT(30)
  <2> QED
    BY <2>2 DEF count
<1>9. ItemsInOrder'
  <2>1. reported.items \o FirstTexts(items, itemsCount + 1)
          = Append(reported.items \o FirstTexts(items, itemsCount), items[itemsCount].text)
    BY <1>2, BatchFacts
  <2>2. Waiting(items, itemsCount)' = FirstTexts(items, itemsCount + 1)
    BY <1>1, <1>2, <1>8 DEF Waiting
  <2> QED
    BY <1>1, <1>3, <2>1, <2>2 DEF ItemsInOrder
<1>10. PrefixesInOrder'
  <2>1. /\ Waiting(commonPrefixes, commonPrefixesCount)'
             = Waiting(commonPrefixes, commonPrefixesCount)
    BY <1>1, <1>2 DEF Waiting
  <2> QED
    BY <1>1, <1>2, <1>3, <2>1 DEF IInv, PrefixesInOrder, PrefixesRight
<1>11. ItemInPlace' /\ PrefixInPlace'
  BY <1>1, <1>2, <1>3, <1>6 DEF ItemInPlace, PrefixInPlace
<1>12. PlaceForNext' /\ (status' = "OK" => ~refused')
  BY <1>1, <1>2, <1>4, Sizes DEF PlaceForNext
<1>13. StartIsCounted' /\ StartCountsReported'
  BY <1>1, <1>2 DEF IInv, StartIsCounted, StartCountsReported
<1> QED
  BY <1>7, <1>9, <1>10, <1>11, <1>12, <1>13 DEF IInv

LEMMA StepNextPrefix ==
  ASSUME IInv, NextPrefix
  PROVE  IInv'
<1>1. /\ CloseElement("prefix") /\ commonPrefixesCount + 1 # MAX_COMMON_PREFIXES
      /\ commonPrefixesCount' = commonPrefixesCount + 1
      /\ commonPrefixes' = [commonPrefixes EXCEPT ![commonPrefixesCount + 1] = Empty]
      /\ UNCHANGED <<status, items, itemsCount, handlePartsStart>>
      /\ UNCHANGED <<reported, refused, firsts>>
  BY Zenon DEF NextPrefix, calls
<1>2. /\ Parsing /\ ~completed /\ status = "OK" /\ ~refused
      /\ open' = "none" /\ received' = 0 /\ ~completed' /\ UNCHANGED <<listing, completed>>
      /\ closed' \in [item : Seq(Elements), prefix : Seq(Elements)]
      /\ itemsCount \in 0 .. MAX_ITEMS - 1
      /\ commonPrefixesCount \in 0 .. MAX_COMMON_PREFIXES - 1
  BY <1>1, Closing
<1>3. /\ PrefixesRight(Append(reported.prefixes \o FirstTexts(commonPrefixes, commonPrefixesCount),
                              commonPrefixes[commonPrefixesCount].text),
                       closed'.prefix)
      /\ closed'.item = closed.item
      /\ items[itemsCount] = Empty
  BY <1>1, ClosedPrefix
<1>4. /\ commonPrefixesCount + 1 \in 0 .. MAX_COMMON_PREFIXES - 1
      /\ commonPrefixesCount \in Nat /\ MAX_COMMON_PREFIXES \in Nat
  BY <1>1, <1>2, Sizes
<1>5. /\ commonPrefixes \in [0 .. MAX_COMMON_PREFIXES - 1 -> Strings]
      /\ commonPrefixes' \in [0 .. MAX_COMMON_PREFIXES - 1 -> Strings]
  BY <1>1, EmptyString DEF IInv, TypeOK
<1>6. /\ commonPrefixes'[commonPrefixesCount + 1] = Empty
      /\ \A i \in 0 .. (commonPrefixesCount + 1) - 1 : commonPrefixes'[i] = commonPrefixes[i]
  BY <1>1, <1>4, <1>5
<1>7. TypeOK'
  <2>1. commonPrefixesCount' \in 0 .. MAX_COMMON_PREFIXES
    BY <1>1, <1>4
  <2> QED
    BY <1>1, <1>2, <1>5, <2>1 DEF IInv, TypeOK
<1>8. FirstTexts(commonPrefixes', commonPrefixesCount + 1)
        = FirstTexts(commonPrefixes, commonPrefixesCount + 1)
  <2> DEFINE count == commonPrefixesCount + 1
  <2>1. /\ count \in 0 .. MAX_COMMON_PREFIXES
        /\ \A i \in 0 .. count - 1 : commonPrefixes'[i] = commonPrefixes[i]
    BY <1>4, <1>6
  <2> HIDE DEF count
  <2>2. FirstTexts(commonPrefixes', count) = FirstTexts(commonPrefixes, count)
    BY <1>4, <1>5, <2>1, FirstTextsKept, ZenonT(30)
  <2> QED
    BY <2>2 DEF count
<1>9. PrefixesInOrder'
  <2>1. reported.prefixes \o FirstTexts(commonPrefixes, commonPrefixesCount + 1)
          = Append(reported.prefixes \o FirstTexts(commonPrefixes, commonPrefixesCount),
                   commonPrefixes[commonPrefixesCount].text)
    BY <1>2, BatchFacts
  <2>2. Waiting(commonPrefixes, commonPrefixesCount)'
          = FirstTexts(commonPrefixes, commonPrefixesCount + 1)
    BY <1>1, <1>2, <1>8 DEF Waiting
  <2> QED
    BY <1>1, <1>2, <1>3, <2>1, <2>2 DEF PrefixesInOrder, PrefixesRight
<1>10. ItemsInOrder'
  <2>1. Waiting(items, itemsCount)' = Waiting(items, itemsCount)
    BY <1>1, <1>2 DEF Waiting
  <2> QED
    BY <1>1, <1>2, <1>3, <2>1 DEF IInv, ItemsInOrder
<1>11. ItemInPlace' /\ PrefixInPlace'
  BY <1>1, <1>2, <1>3, <1>6 DEF ItemInPlace, PrefixInPlace
<1>12. PlaceForNext' /\ (status' = "OK" => ~refused')
  BY <1>1, <1>2, <1>4, Sizes DEF PlaceForNext
<1>13. StartIsCounted' /\ StartCountsReported'
  BY <1>1, <1>2 DEF IInv, StartIsCounted, StartCountsReported
<1> QED
  BY <1>7, <1>9, <1>10, <1>11, <1>12, <1>13 DEF IInv

\* A batch that is passed on: the history of the calls.
LEMMA Reporting ==
  ASSUME IInv, ~completed, NEW itemCount \in 0 .. MAX_ITEMS,
         NEW prefixCount \in 0 .. MAX_COMMON_PREFIXES, Report(itemCount, prefixCount)
  PROVE  /\ reported' \in [items : Seq(Texts), prefixes : Seq(Texts)]
         /\ reported'.items = reported.items \o FirstTexts(items, itemCount)
         /\ reported'.prefixes = reported.prefixes \o FirstTexts(commonPrefixes, prefixCount)
         /\ Len(reported'.items) = Len(reported.items) + itemCount
         /\ Len(reported.items) \in Nat
         /\ listing = "parts" /\ status = "OK" => \A call \in firsts' : call.start = call.before
<1>1. /\ reported' = [items    |-> reported.items \o FirstTexts(items, itemCount),
                      prefixes |-> reported.prefixes \o FirstTexts(commonPrefixes, prefixCount)]
      /\ firsts' = firsts \cup {[start |-> handlePartsStart, before |-> Len(reported.items)]}
  BY DEF Report
<1>2. /\ reported.items \in Seq(Texts) /\ reported.prefixes \in Seq(Texts)
      /\ FirstTexts(items, itemCount) \in Seq(Texts) /\ Len(FirstTexts(items, itemCount)) = itemCount
      /\ FirstTexts(commonPrefixes, prefixCount) \in Seq(Texts)
  BY BatchFacts
<1>3. /\ reported.items \o FirstTexts(items, itemCount) \in Seq(Texts)
      /\ reported.prefixes \o FirstTexts(commonPrefixes, prefixCount) \in Seq(Texts)
      /\ Len(reported.items \o FirstTexts(items, itemCount)) = Len(reported.items) + itemCount
      /\ Len(reported.items) \in Nat
  <2> DEFINE s == reported.items
             t == FirstTexts(items, itemCount)
             u == reported.prefixes
             v == FirstTexts(commonPrefixes, prefixCount)
  <2>1. /\ s \in Seq(Texts) /\ t \in Seq(Texts) /\ Len(t) = itemCount
        /\ u \in Seq(Texts) /\ v \in Seq(Texts)
    BY <1>2
  <2> HIDE DEF s, t, u, v
  <2>2. s \o t \in Seq(Texts) /\ Len(s \o t) = Len(s) + itemCount /\ Len(s) \in Nat
    BY <2>1, ConcatProperties, LenProperties
  <2>3. u \o v \in Seq(Texts)
    BY <2>1
  <2> QED
    BY <2>2, <2>3 DEF s, t, u, v
<1>4. listing = "parts" /\ status = "OK" => \A call \in firsts' : call.start = call.before
  BY <1>1 DEF IInv, StartIsCounted, StartCountsReported
<1> QED
  BY <1>1, <1>3, <1>4

\* The batch was accepted: the arrays are empty, and what waited was reported.
LEMMA Accepted ==
  ASSUME IInv, ~completed, status = "OK", UNCHANGED <<listing, completed>>, open' = "none",
         received' = 0, closed' \in [item : Seq(Elements), prefix : Seq(Elements)],
         NEW itemCount \in 0 .. MAX_ITEMS, NEW prefixCount \in 0 .. MAX_COMMON_PREFIXES,
         Accept(itemCount, prefixCount),
         reported.items \o FirstTexts(items, itemCount) = Expected(closed'.item, Held(ItemSize)),
         PrefixesRight(reported.prefixes \o FirstTexts(commonPrefixes, prefixCount), closed'.prefix)
  PROVE  IInv'
<1>1. /\ Report(itemCount, prefixCount)
      /\ handlePartsStart' = handlePartsStart + IF listing = "parts" THEN itemCount ELSE 0
      /\ itemsCount' = 0 /\ items' = [items EXCEPT ![0] = Empty]
      /\ commonPrefixesCount' = 0 /\ commonPrefixes' = [commonPrefixes EXCEPT ![0] = Empty]
      /\ UNCHANGED <<status, refused>>
  BY Zenon DEF Accept, InitializeData
<1>2. /\ reported' \in [items : Seq(Texts), prefixes : Seq(Texts)]
      /\ reported'.items = reported.items \o FirstTexts(items, itemCount)
      /\ reported'.prefixes = reported.prefixes \o FirstTexts(commonPrefixes, prefixCount)
      /\ Len(reported'.items) = Len(reported.items) + itemCount
      /\ Len(reported.items) \in Nat
      /\ listing = "parts" /\ status = "OK" => \A call \in firsts' : call.start = call.before
  BY <1>1, Reporting
<1>3. TypeOK /\ handlePartsStart \in Nat /\ itemCount \in Nat
  BY Sizes DEF IInv, TypeOK
<1>4. TypeOK'
  <2>1. /\ items' \in [0 .. MAX_ITEMS - 1 -> Strings]
        /\ commonPrefixes' \in [0 .. MAX_COMMON_PREFIXES - 1 -> Strings]
    BY <1>1, <1>3, EmptyString, Zenon DEF TypeOK
  <2>2. itemsCount' \in 0 .. MAX_ITEMS /\ commonPrefixesCount' \in 0 .. MAX_COMMON_PREFIXES
    BY <1>1, Sizes
  <2>3. handlePartsStart' \in Nat
    BY <1>1, <1>3
  <2> QED
    BY <1>1, <1>2, <1>3, <2>1, <2>2, <2>3 DEF TypeOK
<1>5. ItemInPlace' /\ PrefixInPlace'
  <2>1. 0 \in 0 .. MAX_ITEMS - 1 /\ 0 \in 0 .. MAX_COMMON_PREFIXES - 1
    BY Sizes
  <2>2. items'[0] = Empty /\ commonPrefixes'[0] = Empty
    BY <1>1, <1>3, <2>1 DEF TypeOK
  <2> QED
    BY <1>1, <2>2 DEF ItemInPlace, PrefixInPlace
<1>6. ItemsInOrder'
  <2>1. reported'.items \o <<>> = reported'.items
    BY <1>2, ConcatEmptySeq
  <2>2. Waiting(items, itemsCount)' = <<>>
    BY <1>1, NoFirstTexts DEF Waiting
  <2> QED
    BY <1>2, <2>1, <2>2 DEF ItemsInOrder
<1>7. PrefixesInOrder'
  <2>1. reported'.prefixes \o <<>> = reported'.prefixes
    BY <1>2, ConcatEmptySeq
  <2>2. Waiting(commonPrefixes, commonPrefixesCount)' = <<>>
    BY <1>1, NoFirstTexts DEF Waiting
  <2> QED
    BY <1>2, <2>1, <2>2 DEF PrefixesInOrder, PrefixesRight
<1>8. StartIsCounted'
  BY <1>1, <1>2, <1>3 DEF IInv, StartIsCounted
<1>9. StartCountsReported'
  BY <1>1, <1>2 DEF StartCountsReported
<1>10. PlaceForNext' /\ (status' = "OK" => ~refused')
  BY <1>1, Sizes DEF IInv, PlaceForNext
<1> QED
  BY <1>4, <1>5, <1>6, <1>7, <1>8, <1>9, <1>10 DEF IInv

\* The batch was refused: the parser stops.
LEMMA Refused ==
  ASSUME IInv, ~completed, UNCHANGED <<listing, completed>>, open' = "none",
         received' = 0, closed' \in [item : Seq(Elements), prefix : Seq(Elements)],
         NEW itemCount \in 0 .. MAX_ITEMS, NEW prefixCount \in 0 .. MAX_COMMON_PREFIXES,
         Refuse(itemCount, prefixCount)
  PROVE  IInv'
<1>1. /\ status' # "OK" /\ refused' = TRUE /\ Report(itemCount, prefixCount)
      /\ itemsCount' = itemCount /\ commonPrefixesCount' = prefixCount
      /\ UNCHANGED <<items, commonPrefixes, handlePartsStart>>
  BY Zenon DEF Refuse
<1>2. reported' \in [items : Seq(Texts), prefixes : Seq(Texts)]
  BY <1>1, Reporting
<1>3. TypeOK'
  BY <1>1, <1>2 DEF IInv, TypeOK
<1> QED
  BY <1>1, <1>3
     DEF IInv, Parsing, PlaceForNext, ItemsInOrder, PrefixesInOrder, StartIsCounted,
         StartCountsReported

LEMMA StepLastItem ==
  ASSUME IInv, LastItem
  PROVE  IInv'
<1>1. /\ CloseElement("item") /\ itemsCount + 1 = MAX_ITEMS
      /\ \/ Accept(itemsCount + 1, commonPrefixesCount)
         \/ Refuse(itemsCount + 1, commonPrefixesCount)
  BY Zenon DEF LastItem
<1>2. /\ ~completed /\ status = "OK" /\ ~refused
      /\ open' = "none" /\ received' = 0 /\ UNCHANGED <<listing, completed>>
      /\ closed' \in [item : Seq(Elements), prefix : Seq(Elements)]
      /\ itemsCount \in 0 .. MAX_ITEMS - 1
      /\ commonPrefixesCount \in 0 .. MAX_COMMON_PREFIXES - 1
  BY <1>1, Closing
<1>3. itemsCount + 1 \in 0 .. MAX_ITEMS /\ commonPrefixesCount \in 0 .. MAX_COMMON_PREFIXES
  BY <1>1, <1>2, Sizes
<1>4. reported.items \o FirstTexts(items, itemsCount + 1) = Expected(closed'.item, Held(ItemSize))
  <2>1. reported.items \o FirstTexts(items, itemsCount + 1)
          = Append(reported.items \o FirstTexts(items, itemsCount), items[itemsCount].text)
    BY <1>2, BatchFacts
  <2> QED
    BY <1>1, <2>1, ClosedItem
<1>5. PrefixesRight(reported.prefixes \o FirstTexts(commonPrefixes, commonPrefixesCount),
                    closed'.prefix)
  <2>1. closed'.prefix = closed.prefix
    BY <1>1, ClosedItem
  <2> QED
    BY <1>2, <2>1 DEF IInv, PrefixesInOrder, Waiting
<1>6. CASE Accept(itemsCount + 1, commonPrefixesCount)
  <2> DEFINE count == itemsCount + 1
  <2>1. count \in 0 .. MAX_ITEMS /\ Accept(count, commonPrefixesCount)
        /\ reported.items \o FirstTexts(items, count) = Expected(closed'.item, Held(ItemSize))
    BY <1>3, <1>4, <1>6
  <2> HIDE DEF count
  <2> QED
    BY <1>2, <1>3, <1>5, <2>1, Accepted
<1>7. CASE Refuse(itemsCount + 1, commonPrefixesCount)
  <2> DEFINE count == itemsCount + 1
  <2>1. count \in 0 .. MAX_ITEMS /\ Refuse(count, commonPrefixesCount)
    BY <1>3, <1>7
  <2> HIDE DEF count
  <2> QED
    BY <1>2, <1>3, <2>1, Refused
<1> QED
  BY <1>1, <1>6, <1>7

LEMMA StepLastPrefix ==
  ASSUME IInv, LastPrefix
  PROVE  IInv'
<1>1. /\ CloseElement("prefix") /\ commonPrefixesCount + 1 = MAX_COMMON_PREFIXES
      /\ \/ Accept(itemsCount, commonPrefixesCount + 1)
         \/ Refuse(itemsCount, commonPrefixesCount + 1)
  BY Zenon DEF LastPrefix
<1>2. /\ ~completed /\ status = "OK" /\ ~refused
      /\ open' = "none" /\ received' = 0 /\ UNCHANGED <<listing, completed>>
      /\ closed' \in [item : Seq(Elements), prefix : Seq(Elements)]
      /\ itemsCount \in 0 .. MAX_ITEMS - 1
      /\ commonPrefixesCount \in 0 .. MAX_COMMON_PREFIXES - 1
  BY <1>1, Closing
<1>3. itemsCount \in 0 .. MAX_ITEMS /\ commonPrefixesCount + 1 \in 0 .. MAX_COMMON_PREFIXES
  BY <1>1, <1>2, Sizes
<1>4. reported.items \o FirstTexts(items, itemsCount) = Expected(closed'.item, Held(ItemSize))
  <2>1. closed'.item = closed.item
    BY <1>1, ClosedPrefix
  <2> QED
    BY <1>2, <2>1 DEF IInv, ItemsInOrder, Waiting
<1>5. PrefixesRight(reported.prefixes \o FirstTexts(commonPrefixes, commonPrefixesCount + 1),
                    closed'.prefix)
  <2>1. reported.prefixes \o FirstTexts(commonPrefixes, commonPrefixesCount + 1)
          = Append(reported.prefixes \o FirstTexts(commonPrefixes, commonPrefixesCount),
                   commonPrefixes[commonPrefixesCount].text)
    BY <1>2, BatchFacts
  <2> QED
    BY <1>1, <2>1, ClosedPrefix
<1>6. CASE Accept(itemsCount, commonPrefixesCount + 1)
  <2> DEFINE count == commonPrefixesCount + 1
  <2>1. /\ count \in 0 .. MAX_COMMON_PREFIXES /\ Accept(itemsCount, count)
        /\ PrefixesRight(reported.prefixes \o FirstTexts(commonPrefixes, count), closed'.prefix)
    BY <1>3, <1>5, <1>6
  <2> HIDE DEF count
  <2> QED
    BY <1>2, <1>3, <1>4, <2>1, Accepted
<1>7. CASE Refuse(itemsCount, commonPrefixesCount + 1)
  <2> DEFINE count == commonPrefixesCount + 1
  <2>1. count \in 0 .. MAX_COMMON_PREFIXES /\ Refuse(itemsCount, count)
    BY <1>3, <1>7
  <2> HIDE DEF count
  <2> QED
    BY <1>2, <1>3, <2>1, Refused
<1> QED
  BY <1>1, <1>6, <1>7

LEMMA StepComplete ==
  ASSUME IInv, CompleteCallback
  PROVE  IInv'
<1>1. /\ ~completed /\ completed' = TRUE
      /\ IF itemsCount # 0 \/ commonPrefixesCount # 0
         THEN Report(itemsCount, commonPrefixesCount) /\ UNCHANGED refused
         ELSE UNCHANGED calls
      /\ UNCHANGED <<listing, status, open, received, closed>>
      /\ UNCHANGED <<items, itemsCount, commonPrefixes, commonPrefixesCount, handlePartsStart>>
  BY Zenon DEF CompleteCallback, arrays
<1>2. /\ TypeOK /\ itemsCount \in 0 .. MAX_ITEMS
      /\ commonPrefixesCount \in 0 .. MAX_COMMON_PREFIXES
      /\ ~refused => reported.items \o FirstTexts(items, itemsCount)
                       = Expected(closed.item, Held(ItemSize))
      /\ ~refused =>
           PrefixesRight(reported.prefixes \o FirstTexts(commonPrefixes, commonPrefixesCount),
                         closed.prefix)
  BY <1>1 DEF IInv, TypeOK, ItemsInOrder, PrefixesInOrder, Waiting
<1>3. reported.items \in Seq(Texts) /\ reported.prefixes \in Seq(Texts)
  BY <1>2 DEF TypeOK
<1>4. /\ reported' \in [items : Seq(Texts), prefixes : Seq(Texts)] /\ UNCHANGED refused
      /\ reported'.items = reported.items \o FirstTexts(items, itemsCount)
      /\ reported'.prefixes = reported.prefixes \o FirstTexts(commonPrefixes, commonPrefixesCount)
      /\ listing = "parts" /\ status = "OK" => \A call \in firsts' : call.start = call.before
  <2>1. CASE itemsCount # 0 \/ commonPrefixesCount # 0
    <3>1. Report(itemsCount, commonPrefixesCount) /\ UNCHANGED refused
      BY <1>1, <2>1
    <3> QED
      BY <1>1, <1>2, <3>1, Reporting
  <2>2. CASE itemsCount = 0 /\ commonPrefixesCount = 0
    <3>1. UNCHANGED <<reported, refused, firsts>>
      BY <1>1, <2>2, Zenon DEF calls
    <3>2. FirstTexts(items, itemsCount) = <<>> /\ FirstTexts(commonPrefixes, commonPrefixesCount) = <<>>
      BY <2>2, NoFirstTexts
    <3>3. reported.items \o <<>> = reported.items /\ reported.prefixes \o <<>> = reported.prefixes
      BY <1>3, ConcatEmptySeq
    <3> QED
      BY <1>2, <3>1, <3>2, <3>3 DEF IInv, TypeOK, StartCountsReported
  <2> QED
    BY <2>1, <2>2
<1>5. TypeOK'
  BY <1>1, <1>2, <1>4 DEF TypeOK
<1>6. reported'.items \o <<>> = reported'.items /\ reported'.prefixes \o <<>> = reported'.prefixes
  BY <1>4, ConcatEmptySeq
<1>7. Waiting(items, itemsCount)' = <<>> /\ Waiting(commonPrefixes, commonPrefixesCount)' = <<>>
  BY <1>1 DEF Waiting
<1>8. ItemsInOrder'
  BY <1>1, <1>2, <1>4, <1>6, <1>7 DEF ItemsInOrder
<1>9. PrefixesInOrder'
  <2>1. ~refused => PrefixesRight(reported'.prefixes, closed.prefix)
    BY <1>2, <1>4
  <2>2. ~refused' => PrefixesRight(reported.prefixes, closed.prefix)'
    BY <1>1, <1>4, <2>1 DEF PrefixesRight
  <2>3. (reported.prefixes \o Waiting(commonPrefixes, commonPrefixesCount))' = reported'.prefixes
    BY <1>6, <1>7
  <2> QED
    BY <2>2, <2>3 DEF PrefixesInOrder, PrefixesRight
<1>10. StartIsCounted' /\ StartCountsReported'
  BY <1>1, <1>4 DEF StartIsCounted, StartCountsReported
<1> QED
  BY <1>1, <1>4, <1>5, <1>8, <1>9, <1>10 DEF IInv, Parsing, PlaceForNext

LEMMA StepUnchanged ==
  ASSUME IInv, UNCHANGED vars
  PROVE  IInv'
<1>1. UNCHANGED <<listing, status, open, received, items, itemsCount, commonPrefixes,
                  commonPrefixesCount, handlePartsStart, completed, closed, reported, refused,
                  firsts>>
  BY DEF vars
<1> QED
  BY <1>1
     DEF IInv, TypeOK, Parsing, PlaceForNext, ItemInPlace, PrefixInPlace, PrefixSoFar, Current,
         ItemsInOrder, PrefixesInOrder, PrefixesRight, Waiting, StartIsCounted,
         StartCountsReported

-----------------------------------------------------------------------------
(* The theorems                                                            *)

\* The inductive invariant holds in every state.
THEOREM Invariance == Spec => []IInv
<1>1. IInv /\ [Next]_vars => IInv'
  <2> SUFFICES ASSUME IInv, [Next]_vars PROVE IInv'
    OBVIOUS
  <2>1. ASSUME NEW kind \in Kinds, StartElement(kind) PROVE IInv'
    BY <2>1, StepStart
  <2>2. ASSUME NEW n \in PieceLengths, ItemText(n) PROVE IInv'
    BY <2>2, StepItemText
  <2>3. ASSUME NEW n \in PieceLengths, PrefixText(n) PROVE IInv'
    BY <2>3, StepPrefixText
  <2>4. CASE NextItem
    BY <2>4, StepNextItem
  <2>5. CASE NextPrefix
    BY <2>5, StepNextPrefix
  <2>6. CASE LastItem
    BY <2>6, StepLastItem
  <2>7. CASE LastPrefix
    BY <2>7, StepLastPrefix
  <2>8. CASE CompleteCallback
    BY <2>8, StepComplete
  <2>9. CASE Finished
    BY <2>9, StepUnchanged DEF Finished
  <2>10. CASE UNCHANGED vars
    BY <2>10, StepUnchanged
  <2> QED
    BY <2>1, <2>2, <2>3, <2>4, <2>5, <2>6, <2>7, <2>8, <2>9, <2>10, Zenon DEF Next
<1> QED
  BY <1>1, InitInv, PTL DEF Spec

\* There is a place for the text of every element the parser reports, in an
\* array of any size: a batch that is full is passed on before the next element.
THEOREM PlacesLeft == Spec => []PlaceForNext
<1>1. IInv => PlaceForNext
  BY DEF IInv
<1> QED
  BY <1>1, Invariance, PTL

\* Until a batch is refused, every item is passed to the user's callback once,
\* in the document's order and with its own text cut to its buffer, however the
\* batches and the pieces of text are cut.  So is every prefix of list bucket;
\* of those of list multipart uploads, where the last piece takes the place of
\* the others, it says that they come once, in order, and have no character of
\* another element.
THEOREM EntriesReportedInOrder == Spec => []EntriesInOrder
<1>1. IInv => EntriesInOrder
  BY DEF IInv, ItemsInOrder, PrefixesInOrder, PrefixesRight, EntriesInOrder
<1> QED
  BY <1>1, Invariance, PTL

\* The number that list parts passes on with a batch is that of the parts it
\* passed on before.
THEOREM StartsAreCounted == Spec => []StartCountsReported
<1>1. IInv => StartCountsReported
  BY DEF IInv
<1> QED
  BY <1>1, Invariance, PTL
=============================================================================
