------------------------ MODULE MultipartUploadProofs ------------------------
(***************************************************************************)
(* The safety properties of MultipartUpload, for any chunk size, length,   *)
(* page size, number of retries, uploads and program starts.               *)
(***************************************************************************)
EXTENDS MultipartUpload, FiniteSetTheorems, SequenceTheorems, WellFoundedInduction, TLAPS

C == MULTIPART_CHUNK_SIZE

\* Where part n begins in the source.
Start(n) == C * (n - 1)

-----------------------------------------------------------------------------
(* The inductive invariant                                                 *)

Values == Seq(Nat) \cup {NoPart}

TypeOK ==
  /\ length \in ContentLengths /\ copying \in BOOLEAN
  /\ uploads \in 0 .. MaxUploads /\ upload_id \in 0 .. uploads
  /\ parts \in [1 .. MaxUploads -> [Numbers -> Values]]
  /\ etags \in [0 .. TotalSeq - 1 -> Values]
  /\ next_etags_pos \in Nat /\ remaining \in Int
  /\ contentLength \in Nat /\ seq \in Nat \ {0}
  /\ partContentLength \in Nat /\ partLeft \in Nat /\ position \in Nat
  /\ pc \in {"idle", "put", "initiate", "upload", "part", "commit", "list", "listed",
             "clean"}

\* S3 has the first parts of an upload.
NoGaps ==
  \A id \in 1 .. MaxUploads : \A n \in Numbers :
    parts[id][n] # NoPart => \A m \in 1 .. n : parts[id][m] # NoPart

\* The program has the ETags of the first k of them.
Kept(k) ==
  /\ upload_id \in 1 .. uploads
  /\ \A n \in 1 .. k : parts[upload_id][n] # NoPart /\ etags[n - 1] = parts[upload_id][n]

\* How far the program has got.
Progress ==
  /\ copying => length > C
  /\ pc = "put" => length <= C
  /\ pc \in {"idle", "initiate"} => seq = 1 /\ next_etags_pos = 0
  /\ pc \in {"idle", "list", "listed"} /\ next_etags_pos = 0 => nextPartNumberMarker = 0
  /\ pc \in {"list", "listed"} => /\ ~copying
                                  /\ next_etags_pos \in 0 .. TotalSeq
                                  /\ Kept(next_etags_pos)
  /\ pc \in {"upload", "part"} => seq <= TotalSeq + 1 /\ Kept(seq - 1)
  /\ pc = "part" => seq <= TotalSeq
  /\ pc = "commit" => Kept(TotalSeq)

\* What S3 is given as part n: of a copy's last part of one byte, everything.
Part(n) == IF LastByteAlone /\ n = TotalSeq THEN Bytes(0, length) ELSE Chunk(n)

\* What is sent next is what comes next, and what was sent is where it belongs.
InPlace ==
  /\ \A id \in 1 .. MaxUploads : \A n \in Numbers : parts[id][n] \in {NoPart, Part(n)}
  /\ pc \in {"idle", "initiate"} => position = 0 /\ contentLength = length
  /\ pc \in {"list", "listed"} =>
       remaining = length - Shorter(C * next_etags_pos, length)
  /\ pc \in {"upload", "part"} /\ seq <= TotalSeq => contentLength = length - Start(seq)
  /\ pc = "upload" /\ ~copying /\ seq <= TotalSeq => position = Start(seq)
  /\ pc = "part" =>
       /\ partContentLength = Shorter(contentLength, C)
       /\ ~copying => /\ partLeft <= partContentLength
                      /\ position = Start(seq) + partContentLength - partLeft

\* Success is reported for the object.
Reported ==
  pc = "clean" /\ statusG = "OK" => object = FlattenSeq([n \in Numbers |-> Part(n)])

IInv ==
  ~relisted => /\ TypeOK /\ NoGaps /\ Progress
               /\ length < IntMax => InPlace /\ Reported

-----------------------------------------------------------------------------
(* Induction: a set of numbers has a least one.                            *)

LEMMA LeastNumber ==
  ASSUME NEW T \in SUBSET Nat, T # {}
  PROVE  \E n \in T : \A m \in T : n <= m
<1> DEFINE R == OpToRel(<, Nat)
<1>1. IsWellFoundedOn(R, Nat)
  BY NatLessThanWellFounded
<1>2. PICK n \in T : \A m \in T : ~(<<m, n>> \in R)
  <2> HIDE DEF R
  <2> QED
    BY <1>1, WFMin
<1>3. \A m \in T : ~(m < n)
  BY <1>2 DEF OpToRel
<1> QED
  BY <1>3

LEMMA AllNumbers ==
  ASSUME NEW T \in SUBSET Nat, 0 \in T, \A n \in T : n + 1 \in T
  PROVE  T = Nat
<1> SUFFICES ASSUME T # Nat PROVE FALSE
  OBVIOUS
<1>1. PICK n \in Nat \ T : \A m \in Nat \ T : n <= m
  BY LeastNumber
<1>2. n # 0 /\ n - 1 \in Nat
  BY <1>1
<1>3. n - 1 \in T
  BY <1>1, <1>2
<1> QED
  BY <1>1, <1>3

-----------------------------------------------------------------------------
(* Arithmetic                                                              *)

LEMMA SmallRest ==
  ASSUME NEW x \in Nat, NEW M \in Nat, x < M
  PROVE  x % M = x
OBVIOUS

LEMMA RestRange ==
  ASSUME NEW x \in Int, NEW M \in Nat \ {0}
  PROVE  x % M \in 0 .. M - 1
OBVIOUS

LEMMA Widths ==
  /\ IntMax \in Nat /\ LongMod \in Nat /\ IntMax > 2 /\ LongMod >= 2 * IntMax
  /\ C \in Nat /\ 1 < C /\ C < IntMax
BY UploadAssumption DEF C

LEMMA ToIntIsInt ==
  ASSUME NEW n \in Int
  PROVE  /\ ToInt(n) \in Int
         /\ 0 <= n /\ n < IntMax => ToInt(n) = n
<1>1. 2 * IntMax \in Nat \ {0}
  BY Widths
<1>2. (n + IntMax) % (2 * IntMax) \in Int
  BY <1>1, Widths, RestRange
<1>3. ASSUME 0 <= n, n < IntMax PROVE (n + IntMax) % (2 * IntMax) = n + IntMax
  <2>1. n + IntMax \in Nat /\ n + IntMax < 2 * IntMax
    BY <1>3, Widths
  <2> QED
    BY <1>1, <2>1, SmallRest
<1> QED
  BY <1>2, <1>3, Widths DEF ToInt

LEMMA ToLongIsNat ==
  ASSUME NEW n \in Int
  PROVE  /\ ToLong(n) \in Nat
         /\ 0 <= n /\ n < IntMax => ToLong(n) = n
<1>1. ToLong(n) \in Nat
  BY Widths, RestRange DEF ToLong
<1>2. ASSUME 0 <= n, n < IntMax PROVE ToLong(n) = n
  <2>1. n \in Nat /\ n < LongMod
    BY <1>2, Widths
  <2> QED
    BY <2>1, Widths, SmallRest DEF ToLong
<1> QED
  BY <1>1, <1>2

LEMMA ShorterFacts ==
  ASSUME NEW a \in Int, NEW b \in Int
  PROVE  /\ Shorter(a, b) \in Int /\ Shorter(a, b) \in {a, b}
         /\ Shorter(a, b) <= a /\ Shorter(a, b) <= b
         /\ Shorter(a, b) = Shorter(b, a)
BY DEF Shorter

LEMMA DivisionFacts ==
  ASSUME NEW x \in Nat, NEW d \in Nat \ {0}
  PROVE  /\ x \div d \in Int
         /\ d * (x \div d) <= x /\ x < d * (x \div d) + d
         /\ d <= x => 1 <= x \div d
<1>1. x \div d \in Int
  OBVIOUS
<1>2. d * (x \div d) <= x
  OBVIOUS
<1>3. x < d * (x \div d) + d
  OBVIOUS
<1>4. d * 1 <= x => 1 <= x \div d
  OBVIOUS
<1> QED
  BY <1>1, <1>2, <1>3, <1>4

\* The parts cover the source.
LEMMA PartsCover ==
  ASSUME length \in Nat \ {0}
  PROVE  /\ TotalSeq \in Nat \ {0}
         /\ C * (TotalSeq - 1) < length /\ length <= C * TotalSeq
<1> DEFINE x == length + C - 1
           q == x \div C
<1>1. x \in Nat /\ C \in Nat \ {0} /\ length = x - C + 1 /\ x >= C
  BY Widths
<1>2. TotalSeq = q
  BY DEF TotalSeq, C
<1>3. q \in Int /\ C * q <= x /\ x < C * q + C /\ 1 <= q
  <2> HIDE DEF x
  <2> QED
    BY <1>1, DivisionFacts
<1> HIDE DEF x, q
<1>4. C * (q - 1) = C * q - C /\ C * q \in Int
  BY <1>1, <1>3
<1>5. C * (q - 1) < length /\ length <= C * q
  BY <1>1, <1>3, <1>4
<1> QED
  BY <1>2, <1>3, <1>5

\* Where a part begins and ends.
LEMMA StartFacts ==
  ASSUME length \in Nat \ {0}, NEW n \in Nat \ {0}
  PROVE  /\ Start(n) \in Nat /\ Start(1) = 0 /\ Start(n + 1) = Start(n) + C
         /\ n <= TotalSeq => Start(n) < length
         /\ n < TotalSeq => Start(n) + C < length
         /\ n = TotalSeq => length <= Start(n) + C
<1>1. C \in Nat /\ TotalSeq \in Nat
  BY Widths, PartsCover
<1>2. Start(n) \in Nat /\ Start(1) = 0 /\ Start(n + 1) = Start(n) + C
  BY <1>1 DEF Start
<1>3. ASSUME NEW m \in Nat, m <= TotalSeq - 1 PROVE C * m <= C * (TotalSeq - 1)
  BY <1>1, <1>3, PartsCover
<1>4. n <= TotalSeq => Start(n) < length
  BY <1>1, <1>2, <1>3, PartsCover DEF Start
<1>5. n < TotalSeq => Start(n) + C < length
  <2> SUFFICES ASSUME n < TotalSeq PROVE Start(n) + C < length
    OBVIOUS
  <2>1. C * n <= C * (TotalSeq - 1)
    BY <1>1, <1>3
  <2> QED
    BY <1>1, <2>1, PartsCover DEF Start
<1>6. n = TotalSeq => length <= Start(n) + C
  BY <1>1, <1>2, PartsCover DEF Start
<1> QED
  BY <1>2, <1>4, <1>5, <1>6

-----------------------------------------------------------------------------
(* The parts that are listed                                               *)

\* What is left of a file after each part is taken off.
LEMMA RemainingSteps ==
  ASSUME remaining \in Int, NEW count \in Nat,
         \A i \in 1 .. count : Len(parts[upload_id][Page[i]]) \in Int
  PROVE  \E left \in [0 .. count -> Int] :
           /\ left[0] = remaining
           /\ \A i \in 1 .. count :
                left[i] = ToInt(left[i - 1] - Len(parts[upload_id][Page[i]]))
           /\ RemainingAfter(count) = left[count]
<1> DEFINE Size(i) == Len(parts[upload_id][Page[i]])
           Step(f, i) == IF i = 0 THEN remaining ELSE ToInt(f[i - 1] - Size(i))
           Defined(n) == \E f \in [0 .. n -> Int] : \A i \in 0 .. n : f[i] = Step(f, i)
           Good == {n \in Nat : n <= count => Defined(n)}
           left == CHOOSE f : f = [i \in 0 .. count |-> Step(f, i)]
<1>1. RemainingAfter(count) = left[count]
  BY DEF RemainingAfter
<1>2. \A i \in 1 .. count : Size(i) \in Int
  OBVIOUS
<1> HIDE DEF Size
<1>3. Defined(0)
  <2> DEFINE f == [i \in 0 .. 0 |-> remaining]
  <2>1. f \in [0 .. 0 -> Int] /\ f[0] = remaining /\ \A i \in 0 .. 0 : i = 0
    OBVIOUS
  <2> HIDE DEF f
  <2>2. \A i \in 0 .. 0 : f[i] = Step(f, i)
    BY <2>1
  <2> QED
    BY <2>1, <2>2
<1>4. ASSUME NEW n \in Nat, n + 1 <= count, Defined(n) PROVE Defined(n + 1)
  <2>1. PICK f \in [0 .. n -> Int] : \A i \in 0 .. n : f[i] = Step(f, i)
    BY <1>4
  <2> DEFINE g == [i \in 0 .. n + 1 |-> IF i <= n THEN f[i] ELSE ToInt(f[n] - Size(n + 1))]
  <2>2. ToInt(f[n] - Size(n + 1)) \in Int
    BY <1>2, <1>4, ToIntIsInt
  <2>3. g \in [0 .. n + 1 -> Int]
    BY <2>2
  <2>4. /\ \A i \in 0 .. n : g[i] = f[i]
        /\ g[n + 1] = ToInt(f[n] - Size(n + 1))
    OBVIOUS
  <2> HIDE DEF g
  <2>5. ASSUME NEW i \in 0 .. n PROVE g[i] = Step(g, i)
    <3>1. i # 0 => i - 1 \in 0 .. n
      OBVIOUS
    <3> QED
      BY <2>1, <2>4, <3>1
  <2>6. g[n + 1] = Step(g, n + 1)
    <3>1. n + 1 # 0 /\ n + 1 - 1 = n /\ n \in 0 .. n
      OBVIOUS
    <3> QED
      BY <2>4, <3>1
  <2>7. \A i \in 0 .. n + 1 : g[i] = Step(g, i)
    <3>1. \A i \in 0 .. n + 1 : i \in 0 .. n \/ i = n + 1
      OBVIOUS
    <3> QED
      BY <2>5, <2>6, <3>1
  <2> QED
    BY <2>3, <2>7
<1>5. Defined(count)
  <2> HIDE DEF Defined
  <2>1. Good \in SUBSET Nat /\ 0 \in Good /\ \A n \in Good : n + 1 \in Good
    BY <1>3, <1>4
  <2> HIDE DEF Good
  <2>2. count \in Good
    BY <2>1, AllNumbers
  <2> QED
    BY <2>2 DEF Good
<1>6. PICK f \in [0 .. count -> Int] : \A i \in 0 .. count : f[i] = Step(f, i)
  BY <1>5
<1>7. f = [i \in 0 .. count |-> Step(f, i)]
  BY <1>6
<1>8. left = [i \in 0 .. count |-> Step(left, i)]
  BY <1>7
<1> HIDE DEF left, Defined, Good
<1>9. left[0] = remaining /\ \A i \in 1 .. count : left[i] = ToInt(left[i - 1] - Size(i))
  BY <1>8
<1>10. \A i \in 0 .. count : left[i] \in Int
  <2> DEFINE Typed == {n \in Nat : n <= count => left[n] \in Int}
  <2>1. 0 \in Typed
    BY <1>9
  <2>2. ASSUME NEW n \in Typed PROVE n + 1 \in Typed
    <3> SUFFICES ASSUME n + 1 <= count PROVE left[n + 1] \in Int
      OBVIOUS
    <3>1. left[n + 1] = ToInt(left[n] - Size(n + 1)) /\ left[n] \in Int
      <4>1. n + 1 \in 1 .. count /\ n + 1 - 1 = n
        OBVIOUS
      <4> QED
        BY <1>9, <4>1
    <3>2. n + 1 \in 1 .. count
      OBVIOUS
    <3>3. Size(n + 1) \in Int
      BY <1>2, <3>2
    <3>4. left[n] - Size(n + 1) \in Int
      BY <3>1, <3>3
    <3> QED
      BY <3>1, <3>4, ToIntIsInt
  <2>3. Typed \in SUBSET Nat
    OBVIOUS
  <2> HIDE DEF Typed
  <2>4. Typed = Nat
    BY <2>1, <2>2, <2>3, AllNumbers
  <2> QED
    BY <2>4 DEF Typed
<1>11. left \in [0 .. count -> Int]
  BY <1>8, <1>10
<1> QED
  BY <1>1, <1>9, <1>11 DEF Size

\* The first page of the parts 1 .. k is the parts 1, 2, ...
LEMMA PageOfPrefix ==
  ASSUME NEW k \in Nat, Stored = 1 .. k, nextPartNumberMarker = 0
  PROVE  /\ DOMAIN Page = 1 .. Shorter(k, PageSize) /\ Len(Page) = Shorter(k, PageSize)
         /\ \A i \in 1 .. Shorter(k, PageSize) : Page[i] = i
<1>1. After = 1 .. k
  BY DEF After
<1>2. \A n \in Nat : Cardinality(1 .. n) = n
  <2> SUFFICES ASSUME NEW n \in Nat PROVE Cardinality(1 .. n) = n
    OBVIOUS
  <2>1. Cardinality(1 .. n) = IF 1 > n THEN 0 ELSE n - 1 + 1
    BY FS_Interval
  <2> QED
    BY <2>1
<1>3. Shorter(k, PageSize) \in Nat /\ Shorter(k, PageSize) <= k
  <2>1. PageSize \in Nat
    BY UploadAssumption
  <2> QED
    BY <2>1 DEF Shorter
<1>4. \A n \in 1 .. k : {m \in 1 .. k : m <= n} = 1 .. n
  OBVIOUS
<1>5. \A n \in 1 .. k : Cardinality({m \in 1 .. k : m <= n}) = n
  <2>1. 1 .. k \subseteq Nat
    OBVIOUS
  <2> QED
    BY <1>2, <1>4, <2>1, Zenon
<1>6. Page = [i \in 1 .. Shorter(k, PageSize) |->
                CHOOSE n \in 1 .. k : Cardinality({m \in 1 .. k : m <= n}) = i]
  BY <1>1, <1>2 DEF Page
<1>7. ASSUME NEW i \in 1 .. Shorter(k, PageSize) PROVE Page[i] = i
  <2>1. i \in 1 .. k
    BY <1>3
  <2>2. (CHOOSE n \in 1 .. k : Cardinality({m \in 1 .. k : m <= n}) = i) = i
    BY <1>5, <2>1
  <2> QED
    BY <1>6, <2>2
<1>8. DOMAIN Page = 1 .. Shorter(k, PageSize) /\ Len(Page) = Shorter(k, PageSize)
  BY <1>3, <1>6
<1> QED
  BY <1>7, <1>8

\* Parts that are stored without a gap are the parts 1 .. k.
LEMMA PrefixIsInterval ==
  ASSUME TotalSeq \in Nat, \A n \in Stored : \A m \in 1 .. n : m \in Stored
  PROVE  \E k \in 0 .. TotalSeq : Stored = 1 .. k
<1> DEFINE Gaps == {n \in Nat : n + 1 \notin Stored}
<1>1. Stored \subseteq 1 .. TotalSeq
  BY DEF Stored, Numbers
<1>2. TotalSeq \in Gaps
  BY <1>1
<1>3. PICK k \in Gaps : \A n \in Gaps : k <= n
  <2>1. Gaps \in SUBSET Nat /\ Gaps # {}
    BY <1>2
  <2> HIDE DEF Gaps
  <2> QED
    BY <2>1, LeastNumber
<1>4. k \in 0 .. TotalSeq
  BY <1>2, <1>3
<1>5. ASSUME NEW n \in 1 .. k PROVE n \in Stored
  <2>1. n - 1 \in Nat /\ ~(k <= n - 1) /\ n - 1 + 1 = n
    OBVIOUS
  <2> QED
    BY <1>3, <2>1
<1>6. ASSUME NEW n \in Stored PROVE n \in 1 .. k
  <2> SUFFICES ASSUME n > k PROVE FALSE
    BY <1>1, <1>4
  <2>1. k + 1 \in 1 .. n
    BY <1>1
  <2> QED
    BY <2>1
<1> QED
  BY <1>4, <1>5, <1>6

-----------------------------------------------------------------------------
(* The steps                                                               *)

Content == FlattenSeq([n \in Numbers |-> Part(n)])

\* The source stays what it is.
LEMMA SameSource ==
  ASSUME UNCHANGED source
  PROVE  /\ UNCHANGED <<length, copying, TotalSeq, Numbers, Content>>
         /\ \A n : Part(n)' = Part(n)
BY DEF source, TotalSeq, Numbers, Content, Part, Chunk, LastByteAlone

LEMMA Lengths ==
  ASSUME TypeOK
  PROVE  /\ length \in Nat \ {0} /\ length < LongMod
         /\ TotalSeq \in Nat \ {0} /\ Numbers = 1 .. TotalSeq
<1>1. length \in Nat \ {0} /\ length < LongMod
  BY UploadAssumption DEF TypeOK
<1> QED
  BY <1>1, PartsCover DEF Numbers

LEMMA InitIInv == Init => IInv
<1> SUFFICES ASSUME Init PROVE TypeOK /\ NoGaps /\ Progress /\ InPlace /\ Reported
  BY DEF IInv
<1>1. length \in Nat \ {0} /\ TotalSeq \in Nat /\ (copying => length > C)
  BY UploadAssumption, PartsCover DEF Init, C
<1>2. TypeOK
  <2>1. etags \in [0 .. TotalSeq - 1 -> Values]
    BY DEF Init, Values
  <2>2. parts \in [1 .. MaxUploads -> [Numbers -> Values]]
    BY DEF Init, Values
  <2>3. uploads \in 0 .. MaxUploads /\ upload_id \in 0 .. uploads
    BY UploadAssumption DEF Init
  <2>4. /\ contentLength \in Nat /\ partContentLength \in Nat /\ partLeft \in Nat
        /\ position \in Nat /\ seq \in Nat \ {0} /\ next_etags_pos \in Nat
        /\ remaining \in Int
    BY <1>1 DEF Init
  <2>5. length \in ContentLengths /\ copying \in BOOLEAN /\ pc = "idle"
    BY DEF Init
  <2> QED
    BY <2>1, <2>2, <2>3, <2>4, <2>5 DEF TypeOK
<1>3. NoGaps
  BY DEF Init, NoGaps
<1>4. Progress
  BY <1>1 DEF Init, Progress, C
<1>5. InPlace
  BY DEF Init, InPlace
<1> QED
  BY <1>2, <1>3, <1>4, <1>5 DEF Init, Reported

\* An invariant state before a step that does not list again.
Before == IInv /\ ~relisted

LEMMA StartPutInv ==
  ASSUME Before, StartPut
  PROVE  TypeOK' /\ NoGaps' /\ Progress' /\ (length' < IntMax => InPlace' /\ Reported')
<1>1. UNCHANGED source
  BY DEF StartPut, Begin
<1>2. /\ pc = "idle" /\ pc' = IF length <= MULTIPART_CHUNK_SIZE THEN "put" ELSE "initiate"
      /\ UNCHANGED <<uploads, open, parts, object, upload_id, etags, next_etags_pos,
                     remaining, contentLength, seq, partContentLength, partLeft,
                     position, isTruncated, nextPartNumberMarker, statusG>>
  BY DEF StartPut, Begin, server, putVars, listVars
<1>3. TypeOK'
  BY <1>1, <1>2, SameSource DEF Before, IInv, TypeOK
<1>4. NoGaps'
  BY <1>1, <1>2, SameSource DEF Before, IInv, NoGaps
<1>5. Progress'
  BY <1>1, <1>2, SameSource DEF Before, IInv, Progress, C
<1>6. length < IntMax => InPlace'
  BY <1>1, <1>2, SameSource DEF Before, IInv, InPlace
<1>7. Reported'
  BY <1>2 DEF Reported
<1> QED
  BY <1>1, <1>3, <1>4, <1>5, <1>6, <1>7, SameSource

LEMMA StartContinueInv ==
  ASSUME Before, StartContinue
  PROVE  TypeOK' /\ NoGaps' /\ Progress' /\ (length' < IntMax => InPlace' /\ Reported')
<1>1. PICK id \in 1 .. uploads :
        /\ ~copying /\ Begin("list") /\ upload_id' = id /\ remaining' = ToInt(length)
  BY DEF StartContinue
<1>2. UNCHANGED source
  BY <1>1 DEF Begin
<1>3. /\ pc = "idle" /\ pc' = "list"
      /\ UNCHANGED <<uploads, open, parts, object, etags, next_etags_pos,
                     contentLength, seq, partContentLength, partLeft,
                     position, isTruncated, nextPartNumberMarker, statusG>>
  BY <1>1 DEF Begin, server, putVars, listVars
<1>4. length \in Nat /\ TotalSeq \in Nat
  BY Lengths DEF Before, IInv
<1>5. remaining' \in Int /\ (length < IntMax => remaining' = length)
  BY <1>1, <1>4, ToIntIsInt
<1>6. uploads \in Nat /\ upload_id' \in 0 .. uploads
  BY <1>1 DEF Before, IInv, TypeOK
<1>7. TypeOK'
  BY <1>2, <1>3, <1>5, <1>6, SameSource DEF Before, IInv, TypeOK
<1>8. NoGaps'
  BY <1>2, <1>3, SameSource DEF Before, IInv, NoGaps
<1>9. Progress'
  BY <1>1, <1>2, <1>3, <1>4, SameSource DEF Before, IInv, Progress, Kept
<1>10. length < IntMax => InPlace'
  <2>1. next_etags_pos' = 0
    BY <1>3 DEF Before, IInv, Progress
  <2>2. C * 0 = 0
    BY Widths
  <2>3. Shorter(0, length) = 0 /\ length - 0 = length
    BY <1>4 DEF Shorter
  <2> QED
    BY <1>2, <1>3, <1>5, <2>1, <2>2, <2>3, SameSource DEF Before, IInv, InPlace
<1>11. Reported'
  BY <1>3 DEF Reported
<1> QED
  BY <1>2, <1>7, <1>8, <1>9, <1>10, <1>11, SameSource

\* The program is killed or ends.
LEMMA ResetInv ==
  ASSUME Before, NEW report, Reset(report)
  PROVE  TypeOK' /\ NoGaps' /\ Progress' /\ (length' < IntMax => InPlace' /\ Reported')
<1>1. UNCHANGED source
  BY DEF Reset
<1>2. /\ pc' = "idle" /\ upload_id' = 0 /\ next_etags_pos' = 0 /\ remaining' = 0
      /\ etags' = [i \in 0 .. TotalSeq - 1 |-> NoPart]
      /\ contentLength' = length /\ seq' = 1 /\ position' = 0
      /\ partContentLength' = 0 /\ partLeft' = length /\ nextPartNumberMarker' = 0
      /\ UNCHANGED <<uploads, open, parts, object>>
  BY DEF Reset, server
<1>3. length \in Nat
  BY Lengths DEF Before, IInv
<1>4. etags' \in [0 .. TotalSeq - 1 -> Values] /\ upload_id' \in 0 .. uploads
  BY <1>2 DEF Before, IInv, TypeOK, Values
<1>5. TypeOK'
  BY <1>1, <1>2, <1>3, <1>4, SameSource DEF Before, IInv, TypeOK
<1>6. NoGaps'
  BY <1>1, <1>2, SameSource DEF Before, IInv, NoGaps
<1>7. Progress'
  BY <1>1, <1>2, SameSource DEF Before, IInv, Progress
<1>8. length < IntMax => InPlace'
  BY <1>1, <1>2, SameSource DEF Before, IInv, InPlace
<1>9. Reported'
  BY <1>2 DEF Reported
<1> QED
  BY <1>1, <1>5, <1>6, <1>7, <1>8, <1>9, SameSource

\* A request ends.
LEMMA ConcludeFacts ==
  ASSUME NEW result, NEW at, NEW then, Conclude(result, at, then)
  PROVE  /\ pc' \in {then, at, "clean"} /\ statusG' = result
         /\ pc' = at => result # "OK" \/ at = then
         /\ pc' = then => result = "OK" \/ then \in {at, "clean"}
         /\ pc' = "clean" => result # "OK" \/ then = "clean"
BY DEF Conclude

LEMMA BytesFacts ==
  ASSUME NEW from \in Nat, NEW count \in Nat
  PROVE  /\ Bytes(from, count) \in Seq(Nat) /\ Len(Bytes(from, count)) = count
         /\ Bytes(from, count) \in Values /\ Bytes(from, count) # NoPart
<1>1. /\ \A i \in 1 .. count : from + i \in Nat
      /\ Bytes(from, count) = [i \in 1 .. count |-> from + i]
  BY DEF Bytes
<1>2. Bytes(from, count) \in Seq(Nat) /\ Len(Bytes(from, count)) = count
  BY <1>1
<1> QED
  BY <1>2, UploadAssumption DEF Values

\* What a request reads of the file.
LEMMA SupplyFacts ==
  ASSUME TypeOK, NEW sent, Supply(sent)
  PROVE  /\ sent \in Nat /\ sent <= partLeft
         /\ position' = position + sent /\ position' \in Nat
         /\ partLeft' = partLeft - sent /\ partLeft' \in Nat
         /\ sent > 0 => position + sent <= length
<1>1. length \in Nat /\ partLeft \in Nat /\ position \in Nat
  BY Lengths DEF TypeOK
<1>2. sent \in 0 .. Available /\ position' = position + sent /\ partLeft' = partLeft - sent
  BY DEF Supply
<1>3. /\ Available \in Int /\ Available <= partLeft
      /\ position < length => Available <= length - position
      /\ position >= length => Available <= 0
  BY <1>1 DEF Available, Shorter
<1> QED
  BY <1>1, <1>2, <1>3

\* The single request sends the whole source or leaves the object what it was.
LEMMA PutObjectTakes ==
  ASSUME Before, PutObject
  PROVE  object' \in {object, Content} /\ (statusG' = "OK" => object' = Content)
<1>1. PICK sent \in 0 .. length, result \in Results :
        /\ Conclude(result, "put", "clean")
        /\ Supply(sent)
        /\ \E taken \in Taken(length, sent, result) :
             object' = IF taken THEN Bytes(position, sent) ELSE object
  BY DEF PutObject
<1>2. PICK taken \in Taken(length, sent, result) :
        object' = IF taken THEN Bytes(position, sent) ELSE object
  BY <1>1
<1>3. statusG' = result
  BY <1>1, ConcludeFacts
<1>4. (result = "OK" => taken) /\ taken \in BOOLEAN /\ (taken => sent = length)
  BY <1>2 DEF Taken
<1>5. ASSUME taken PROVE object' = Content
  <2>1. sent = length /\ object' = Bytes(position, length)
    BY <1>2, <1>4, <1>5
  <2>2. /\ length \in Nat \ {0} /\ position \in Nat /\ length <= C /\ ~copying
        /\ TotalSeq \in Nat \ {0} /\ Numbers = 1 .. TotalSeq
    BY Lengths, Widths DEF PutObject, Before, IInv, TypeOK, Progress
  <2>3. position + length <= length
    BY <1>1, <2>1, <2>2, SupplyFacts DEF Before, IInv
  <2>4. position = 0
    BY <2>2, <2>3
  <2>5. TotalSeq = 1
    <3> SUFFICES ASSUME TotalSeq > 1 PROVE FALSE
      BY <2>2
    <3>1. Start(1) + C < length
      BY <2>2, StartFacts
    <3> QED
      BY <2>2, <3>1, StartFacts, Widths
  <2>6. Part(1) = Bytes(0, length)
    <3>1. C * (1 - 1) = 0 /\ C \in Nat
      BY Widths
    <3>2. Shorter(C, length - 0) = length
      BY <2>2, <3>1 DEF Shorter
    <3> QED
      BY <2>2, <3>1, <3>2 DEF Part, LastByteAlone, Chunk, C
  <2>7. [n \in Numbers |-> Part(n)] = <<Bytes(0, length)>>
    BY <2>2, <2>5, <2>6
  <2>8. FlattenSeq(<<Bytes(0, length)>>) = Bytes(0, length)
    BY DEF FlattenSeq
  <2> QED
    BY <2>1, <2>4, <2>7, <2>8 DEF Content
<1> QED
  BY <1>2, <1>3, <1>4, <1>5

LEMMA PutObjectInv ==
  ASSUME Before, PutObject
  PROVE  TypeOK' /\ NoGaps' /\ Progress' /\ (length' < IntMax => InPlace' /\ Reported')
<1>1. PICK sent \in 0 .. length, result \in Results :
        /\ Conclude(result, "put", "clean")
        /\ Supply(sent)
        /\ \E taken \in Taken(length, sent, result) :
             object' = IF taken THEN Bytes(position, sent) ELSE object
  BY DEF PutObject
<1>2. /\ pc = "put" /\ pc' \in {"put", "clean"} /\ UNCHANGED source /\ statusG' = result
      /\ UNCHANGED <<uploads, open, parts, upload_id, etags, next_etags_pos, remaining,
                     contentLength, seq, partContentLength, isTruncated,
                     nextPartNumberMarker>>
  BY <1>1, ConcludeFacts DEF PutObject, manager, listVars
<1>3. position' \in Nat /\ partLeft' \in Nat
  BY <1>1, SupplyFacts DEF Before, IInv
<1>4. TypeOK'
  BY <1>2, <1>3, SameSource DEF Before, IInv, TypeOK
<1>5. NoGaps'
  BY <1>2, SameSource DEF Before, IInv, NoGaps
<1>6. Progress'
  BY <1>2, SameSource DEF Before, IInv, Progress
<1>7. length < IntMax => InPlace'
  BY <1>2, SameSource DEF Before, IInv, InPlace
<1>8. Reported'
  BY <1>2, PutObjectTakes, SameSource DEF Reported, Content
<1> QED
  BY <1>2, <1>4, <1>5, <1>6, <1>7, <1>8, SameSource

LEMMA InitiateInv ==
  ASSUME Before, Initiate
  PROVE  TypeOK' /\ NoGaps' /\ Progress' /\ (length' < IntMax => InPlace' /\ Reported')
<1>1. PICK result \in Results, made \in BOOLEAN :
        /\ Conclude(result, "initiate", "upload")
        /\ result = "OK" => made
        /\ made => uploads < MaxUploads
        /\ uploads' = IF made THEN uploads + 1 ELSE uploads
        /\ upload_id' = IF result = "OK" THEN uploads' ELSE 0
  BY DEF Initiate
<1>2. /\ pc = "initiate" /\ pc' \in {"upload", "initiate", "clean"} /\ UNCHANGED source
      /\ statusG' = result
      /\ pc' = "upload" => result = "OK"
      /\ pc' = "clean" => result # "OK"
      /\ UNCHANGED <<parts, object, etags, next_etags_pos, remaining,
                     contentLength, seq, partContentLength, partLeft, position,
                     isTruncated, nextPartNumberMarker>>
  BY <1>1, ConcludeFacts DEF Initiate, putVars, listVars
<1>3. /\ uploads' \in 0 .. MaxUploads /\ upload_id' \in 0 .. uploads'
      /\ result = "OK" => upload_id' \in 1 .. uploads'
  BY <1>1, UploadAssumption DEF Before, IInv, TypeOK
<1>4. TypeOK'
  BY <1>2, <1>3, SameSource DEF Before, IInv, TypeOK
<1>5. NoGaps'
  BY <1>2, SameSource DEF Before, IInv, NoGaps
<1>6. seq = 1 /\ next_etags_pos = 0 /\ TotalSeq \in Nat \ {0}
  BY <1>2, Lengths DEF Before, IInv, Progress
<1>7. pc' = "upload" => Kept(seq - 1)'
  BY <1>2, <1>3, <1>6 DEF Kept
<1>8. Progress'
  BY <1>2, <1>6, <1>7, SameSource DEF Before, IInv, Progress
<1>9. length < IntMax => InPlace'
  <2>1. Start(1) = 0 /\ length - 0 = length
    BY StartFacts, Lengths DEF Before, IInv
  <2> QED
    BY <1>2, <1>6, <2>1, SameSource DEF Before, IInv, InPlace
<1>10. Reported'
  BY <1>2 DEF Reported
<1> QED
  BY <1>2, <1>4, <1>5, <1>8, <1>9, <1>10, SameSource

LEMMA NextPartInv ==
  ASSUME Before, NextPart
  PROVE  TypeOK' /\ NoGaps' /\ Progress' /\ (length' < IntMax => InPlace' /\ Reported')
<1>1. /\ pc = "upload" /\ seq <= TotalSeq /\ pc' = "part" /\ UNCHANGED source
      /\ partContentLength' = Shorter(contentLength, C) /\ partLeft' = partContentLength'
      /\ UNCHANGED <<uploads, open, parts, object, upload_id, etags, next_etags_pos,
                     remaining, contentLength, seq, position, isTruncated,
                     nextPartNumberMarker>>
  BY DEF NextPart, server, manager, listVars, C
<1>2. Shorter(contentLength, C) \in Nat
  BY Widths DEF Before, IInv, TypeOK, Shorter
<1>3. TypeOK'
  BY <1>1, <1>2, SameSource DEF Before, IInv, TypeOK
<1>4. NoGaps'
  BY <1>1, SameSource DEF Before, IInv, NoGaps
<1>5. Progress'
  BY <1>1, SameSource DEF Before, IInv, Progress, Kept
<1>6. length < IntMax => InPlace'
  <2> SUFFICES ASSUME length < IntMax PROVE InPlace'
    OBVIOUS
  <2>1. ~copying => position' = Start(seq) + partContentLength' - partLeft'
    <3>1. ~copying => position = Start(seq)
      BY <1>1 DEF Before, IInv, InPlace
    <3>2. position \in Int
      BY DEF Before, IInv, TypeOK
    <3> QED
      BY <1>1, <1>2, <3>1, <3>2
  <2>2. partLeft' <= partContentLength'
    BY <1>1, <1>2
  <2> QED
    BY <1>1, <2>1, <2>2, SameSource DEF Before, IInv, InPlace
<1>7. Reported'
  BY <1>1 DEF Reported
<1> QED
  BY <1>1, <1>3, <1>4, <1>5, <1>6, <1>7, SameSource

LEMMA BuildCommitInv ==
  ASSUME Before, BuildCommit
  PROVE  TypeOK' /\ NoGaps' /\ Progress' /\ (length' < IntMax => InPlace' /\ Reported')
<1>1. /\ pc = "upload" /\ seq > TotalSeq /\ pc' = "commit" /\ UNCHANGED source
      /\ remaining' = XmlSize
      /\ UNCHANGED <<uploads, open, parts, object, upload_id, etags, next_etags_pos,
                     contentLength, seq, partContentLength, partLeft, position,
                     isTruncated, nextPartNumberMarker>>
  BY DEF BuildCommit, server, putVars, listVars
<1>2. seq - 1 = TotalSeq
  BY <1>1, Lengths DEF Before, IInv, TypeOK, Progress
<1>3. TypeOK'
  BY <1>1, UploadAssumption, SameSource DEF Before, IInv, TypeOK
<1>4. NoGaps'
  BY <1>1, SameSource DEF Before, IInv, NoGaps
<1>5. Progress'
  <2>1. Kept(TotalSeq)
    BY <1>1, <1>2 DEF Before, IInv, Progress
  <2> QED
    BY <1>1, <2>1, SameSource DEF Before, IInv, Progress, Kept
<1>6. length < IntMax => InPlace'
  BY <1>1, SameSource DEF Before, IInv, InPlace
<1>7. Reported'
  BY <1>1 DEF Reported
<1> QED
  BY <1>1, <1>3, <1>4, <1>5, <1>6, <1>7, SameSource

\* S3 puts together the parts that it was sent.
LEMMA CommitInv ==
  ASSUME Before, Commit
  PROVE  /\ TypeOK' /\ NoGaps' /\ Progress' /\ (length' < IntMax => InPlace' /\ Reported')
         /\ length < IntMax => object' \in {object, Content}
<1>1. PICK sent \in 0 .. remaining, result \in Results, taken \in BOOLEAN :
        /\ Conclude(result, "commit", "clean")
        /\ result = "OK" => taken
        /\ remaining' = remaining - sent
        /\ IF taken
           THEN object' = FlattenSeq([n \in Numbers |-> parts[upload_id][n]])
           ELSE UNCHANGED object
  BY DEF Commit
<1>2. /\ pc = "commit" /\ pc' \in {"commit", "clean"} /\ UNCHANGED source
      /\ statusG' = result
      /\ UNCHANGED <<uploads, parts, upload_id, etags, next_etags_pos,
                     contentLength, seq, partContentLength, partLeft, position,
                     isTruncated, nextPartNumberMarker>>
  BY <1>1, ConcludeFacts DEF Commit, putVars, listVars
<1>3. TypeOK'
  <2>1. remaining' \in Int
    BY <1>1 DEF Before, IInv, TypeOK
  <2> QED
    BY <1>2, <2>1, SameSource DEF Before, IInv, TypeOK
<1>4. NoGaps'
  BY <1>2, SameSource DEF Before, IInv, NoGaps
<1>5. Progress'
  BY <1>2, SameSource DEF Before, IInv, Progress, Kept
<1>6. length < IntMax => InPlace'
  BY <1>2, SameSource DEF Before, IInv, InPlace
<1>7. ASSUME length < IntMax
      PROVE  [n \in Numbers |-> parts[upload_id][n]] = [n \in Numbers |-> Part(n)]
  <2>1. upload_id \in 1 .. MaxUploads /\ Numbers = 1 .. TotalSeq
    BY <1>2, Lengths, UploadAssumption DEF Before, IInv, TypeOK, Progress, Kept
  <2>2. \A n \in Numbers : parts[upload_id][n] # NoPart
    BY <1>2, <2>1 DEF Before, IInv, Progress, Kept
  <2>3. \A n \in Numbers : parts[upload_id][n] = Part(n)
    BY <1>7, <2>1, <2>2 DEF Before, IInv, InPlace
  <2> QED
    BY <2>3
<1>8. length < IntMax => (taken => object' = Content)
  BY <1>1, <1>7 DEF Content
<1>9. length < IntMax => Reported'
  BY <1>1, <1>2, <1>8, SameSource DEF Reported, Content
<1> QED
  BY <1>1, <1>2, <1>3, <1>4, <1>5, <1>6, <1>8, <1>9, SameSource

\* What S3 is sent as part seq, and keeps if it takes it.
LEMMA StoreFacts ==
  ASSUME TypeOK, NoGaps, Progress, pc = "part", UNCHANGED source,
         NEW content \in Values, content # NoPart, NEW taken \in BOOLEAN,
         StorePart(content, taken)
  PROVE  /\ parts' \in [1 .. MaxUploads -> [Numbers -> Values]] /\ NoGaps'
         /\ upload_id \in 1 .. MaxUploads /\ seq \in Numbers
         /\ taken => parts'[upload_id][seq] = content
         /\ \A n \in 1 .. seq - 1 : parts'[upload_id][n] = parts[upload_id][n]
         /\ \A id \in 1 .. MaxUploads : \A n \in Numbers :
              parts'[id][n] = parts[id][n] \/ (n = seq /\ parts'[id][n] = content)
<1>1. /\ upload_id \in 1 .. MaxUploads /\ seq \in Numbers /\ Numbers = 1 .. TotalSeq
      /\ TotalSeq \in Nat
      /\ \A n \in 1 .. seq - 1 : parts[upload_id][n] # NoPart
  BY Lengths, UploadAssumption DEF TypeOK, Progress, Kept
<1>2. parts' = IF taken THEN [parts EXCEPT ![upload_id][seq] = content] ELSE parts
  BY DEF StorePart
<1>3. parts \in [1 .. MaxUploads -> [Numbers -> Values]]
  BY DEF TypeOK
<1>4. parts' \in [1 .. MaxUploads -> [Numbers -> Values]]
  BY <1>1, <1>2, <1>3
<1>5. /\ taken => parts'[upload_id][seq] = content
      /\ \A id \in 1 .. MaxUploads : \A n \in Numbers :
           /\ parts'[id][n] = parts[id][n] \/ (n = seq /\ parts'[id][n] = content)
           /\ n # seq => parts'[id][n] = parts[id][n]
           /\ id # upload_id => parts'[id][n] = parts[id][n]
  BY <1>1, <1>2, <1>3
<1>6. \A n \in 1 .. seq - 1 : parts'[upload_id][n] = parts[upload_id][n]
  BY <1>1, <1>5
<1>7. NoGaps'
  <2> SUFFICES ASSUME NEW id \in 1 .. MaxUploads, NEW n \in Numbers, parts'[id][n] # NoPart,
                      NEW m \in 1 .. n
               PROVE  parts'[id][m] # NoPart
    BY SameSource DEF NoGaps
  <2>1. m \in Numbers
    BY <1>1
  <2>2. CASE parts[id][n] # NoPart
    BY <1>5, <2>1, <2>2 DEF NoGaps
  <2>3. CASE parts[id][n] = NoPart
    <3>1. id = upload_id /\ n = seq
      BY <1>5, <2>3
    <3>2. m = n \/ m \in 1 .. seq - 1
      BY <1>1, <3>1
    <3> QED
      BY <1>1, <1>6, <3>1, <3>2
  <2> QED
    BY <2>2, <2>3
<1> QED
  BY <1>1, <1>4, <1>5, <1>6, <1>7

\* The count of a part that goes on to the next.
LEMMA PartDoneFacts ==
  ASSUME TypeOK, NEW result, PartDone(result)
  PROVE  /\ contentLength' \in Nat /\ seq' \in Nat \ {0}
         /\ result # "OK" => UNCHANGED <<contentLength, seq>>
         /\ result = "OK" => /\ seq' = seq + 1
                             /\ contentLength' = ToLong(contentLength - C)
<1>1. contentLength \in Nat /\ seq \in Nat \ {0} /\ contentLength - C \in Int
  BY Widths DEF TypeOK
<1>2. ToLong(contentLength - C) \in Nat /\ seq + 1 \in Nat \ {0}
  BY <1>1, ToLongIsNat
<1>3. IF result = "OK"
      THEN contentLength' = ToLong(contentLength - C) /\ seq' = seq + 1
      ELSE UNCHANGED <<contentLength, seq>>
  BY DEF PartDone, C
<1> QED
  BY <1>1, <1>2, <1>3

\* The next part begins where the last one ends.
LEMMA NextPlace ==
  ASSUME TypeOK, length < IntMax, seq + 1 <= TotalSeq, contentLength = length - Start(seq)
  PROVE  /\ ToLong(contentLength - C) = length - Start(seq + 1)
         /\ Shorter(contentLength, C) = C
<1>1. /\ length \in Nat \ {0} /\ seq \in Nat \ {0} /\ TotalSeq \in Nat /\ C \in Nat
      /\ contentLength \in Nat
  BY Lengths, Widths DEF TypeOK
<1>2. Start(seq) \in Nat /\ Start(seq + 1) = Start(seq) + C /\ Start(seq) + C < length
  BY <1>1, StartFacts
<1>3. /\ contentLength - C = length - Start(seq + 1) /\ contentLength - C \in Int
      /\ 0 <= contentLength - C /\ contentLength - C < IntMax /\ C < contentLength
  <2> DEFINE s == Start(seq)
  <2>1. contentLength = length - s /\ Start(seq + 1) = s + C /\ s \in Nat /\ s + C < length
    BY <1>2
  <2> HIDE DEF s
  <2> QED
    BY <1>1, <2>1, Widths
<1> QED
  BY <1>1, <1>3, ToLongIsNat DEF Shorter

LEMMA UploadPartInv ==
  ASSUME Before, UploadPart
  PROVE  TypeOK' /\ NoGaps' /\ Progress' /\ (length' < IntMax => InPlace' /\ Reported')
<1>1. PICK sent \in 0 .. MULTIPART_CHUNK_SIZE, result \in Results :
        /\ Conclude(result, "part", "upload")
        /\ Supply(sent)
        /\ \E taken \in Taken(partContentLength, sent, result), answered \in BOOLEAN :
             /\ result = "OK" => answered
             /\ answered => taken
             /\ StorePart(Bytes(position, sent), taken)
             /\ IF answered
                THEN /\ etags' = [etags EXCEPT ![seq - 1] = Bytes(position, sent)]
                     /\ next_etags_pos' = seq
                ELSE UNCHANGED <<etags, next_etags_pos>>
        /\ PartDone(result)
  BY DEF UploadPart
<1>2. PICK taken \in Taken(partContentLength, sent, result), answered \in BOOLEAN :
        /\ result = "OK" => answered
        /\ answered => taken
        /\ StorePart(Bytes(position, sent), taken)
        /\ IF answered
           THEN /\ etags' = [etags EXCEPT ![seq - 1] = Bytes(position, sent)]
                /\ next_etags_pos' = seq
           ELSE UNCHANGED <<etags, next_etags_pos>>
  BY <1>1
<1>3. /\ pc = "part" /\ pc' \in {"upload", "part", "clean"} /\ UNCHANGED source
      /\ statusG' = result /\ ~copying
      /\ pc' = "upload" => result = "OK"
      /\ pc' = "part" => result # "OK"
      /\ pc' = "clean" => result # "OK"
      /\ UNCHANGED <<uploads, object, upload_id, remaining, partContentLength,
                     isTruncated, nextPartNumberMarker>>
  BY <1>1, ConcludeFacts DEF UploadPart, listVars
<1>4. /\ TypeOK /\ NoGaps /\ Progress /\ (length < IntMax => InPlace)
      /\ position \in Nat /\ seq \in Nat \ {0} /\ partContentLength \in Nat
      /\ partLeft \in Nat /\ contentLength \in Nat /\ length \in Nat \ {0}
      /\ TotalSeq \in Nat \ {0} /\ Numbers = 1 .. TotalSeq
      /\ seq <= TotalSeq /\ Kept(seq - 1)
  BY <1>3, Lengths DEF Before, IInv, TypeOK, Progress
<1>5. /\ sent \in Nat /\ sent <= partLeft
      /\ position' = position + sent /\ position' \in Nat
      /\ partLeft' = partLeft - sent /\ partLeft' \in Nat
  BY <1>1, <1>4, SupplyFacts
<1> DEFINE content == Bytes(position, sent)
<1>6. content \in Values /\ content # NoPart
  BY <1>4, <1>5, BytesFacts
<1>7. taken \in BOOLEAN /\ (taken => sent = partContentLength)
  BY <1>2 DEF Taken
<1>8. StorePart(content, taken)
  BY <1>2
<1>9. IF answered
      THEN /\ etags' = [etags EXCEPT ![seq - 1] = content]
           /\ next_etags_pos' = seq
      ELSE UNCHANGED <<etags, next_etags_pos>>
  BY <1>2
<1> HIDE DEF content
<1>10. /\ parts' \in [1 .. MaxUploads -> [Numbers -> Values]] /\ NoGaps'
       /\ upload_id \in 1 .. MaxUploads /\ seq \in Numbers
       /\ taken => parts'[upload_id][seq] = content
       /\ \A n \in 1 .. seq - 1 : parts'[upload_id][n] = parts[upload_id][n]
       /\ \A id \in 1 .. MaxUploads : \A n \in Numbers :
            parts'[id][n] = parts[id][n] \/ (n = seq /\ parts'[id][n] = content)
  BY <1>3, <1>4, <1>6, <1>7, <1>8, StoreFacts
<1>11. /\ etags' \in [0 .. TotalSeq - 1 -> Values] /\ next_etags_pos' \in Nat
       /\ answered => etags'[seq - 1] = content
       /\ \A n \in 1 .. seq - 1 : etags'[n - 1] = etags[n - 1]
  <2>1. etags \in [0 .. TotalSeq - 1 -> Values] /\ next_etags_pos \in Nat
    BY <1>4 DEF TypeOK
  <2>2. /\ seq - 1 \in 0 .. TotalSeq - 1
        /\ \A n \in 1 .. seq - 1 : n - 1 \in 0 .. TotalSeq - 1 /\ n - 1 # seq - 1
    BY <1>4
  <2> QED
    BY <1>4, <1>6, <1>9, <2>1, <2>2
<1>12. /\ contentLength' \in Nat /\ seq' \in Nat \ {0}
       /\ result # "OK" => UNCHANGED <<contentLength, seq>>
       /\ result = "OK" => /\ seq' = seq + 1
                           /\ contentLength' = ToLong(contentLength - C)
  BY <1>1, <1>4, PartDoneFacts
<1>13. TypeOK'
  BY <1>3, <1>5, <1>10, <1>11, <1>12, SameSource DEF Before, IInv, TypeOK
<1>14. Kept(seq - 1)'
  <2>1. \A n \in 1 .. seq - 1 :
          parts'[upload_id][n] # NoPart /\ etags'[n - 1] = parts'[upload_id][n]
    BY <1>4, <1>10, <1>11 DEF Kept
  <2>2. CASE result = "OK"
    <3>1. parts'[upload_id][seq] # NoPart /\ etags'[seq - 1] = parts'[upload_id][seq]
      BY <1>2, <1>6, <1>10, <1>11, <2>2
    <3>2. \A n \in 1 .. seq' - 1 : n \in 1 .. seq - 1 \/ n = seq
      BY <1>4, <1>12, <2>2
    <3> QED
      BY <1>3, <1>4, <2>1, <3>1, <3>2 DEF Kept
  <2>3. CASE result # "OK"
    BY <1>3, <1>4, <1>12, <2>1, <2>3 DEF Kept
  <2> QED
    BY <2>2, <2>3
<1>15. Progress'
  BY <1>3, <1>4, <1>12, <1>14, SameSource DEF Progress
<1>16. ASSUME length < IntMax PROVE InPlace'
  <2>1. /\ contentLength = length - Start(seq)
        /\ partContentLength = Shorter(contentLength, C)
        /\ partLeft <= partContentLength
        /\ position = Start(seq) + partContentLength - partLeft
        /\ Start(seq) \in Nat
    BY <1>3, <1>4, <1>16, StartFacts DEF InPlace
  <2>2. taken => position = Start(seq) /\ content = Part(seq)
    <3> SUFFICES ASSUME taken PROVE position = Start(seq) /\ content = Part(seq)
      OBVIOUS
    <3>1. sent = partContentLength /\ sent = partLeft
      BY <1>4, <1>5, <1>7, <2>1
    <3>2. position = Start(seq)
      BY <1>4, <2>1, <3>1
    <3>3. Part(seq) = Bytes(Start(seq), Shorter(C, length - Start(seq)))
      BY <1>3 DEF Part, LastByteAlone, Chunk, C, Start
    <3>4. Shorter(C, length - Start(seq)) = Shorter(contentLength, C)
      BY <1>4, <2>1, Widths DEF Shorter
    <3> QED
      BY <2>1, <3>1, <3>2, <3>3, <3>4 DEF content
  <2>3. \A id \in 1 .. MaxUploads : \A n \in Numbers : parts'[id][n] \in {NoPart, Part(n)}
    <3>1. StorePart(content, taken) /\ (~taken => parts' = parts)
      BY <1>8 DEF StorePart
    <3>2. \A id \in 1 .. MaxUploads : \A n \in Numbers : parts[id][n] \in {NoPart, Part(n)}
      BY <1>4, <1>16 DEF InPlace
    <3> QED
      BY <1>7, <1>10, <2>2, <3>1, <3>2
  <2>4. CASE result = "OK"
    <3>1. ASSUME seq' <= TotalSeq
          PROVE  contentLength' = length - Start(seq') /\ position' = Start(seq')
      <4>1. seq + 1 <= TotalSeq /\ seq' = seq + 1
        BY <1>12, <2>4, <3>1
      <4>2. contentLength' = length - Start(seq + 1) /\ partContentLength = C
        BY <1>4, <1>12, <1>16, <2>1, <2>4, <4>1, NextPlace
      <4>3. position' = Start(seq) + C /\ Start(seq + 1) = Start(seq) + C
        BY <1>2, <1>4, <1>5, <1>7, <2>2, <2>4, <4>2, StartFacts
      <4> QED
        BY <4>1, <4>2, <4>3
    <3> QED
      BY <1>3, <2>3, <2>4, <3>1, SameSource DEF InPlace, Start
  <2>5. CASE result # "OK"
    <3>1. UNCHANGED <<contentLength, seq>>
      BY <1>12, <2>5
    <3>2. partLeft' <= partContentLength
      BY <1>4, <1>5, <2>1
    <3>3. position' = Start(seq) + partContentLength - partLeft'
      <4> DEFINE s == Start(seq)
      <4>1. /\ position = s + partContentLength - partLeft /\ s \in Nat
            /\ position \in Nat /\ partContentLength \in Nat /\ partLeft \in Nat
            /\ sent \in Nat /\ position' = position + sent /\ partLeft' = partLeft - sent
        BY <1>4, <1>5, <2>1
      <4> HIDE DEF s
      <4>2. position' = s + partContentLength - partLeft'
        BY <4>1
      <4> QED
        BY <4>2 DEF s
    <3> QED
      BY <1>3, <2>1, <2>3, <2>5, <3>1, <3>2, <3>3, SameSource DEF InPlace, Start
  <2> QED
    BY <2>4, <2>5
<1>17. Reported'
  BY <1>3 DEF Reported
<1> QED
  BY <1>3, <1>10, <1>13, <1>15, <1>16, <1>17, SameSource

\* What a part of a copy is asked for.
LEMMA CopiedRangeFacts ==
  ASSUME TypeOK
  PROVE  LET content == CopiedRange(C * (seq - 1), partContentLength - 1)
         IN  /\ content \in Values /\ content # NoPart
             /\ partContentLength = 1 => content = Bytes(0, length)
             /\ partContentLength # 1 => content = Bytes(Start(seq), partContentLength)
<1> DEFINE content == CopiedRange(C * (seq - 1), partContentLength - 1)
           s == C * (seq - 1)
<1>1. /\ length \in Nat /\ seq \in Nat \ {0} /\ partContentLength \in Nat /\ s \in Nat
  BY Lengths, Widths DEF TypeOK
<1>2. content = IF partContentLength - 1 = 0 THEN Bytes(0, length)
                ELSE Bytes(s, partContentLength - 1 + 1)
  BY DEF CopiedRange
<1> HIDE DEF s
<1>3. partContentLength - 1 + 1 = partContentLength
      /\ (partContentLength - 1 = 0 <=> partContentLength = 1)
  BY <1>1
<1>4. content = IF partContentLength = 1 THEN Bytes(0, length)
                ELSE Bytes(s, partContentLength)
  BY <1>2, <1>3
<1>5. content \in Values /\ content # NoPart
  BY <1>1, <1>4, BytesFacts
<1> QED
  BY <1>4, <1>5 DEF s, Start

LEMMA CopyPartInv ==
  ASSUME Before, CopyPart
  PROVE  TypeOK' /\ NoGaps' /\ Progress' /\ (length' < IntMax => InPlace' /\ Reported')
<1> DEFINE content == CopiedRange(C * (seq - 1), partContentLength - 1)
<1>1. PICK result \in Results, taken \in BOOLEAN :
        /\ Conclude(result, "part", "upload")
        /\ result = "OK" => taken
        /\ StorePart(content, taken)
        /\ etags' = [etags EXCEPT ![seq - 1] = IF result = "OK" THEN content ELSE @]
        /\ PartDone(result)
  BY DEF CopyPart, C
<1>2. /\ pc = "part" /\ pc' \in {"upload", "part", "clean"} /\ UNCHANGED source
      /\ statusG' = result /\ copying
      /\ pc' = "upload" => result = "OK"
      /\ pc' = "part" => result # "OK"
      /\ pc' = "clean" => result # "OK"
      /\ UNCHANGED <<uploads, object, upload_id, next_etags_pos, remaining,
                     partContentLength, partLeft, position, isTruncated,
                     nextPartNumberMarker>>
  BY <1>1, ConcludeFacts DEF CopyPart, listVars
<1>3. /\ TypeOK /\ NoGaps /\ Progress /\ (length < IntMax => InPlace)
      /\ seq \in Nat \ {0} /\ partContentLength \in Nat
      /\ contentLength \in Nat /\ length \in Nat \ {0}
      /\ TotalSeq \in Nat \ {0} /\ Numbers = 1 .. TotalSeq
      /\ seq <= TotalSeq /\ Kept(seq - 1)
  BY <1>2, Lengths DEF Before, IInv, TypeOK, Progress
<1>4. /\ content \in Values /\ content # NoPart
      /\ partContentLength = 1 => content = Bytes(0, length)
      /\ partContentLength # 1 => content = Bytes(Start(seq), partContentLength)
  BY <1>3, CopiedRangeFacts
<1> HIDE DEF content
<1>5. /\ parts' \in [1 .. MaxUploads -> [Numbers -> Values]] /\ NoGaps'
      /\ upload_id \in 1 .. MaxUploads /\ seq \in Numbers
      /\ taken => parts'[upload_id][seq] = content
      /\ \A n \in 1 .. seq - 1 : parts'[upload_id][n] = parts[upload_id][n]
      /\ \A id \in 1 .. MaxUploads : \A n \in Numbers :
           parts'[id][n] = parts[id][n] \/ (n = seq /\ parts'[id][n] = content)
  BY <1>1, <1>2, <1>3, <1>4, StoreFacts
<1>6. /\ etags' \in [0 .. TotalSeq - 1 -> Values]
      /\ result = "OK" => etags'[seq - 1] = content
      /\ \A n \in 1 .. seq - 1 : etags'[n - 1] = etags[n - 1]
  <2>1. etags \in [0 .. TotalSeq - 1 -> Values]
    BY <1>3 DEF TypeOK
  <2>2. /\ seq - 1 \in 0 .. TotalSeq - 1
        /\ \A n \in 1 .. seq - 1 : n - 1 \in 0 .. TotalSeq - 1 /\ n - 1 # seq - 1
    BY <1>3
  <2> QED
    BY <1>1, <1>4, <2>1, <2>2
<1>7. /\ contentLength' \in Nat /\ seq' \in Nat \ {0}
      /\ result # "OK" => UNCHANGED <<contentLength, seq>>
      /\ result = "OK" => /\ seq' = seq + 1
                          /\ contentLength' = ToLong(contentLength - C)
  BY <1>1, <1>3, PartDoneFacts
<1>8. TypeOK'
  BY <1>2, <1>5, <1>6, <1>7, SameSource DEF Before, IInv, TypeOK
<1>9. Kept(seq - 1)'
  <2>1. \A n \in 1 .. seq - 1 :
          parts'[upload_id][n] # NoPart /\ etags'[n - 1] = parts'[upload_id][n]
    BY <1>3, <1>5, <1>6 DEF Kept
  <2>2. CASE result = "OK"
    <3>1. parts'[upload_id][seq] # NoPart /\ etags'[seq - 1] = parts'[upload_id][seq]
      BY <1>1, <1>4, <1>5, <1>6, <2>2
    <3>2. \A n \in 1 .. seq' - 1 : n \in 1 .. seq - 1 \/ n = seq
      BY <1>3, <1>7, <2>2
    <3> QED
      BY <1>2, <1>3, <2>1, <3>1, <3>2 DEF Kept
  <2>3. CASE result # "OK"
    BY <1>2, <1>3, <1>7, <2>1, <2>3 DEF Kept
  <2> QED
    BY <2>2, <2>3
<1>10. Progress'
  BY <1>2, <1>3, <1>7, <1>9, SameSource DEF Progress
<1>11. ASSUME length < IntMax PROVE InPlace'
  <2>1. /\ contentLength = length - Start(seq)
        /\ partContentLength = Shorter(contentLength, C)
        /\ \A id \in 1 .. MaxUploads : \A n \in Numbers : parts[id][n] \in {NoPart, Part(n)}
        /\ Start(seq) \in Nat
    BY <1>2, <1>3, <1>11, StartFacts DEF InPlace
  <2>2. content = Part(seq)
    <3>1. partContentLength = Shorter(C, length - Start(seq))
      BY <1>3, <2>1, Widths DEF Shorter
    <3>2. partContentLength = 1 <=> LastByteAlone /\ seq = TotalSeq
      <4> DEFINE s == Start(seq)
      <4>1. /\ partContentLength = Shorter(C, length - s) /\ s \in Nat
            /\ seq < TotalSeq => s + C < length
            /\ seq = TotalSeq => s = C * (TotalSeq - 1)
        BY <1>3, <2>1, <3>1, StartFacts DEF Start
      <4>2. LastByteAlone <=> length = C * (TotalSeq - 1) + 1
        BY <1>2 DEF LastByteAlone, C
      <4> HIDE DEF s
      <4>3. CASE seq < TotalSeq
        <5>1. partContentLength = C
          BY <1>3, <4>1, <4>3, Widths DEF Shorter
        <5> QED
          BY <1>3, <4>3, <5>1, Widths
      <4>4. CASE seq = TotalSeq
        <5>1. partContentLength = 1 <=> length = s + 1
          BY <1>3, <4>1, Widths DEF Shorter
        <5> QED
          BY <4>1, <4>2, <4>4, <5>1
      <4> QED
        BY <1>3, <4>3, <4>4
    <3>3. Part(seq) = IF partContentLength = 1 THEN Bytes(0, length)
                      ELSE Bytes(Start(seq), partContentLength)
      BY <3>1, <3>2 DEF Part, Chunk, C, Start
    <3> QED
      BY <1>4, <3>3
  <2>3. \A id \in 1 .. MaxUploads : \A n \in Numbers : parts'[id][n] \in {NoPart, Part(n)}
    BY <1>5, <2>1, <2>2
  <2>4. ASSUME result = "OK", seq' <= TotalSeq
        PROVE  contentLength' = length - Start(seq')
    <3>1. seq + 1 <= TotalSeq /\ seq' = seq + 1
      BY <1>7, <2>4
    <3> QED
      BY <1>3, <1>7, <1>11, <2>1, <2>4, <3>1, NextPlace
  <2> QED
    BY <1>2, <1>7, <2>1, <2>3, <2>4, SameSource DEF InPlace, Start
<1>12. Reported'
  BY <1>2 DEF Reported
<1> QED
  BY <1>2, <1>5, <1>8, <1>10, <1>11, <1>12, SameSource

\* What is left of the file after the first parts is what they do not cover.
LEMMA RemainingListed ==
  ASSUME TypeOK, length < IntMax, ~copying, remaining = length,
         NEW count \in 0 .. TotalSeq,
         \A i \in 1 .. count : parts[upload_id][Page[i]] = Part(i)
  PROVE  RemainingAfter(count) = length - Shorter(C * count, length)
<1> DEFINE rest(i) == length - Shorter(C * i, length)
<1>1. /\ length \in Nat \ {0} /\ TotalSeq \in Nat \ {0} /\ C \in Nat /\ count \in Nat
  BY Lengths, Widths
<1>2. ASSUME NEW i \in 1 .. count
      PROVE  /\ Start(i) \in Nat /\ Start(i) < length /\ Start(i) = C * (i - 1)
             /\ C * i = Start(i) + C
             /\ Len(Part(i)) = Shorter(C, length - Start(i))
  <2>1. i \in Nat \ {0} /\ i <= TotalSeq
    BY <1>1
  <2>2. Start(i) \in Nat /\ Start(i) < length /\ Start(i + 1) = Start(i) + C
    BY <1>1, <2>1, StartFacts
  <2>3. C * (i + 1 - 1) = C * i
    BY <2>1
  <2>4. Part(i) = Bytes(Start(i), Shorter(C, length - Start(i)))
    BY DEF Part, LastByteAlone, Chunk, C, Start
  <2>5. Shorter(C, length - Start(i)) \in Nat
    BY <1>1, <2>2 DEF Shorter
  <2> QED
    BY <2>2, <2>3, <2>4, <2>5, BytesFacts DEF Start
<1>3. \A i \in 1 .. count : Len(parts[upload_id][Page[i]]) = Shorter(C, length - Start(i))
  BY <1>2
<1>4. \A i \in 1 .. count : Shorter(C, length - Start(i)) \in Int
  BY <1>1, <1>2, ShorterFacts
<1>5. PICK left \in [0 .. count -> Int] :
        /\ left[0] = remaining
        /\ \A i \in 1 .. count :
             left[i] = ToInt(left[i - 1] - Len(parts[upload_id][Page[i]]))
        /\ RemainingAfter(count) = left[count]
  <2>1. remaining \in Int /\ \A i \in 1 .. count : Len(parts[upload_id][Page[i]]) \in Int
    BY <1>1, <1>3, <1>4
  <2> QED
    BY <1>1, <2>1, RemainingSteps
<1>6. left[0] = rest(0)
  <2>1. C * 0 = 0 /\ Shorter(0, length) = 0
    BY <1>1 DEF Shorter
  <2> QED
    BY <1>1, <1>5, <2>1
<1>7. ASSUME NEW n \in Nat, n + 1 <= count, left[n] = rest(n)
      PROVE  left[n + 1] = rest(n + 1)
  <2> DEFINE s == Start(n + 1)
  <2>1. n + 1 \in 1 .. count /\ n + 1 - 1 = n
    BY <1>7
  <2>2. s \in Nat /\ s < length /\ s = C * n /\ C * (n + 1) = s + C
    BY <1>2, <2>1
  <2>3. left[n + 1] = ToInt(left[n] - Shorter(C, length - s))
    BY <1>3, <1>5, <2>1
  <2>4. /\ left[n] = length - Shorter(s, length)
        /\ rest(n + 1) = length - Shorter(s + C, length)
    BY <1>7, <2>2
  <2> HIDE DEF s, rest
  <2>5. /\ left[n] = length - s
        /\ length - s - Shorter(C, length - s) = length - Shorter(s + C, length)
        /\ length - s - Shorter(C, length - s) \in 0 .. length
    BY <1>1, <2>2, <2>4 DEF Shorter
  <2> DEFINE d == length - s - Shorter(C, length - s)
  <2>6. left[n + 1] = ToInt(d) /\ rest(n + 1) = d /\ d \in 0 .. length
    BY <2>3, <2>4, <2>5
  <2> HIDE DEF d
  <2>7. ToInt(d) = d
    BY <1>1, <1>7, <2>6, ToIntIsInt, Widths
  <2> QED
    BY <2>6, <2>7
<1> DEFINE Right == {n \in Nat : n <= count => left[n] = rest(n)}
<1> HIDE DEF rest
<1>8. Right \in SUBSET Nat /\ 0 \in Right
  BY <1>6
<1>9. \A n \in Right : n + 1 \in Right
  BY <1>1, <1>7
<1> HIDE DEF Right
<1>10. count \in Right
  BY <1>1, <1>8, <1>9, AllNumbers
<1>11. left[count] = rest(count)
  BY <1>1, <1>10 DEF Right
<1> QED
  BY <1>5, <1>11 DEF rest

\* The first list parts request that gives the program parts gives it the first
\* parts of the upload.
LEMMA ListPartsInv ==
  ASSUME Before, ListParts, ~relisted'
  PROVE  TypeOK' /\ NoGaps' /\ Progress' /\ (length' < IntMax => InPlace' /\ Reported')
<1>1. PICK result \in Results, count \in 0 .. PageSize :
        /\ count <= Len(Page)
        /\ StoreListed(count)
        /\ IF count = 0 THEN UNCHANGED nextPartNumberMarker ELSE TRUE
        /\ ~(count > 0 /\ next_etags_pos > 0)
        /\ Conclude(result, "list", "listed")
  BY Zenon DEF ListParts
<1>2. /\ pc = "list" /\ pc' \in {"list", "listed", "clean"} /\ UNCHANGED source
      /\ statusG' = result
      /\ pc' = "clean" => result # "OK"
      /\ UNCHANGED <<uploads, open, parts, object, upload_id, contentLength, seq,
                     partContentLength, partLeft, position>>
  BY <1>1, ConcludeFacts DEF ListParts, server, putVars
<1>3. /\ TypeOK /\ NoGaps /\ Progress /\ (length < IntMax => InPlace)
      /\ length \in Nat \ {0} /\ TotalSeq \in Nat \ {0} /\ Numbers = 1 .. TotalSeq
      /\ ~copying /\ next_etags_pos \in 0 .. TotalSeq /\ Kept(next_etags_pos)
      /\ next_etags_pos = 0 => nextPartNumberMarker = 0
      /\ upload_id \in 1 .. uploads /\ upload_id \in 1 .. MaxUploads
      /\ remaining \in Int /\ etags \in [0 .. TotalSeq - 1 -> Values]
  <2>1. /\ TypeOK /\ NoGaps /\ Progress /\ (length < IntMax => InPlace)
        /\ length \in Nat \ {0} /\ TotalSeq \in Nat \ {0} /\ Numbers = 1 .. TotalSeq
    BY Lengths DEF Before, IInv
  <2>2. /\ ~copying /\ next_etags_pos \in 0 .. TotalSeq /\ Kept(next_etags_pos)
        /\ next_etags_pos = 0 => nextPartNumberMarker = 0
    BY <1>2, <2>1 DEF Progress
  <2>3. /\ remaining \in Int /\ etags \in [0 .. TotalSeq - 1 -> Values]
        /\ uploads \in 0 .. MaxUploads /\ MaxUploads \in Nat
    BY <2>1, UploadAssumption DEF TypeOK
  <2>4. upload_id \in 1 .. uploads
    BY <2>2 DEF Kept
  <2>5. upload_id \in 1 .. MaxUploads
    BY <2>3, <2>4
  <2> QED
    BY <2>1, <2>2, <2>3, <2>4, <2>5
<1>4. /\ etags' = [i \in DOMAIN etags |->
                    IF i < count THEN parts[upload_id][Page[i + 1]] ELSE etags[i]]
      /\ next_etags_pos' = next_etags_pos + count
      /\ remaining' = RemainingAfter(count)
  BY <1>1 DEF StoreListed
<1>5. count \in Nat
  BY UploadAssumption
<1>6. NoGaps'
  BY <1>2, SameSource DEF Before, IInv, NoGaps
<1>7. Reported'
  BY <1>2 DEF Reported
<1>8. CASE count = 0
  <2>1. RemainingAfter(0) = remaining
    <3>1. \A i \in 1 .. 0 : Len(parts[upload_id][Page[i]]) \in Int
      OBVIOUS
    <3> QED
      BY <1>3, <3>1, RemainingSteps
  <2>2. /\ remaining' = remaining /\ next_etags_pos' = next_etags_pos
        /\ nextPartNumberMarker' = nextPartNumberMarker
    BY <1>1, <1>3, <1>4, <1>8, <2>1
  <2>3. etags' = etags
    <3>1. \A i \in 0 .. TotalSeq - 1 : ~(i < 0)
      OBVIOUS
    <3> QED
      BY <1>3, <1>4, <1>8, <3>1
  <2>4. TypeOK'
    BY <1>2, <2>2, <2>3, SameSource DEF Before, IInv, TypeOK
  <2>5. Progress'
    BY <1>2, <1>3, <2>2, <2>3, SameSource DEF Progress, Kept
  <2>6. length < IntMax => InPlace'
    BY <1>2, <1>3, <2>2, SameSource DEF InPlace
  <2> QED
    BY <1>2, <1>6, <1>7, <2>4, <2>5, <2>6, SameSource
<1>9. CASE count # 0
  <2>1. next_etags_pos = 0 /\ nextPartNumberMarker = 0 /\ next_etags_pos' = count
    <3>1. ~(next_etags_pos > 0)
      BY <1>1, <1>5, <1>9
    <3>2. next_etags_pos = 0
      BY <1>3, <3>1
    <3> QED
      BY <1>3, <1>4, <1>5, <3>2
  <2>2. PICK k \in 0 .. TotalSeq : Stored = 1 .. k
    <3>1. \A n \in Stored : \A m \in 1 .. n : m \in Stored
      BY <1>3 DEF Stored, NoGaps
    <3> QED
      BY <1>3, <3>1, PrefixIsInterval
  <2>3. count <= k /\ k <= TotalSeq /\ \A i \in 1 .. count : Page[i] = i
    <3>1. /\ Len(Page) = Shorter(k, PageSize)
          /\ \A i \in 1 .. Shorter(k, PageSize) : Page[i] = i
      BY <2>1, <2>2, PageOfPrefix
    <3>2. Shorter(k, PageSize) \in Int /\ Shorter(k, PageSize) <= k
      <4>1. k \in Int /\ PageSize \in Int
        BY <1>3, UploadAssumption
      <4> QED
        BY <4>1, ShorterFacts
    <3> QED
      BY <1>1, <1>3, <1>5, <3>1, <3>2
  <2>4. \A i \in 1 .. count : /\ i \in Numbers /\ Page[i] = i
                              /\ parts[upload_id][i] # NoPart
                              /\ parts[upload_id][i] \in Seq(Nat)
    <3>1. \A i \in 1 .. count : i \in Stored
      BY <1>3, <1>5, <2>2, <2>3
    <3> QED
      BY <1>3, <2>3, <3>1 DEF Stored, TypeOK, Values
  <2>5. remaining' \in Int
    <3>1. \A i \in 1 .. count : Len(parts[upload_id][Page[i]]) \in Int
      BY <2>4
    <3>2. PICK left \in [0 .. count -> Int] : RemainingAfter(count) = left[count]
      BY <1>3, <1>5, <3>1, RemainingSteps
    <3> QED
      BY <1>4, <1>5, <3>2
  <2>6. /\ etags' \in [0 .. TotalSeq - 1 -> Values]
        /\ \A n \in 1 .. count : etags'[n - 1] = parts[upload_id][n]
    <3>1. \A i \in 0 .. TotalSeq - 1 : i < count => i + 1 \in 1 .. count
      BY <1>5
    <3>2. \A i \in 0 .. TotalSeq - 1 : i < count => Page[i + 1] = i + 1 /\ i + 1 \in Numbers
      BY <2>4, <3>1
    <3>3. \A n \in 1 .. count : /\ n - 1 \in 0 .. TotalSeq - 1
                                /\ n - 1 < count /\ n - 1 + 1 = n
      BY <1>3, <1>5, <2>3
    <3>4. \A n \in Numbers : parts[upload_id][n] \in Values
      BY <1>3 DEF TypeOK
    <3> QED
      BY <1>3, <1>4, <3>2, <3>3, <3>4
  <2>7. TypeOK'
    BY <1>2, <1>5, <2>1, <2>5, <2>6, SameSource DEF Before, IInv, TypeOK
  <2>8. Progress'
    <3>1. Kept(count)'
      BY <1>2, <1>3, <2>4, <2>6 DEF Kept
    <3>2. count \in 0 .. TotalSeq
      BY <1>3, <1>5, <2>3
    <3> QED
      BY <1>2, <1>3, <1>9, <2>1, <3>1, <3>2, SameSource DEF Progress
  <2>9. ASSUME length < IntMax PROVE InPlace'
    <3>1. \A i \in 1 .. count : parts[upload_id][Page[i]] = Part(i)
      BY <1>3, <2>4, <2>9 DEF InPlace
    <3>2. remaining = length
      <4>1. remaining = length - Shorter(C * 0, length)
        BY <1>2, <1>3, <2>1, <2>9 DEF InPlace
      <4>2. C * 0 = 0 /\ Shorter(0, length) = 0
        BY <1>3, Widths DEF Shorter
      <4> QED
        BY <1>3, <4>1, <4>2
    <3>3. remaining' = length - Shorter(C * count, length)
      BY <1>3, <1>4, <1>5, <2>3, <2>9, <3>1, <3>2, RemainingListed
    <3> QED
      BY <1>2, <1>3, <2>1, <2>9, <3>3, SameSource DEF InPlace
  <2> QED
    BY <1>2, <1>6, <1>7, <2>7, <2>8, <2>9, SameSource
<1> QED
  BY <1>8, <1>9

LEMMA NextPageInv ==
  ASSUME Before, NextPage
  PROVE  TypeOK' /\ NoGaps' /\ Progress' /\ (length' < IntMax => InPlace' /\ Reported')
<1>1. /\ pc = "listed" /\ pc' = "list" /\ UNCHANGED source
      /\ UNCHANGED <<uploads, open, parts, object, upload_id, etags, next_etags_pos,
                     remaining, contentLength, seq, partContentLength, partLeft,
                     position, nextPartNumberMarker>>
  BY DEF NextPage, server, manager, putVars
<1>2. TypeOK'
  BY <1>1, SameSource DEF Before, IInv, TypeOK
<1>3. NoGaps'
  BY <1>1, SameSource DEF Before, IInv, NoGaps
<1>4. Progress'
  BY <1>1, SameSource DEF Before, IInv, Progress, Kept
<1>5. length < IntMax => InPlace'
  BY <1>1, SameSource DEF Before, IInv, InPlace
<1>6. Reported'
  BY <1>1 DEF Reported
<1> QED
  BY <1>1, <1>2, <1>3, <1>4, <1>5, <1>6, SameSource

\* The upload goes on with the part after those that S3 has.
LEMMA ResumeInv ==
  ASSUME Before, Resume
  PROVE  TypeOK' /\ NoGaps' /\ Progress' /\ (length' < IntMax => InPlace' /\ Reported')
<1>1. /\ pc = "listed" /\ pc' = "upload" /\ UNCHANGED source
      /\ position' = IF remaining <= length THEN length - remaining ELSE position
      /\ contentLength' = ToLong(remaining)
      /\ seq' = next_etags_pos + 1
      /\ UNCHANGED <<uploads, open, parts, object, upload_id, etags, next_etags_pos,
                     remaining, partContentLength, partLeft, nextPartNumberMarker>>
  BY DEF Resume, server, manager, listVars
<1>2. /\ TypeOK /\ NoGaps /\ Progress /\ (length < IntMax => InPlace)
      /\ length \in Nat \ {0} /\ TotalSeq \in Nat \ {0}
      /\ next_etags_pos \in 0 .. TotalSeq /\ Kept(next_etags_pos)
      /\ remaining \in Int /\ position \in Nat /\ seq' - 1 = next_etags_pos
  <2>1. /\ TypeOK /\ NoGaps /\ Progress /\ (length < IntMax => InPlace)
        /\ length \in Nat \ {0} /\ TotalSeq \in Nat \ {0}
    BY <1>1, Lengths DEF Before, IInv
  <2>2. /\ next_etags_pos \in 0 .. TotalSeq /\ Kept(next_etags_pos)
        /\ remaining \in Int /\ position \in Nat
    BY <1>1, <2>1 DEF TypeOK, Progress
  <2>3. seq' - 1 = next_etags_pos
    BY <1>1, <2>1, <2>2
  <2> QED
    BY <2>1, <2>2, <2>3
<1>3. contentLength' \in Nat /\ seq' \in Nat \ {0} /\ position' \in Nat
  <2>1. contentLength' \in Nat
    BY <1>1, <1>2, ToLongIsNat
  <2>2. seq' \in Nat \ {0}
    BY <1>1, <1>2
  <2>3. position' \in Nat
    BY <1>1, <1>2
  <2> QED
    BY <2>1, <2>2, <2>3
<1>4. TypeOK'
  BY <1>1, <1>3, SameSource DEF Before, IInv, TypeOK
<1>5. NoGaps'
  BY <1>1, SameSource DEF Before, IInv, NoGaps
<1>6. Progress'
  <2>1. Kept(seq - 1)'
    BY <1>1, <1>2 DEF Kept
  <2>2. seq' <= TotalSeq + 1
    BY <1>1, <1>2
  <2> QED
    BY <1>1, <1>2, <2>1, <2>2, SameSource DEF Progress
<1>7. ASSUME length < IntMax PROVE InPlace'
  <2>1. /\ remaining = length - Shorter(C * next_etags_pos, length)
        /\ \A id \in 1 .. MaxUploads : \A n \in Numbers : parts[id][n] \in {NoPart, Part(n)}
    BY <1>1, <1>2, <1>7 DEF InPlace
  <2>2. ASSUME seq' <= TotalSeq
        PROVE  contentLength' = length - Start(seq') /\ position' = Start(seq')
    <3> DEFINE s == Start(seq')
    <3>1. s \in Nat /\ s < length /\ s = C * next_etags_pos
      BY <1>2, <1>3, <2>2, StartFacts DEF Start
    <3>2. remaining = length - Shorter(s, length)
      BY <2>1, <3>1
    <3> HIDE DEF s
    <3>3. remaining = length - s /\ remaining <= length /\ length - remaining = s
      BY <1>2, <3>1, <3>2 DEF Shorter
    <3>4. ToLong(remaining) = remaining
      <4>1. 0 <= remaining /\ remaining < IntMax
        BY <1>2, <1>7, <3>1, <3>3, Widths
      <4> QED
        BY <1>2, <4>1, ToLongIsNat
    <3>5. contentLength' = length - s /\ position' = s
      BY <1>1, <3>3, <3>4
    <3> QED
      BY <3>5 DEF s
  <2> QED
    BY <1>1, <2>1, <2>2, SameSource DEF InPlace, Start
<1>8. Reported'
  BY <1>1 DEF Reported
<1> QED
  BY <1>1, <1>4, <1>5, <1>6, <1>7, <1>8, SameSource

\* A step from a state in which no run has listed twice.
LEMMA StepInv ==
  ASSUME Before, Next, ~relisted'
  PROVE  TypeOK' /\ NoGaps' /\ Progress' /\ (length' < IntMax => InPlace' /\ Reported')
<1>1. CASE StartPut
  BY <1>1, StartPutInv
<1>2. CASE StartContinue
  BY <1>2, StartContinueInv
<1>3. CASE Killed
  BY <1>3, ResetInv DEF Killed
<1>4. CASE Clean
  BY <1>4, ResetInv DEF Clean
<1>5. CASE PutObject
  BY <1>5, PutObjectInv
<1>6. CASE Initiate
  BY <1>6, InitiateInv
<1>7. CASE NextPart
  BY <1>7, NextPartInv
<1>8. CASE UploadPart
  BY <1>8, UploadPartInv
<1>9. CASE CopyPart
  BY <1>9, CopyPartInv
<1>10. CASE BuildCommit
  BY <1>10, BuildCommitInv
<1>11. CASE Commit
  BY <1>11, CommitInv
<1>12. CASE ListParts
  BY <1>12, ListPartsInv
<1>13. CASE NextPage
  BY <1>13, NextPageInv
<1>14. CASE Resume
  BY <1>14, ResumeInv
<1> QED
  BY <1>1, <1>2, <1>3, <1>4, <1>5, <1>6, <1>7, <1>8, <1>9, <1>10, <1>11, <1>12, <1>13,
     <1>14
  DEF Next, Program

\* What was listed twice stays so.
LEMMA RelistedStays ==
  ASSUME relisted, [Next]_vars
  PROVE  relisted'
BY DEF Next, Program, vars, history, StartPut, StartContinue, Begin, Killed, Clean, Reset,
       PutObject, Initiate, NextPart, UploadPart, CopyPart, BuildCommit, Commit, ListParts,
       NextPage, Resume

LEMMA NextIInv == IInv /\ [Next]_vars => IInv'
<1> SUFFICES ASSUME IInv, [Next]_vars PROVE IInv'
  OBVIOUS
<1>1. CASE relisted'
  BY <1>1 DEF IInv
<1>2. CASE ~relisted'
  <2>1. Before
    BY <1>2, RelistedStays DEF Before
  <2>2. CASE Next
    BY <1>2, <2>1, <2>2, StepInv DEF IInv
  <2>3. CASE UNCHANGED vars
    BY <2>3 DEF vars, source, server, manager, putVars, listVars, history, IInv, TypeOK,
       NoGaps, Progress, Kept, InPlace, Reported, Numbers, TotalSeq, Values, Part, Chunk,
       LastByteAlone
  <2> QED
    BY <2>2, <2>3
<1> QED
  BY <1>1, <1>2

-----------------------------------------------------------------------------
(* Until some run is given parts by two list parts requests, the parts S3  *)
(* has are the first ones of each upload, the program has their ETags, and *)
(* it is at the place of the source where the next part begins.            *)
THEOREM Invariance == Spec => []IInv
<1>1. Init => IInv
  BY InitIInv
<1>2. IInv /\ [Next]_vars => IInv'
  BY NextIInv
<1> QED
  BY <1>1, <1>2, PTL DEF Spec

(* Each part S3 has is the piece of the source its number says, whatever   *)
(* was retried, interrupted or continued, for every source an int can      *)
(* count, until a run is given parts by two list parts requests; except    *)
(* the last part of a copy when it has one byte.                           *)
THEOREM PartsInTheirPlace == Spec => []PartsAreChunks
<1>1. IInv => PartsAreChunks
  <2> SUFFICES ASSUME IInv, length < IntMax, ~relisted,
                      NEW id \in 1 .. uploads, NEW n \in Numbers,
                      ~(LastByteAlone /\ n = TotalSeq)
               PROVE  parts[id][n] \in {NoPart, Chunk(n)}
    BY DEF PartsAreChunks
  <2>1. TypeOK /\ InPlace
    BY DEF IInv
  <2>2. id \in 1 .. MaxUploads
    BY <2>1, UploadAssumption DEF TypeOK
  <2>3. Part(n) = Chunk(n)
    BY DEF Part
  <2> QED
    BY <2>1, <2>2, <2>3 DEF InPlace
<1> QED
  BY <1>1, Invariance, PTL

(* The ETags a commit sends are those of the parts S3 has, for sources of  *)
(* every length, whichever run of the program sent the parts, until a run  *)
(* is given parts by two list parts requests.                              *)
THEOREM EtagsAreThoseOfParts == Spec => []EtagsOfParts
<1>1. IInv => EtagsOfParts
  <2> SUFFICES ASSUME IInv, pc = "commit", ~relisted, NEW n \in Numbers
               PROVE  etags[n - 1] = parts[upload_id][n]
    BY DEF EtagsOfParts
  <2>1. Kept(TotalSeq)
    BY DEF IInv, Progress
  <2> QED
    BY <2>1 DEF Kept, Numbers
<1> QED
  BY <1>1, Invariance, PTL

-----------------------------------------------------------------------------
(* The refinement of AtomicPut                                             *)

\* The object that the steps of the upload leave under the key.
LEMMA ObjectStep ==
  ASSUME Before, Next, length < IntMax
  PROVE  object' \in {object, Content}
<1>1. CASE PutObject
  BY <1>1, PutObjectTakes
<1>2. CASE Commit
  BY <1>2, CommitInv
<1>3. CASE ~PutObject /\ ~Commit
  BY <1>3 DEF Next, Program, StartPut, StartContinue, Begin, Killed, Clean, Reset, Initiate,
     NextPart, UploadPart, CopyPart, BuildCommit, ListParts, NextPage, Resume, server
<1> QED
  BY <1>1, <1>2, <1>3

\* What the user is told.
LEMMA OutcomeStep ==
  ASSUME Before, Next, length < IntMax, outcome' # outcome
  PROVE  /\ UNCHANGED object
         /\ outcome' \in {"none", "OK", "error"}
         /\ outcome' = "OK" => object = Content
<1>1. CASE Killed
  BY <1>1 DEF Killed, Reset, server
<1>2. CASE Clean
  <2>1. UNCHANGED object /\ outcome' = IF statusG = "OK" THEN "OK" ELSE "error"
    BY <1>2 DEF Clean, Reset, server
  <2>2. statusG = "OK" => object = Content
    BY <1>2 DEF Clean, Before, IInv, Reported, Content
  <2> QED
    BY <2>1, <2>2
<1>3. CASE ~Killed /\ ~Clean
  BY <1>3 DEF Next, Program, StartPut, StartContinue, Begin, PutObject, Initiate,
     NextPart, UploadPart, CopyPart, BuildCommit, Commit, ListParts, NextPage, Resume
<1> QED
  BY <1>1, <1>2, <1>3

LEMMA SourceStep ==
  ASSUME Next
  PROVE  UNCHANGED source
BY DEF Next, Program, StartPut, StartContinue, Begin, Killed, Clean, Reset,
       PutObject, Initiate, NextPart, UploadPart, CopyPart, BuildCommit, Commit, ListParts,
       NextPage, Resume

(* When an object does not have one part that S3 is given in full, what is *)
(* put together of what S3 is given is the source.                         *)
LEMMA ContentIsWhole ==
  ASSUME ~LastByteAlone
  PROVE  Content = Whole
<1>1. [n \in Numbers |-> Part(n)] = [n \in Numbers |-> Chunk(n)]
  BY DEF Part
<1> QED
  BY <1>1 DEF Content, Whole

(* `s3 put` of a file, or of an object, whose length an int can count puts *)
(* the whole source or nothing and reports success only for the former,    *)
(* wherever requests fail and the program is killed and continued, until a *)
(* run is given parts by two list parts requests, and except for the copy  *)
(* of an object whose last part has one byte.                              *)
THEOREM PutIsAtomic ==
  ASSUME \A l \in ContentLengths : l < IntMax
  PROVE  Spec => ImplementsAtomicPut
<1>1. Init => Put!Init
  BY DEF Init, Put!Init
<1>2. IInv /\ [Next]_vars => [relisted \/ LastByteAlone \/ Put!Next]_(Put!vars)
  <2> SUFFICES ASSUME IInv, [Next]_vars, ~relisted, ~LastByteAlone
               PROVE  [Put!Next]_(Put!vars)
    OBVIOUS
  <2>1. Before
    BY DEF Before
  <2>2. length < IntMax
    BY <2>1 DEF Before, IInv, TypeOK
  <2>3. CASE UNCHANGED vars
    <3>1. UNCHANGED <<length, copying, object, outcome>>
      BY <2>3 DEF vars, source, server
    <3>2. UNCHANGED Whole
      BY <3>1 DEF Whole, Numbers, TotalSeq, Chunk
    <3> QED
      BY <3>1, <3>2 DEF Put!vars
  <2>4. CASE Next
    <3>1. UNCHANGED Whole
      BY <2>4, SourceStep DEF source, Whole, Numbers, TotalSeq, Chunk
    <3>2. Content = Whole
      BY ContentIsWhole
    <3>3. object' \in {object, Whole}
      BY <2>1, <2>2, <2>4, <3>2, ObjectStep
    <3>4. CASE outcome' = outcome
      BY <3>1, <3>3, <3>4 DEF Put!Next, Put!Replace, Put!vars
    <3>5. CASE outcome' # outcome
      <4>1. /\ UNCHANGED object /\ outcome' \in {"none", "OK", "error"}
            /\ outcome' = "OK" => object = Whole
        BY <2>1, <2>2, <2>4, <3>2, <3>5, OutcomeStep
      <4> QED
        BY <3>1, <4>1 DEF Put!Next, Put!Succeed, Put!Fail, Put!Begin
    <3> QED
      BY <3>4, <3>5
  <2> QED
    BY <2>3, <2>4
<1> QED
  BY <1>1, <1>2, Invariance, PTL DEF Spec, ImplementsAtomicPut
=============================================================================
