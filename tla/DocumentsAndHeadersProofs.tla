---------------------- MODULE DocumentsAndHeadersProofs ---------------------
(***************************************************************************)
(* What libs3 reads back is what was written: the properties of a          *)
(* response, the details of an error, the grants of an ACL or of a logging *)
(* configuration; and what it writes is sent whole.  For strings, lists of *)
(* grants, buffers and pieces of text of any length.                       *)
(***************************************************************************)
EXTENDS DocumentReader, Headers, FiniteSetTheorems, SequenceTheorems, WellFoundedInduction, TLAPS

-----------------------------------------------------------------------------
(* Induction: a set of numbers has a least one.                            *)

LEMMA LeastNumber ==
  ASSUME NEW T \in SUBSET Nat, T # {}
  PROVE  \E n \in T : \A m \in T : n <= m
<1> DEFINE R == OpToRel(<, Nat)
<1>1. IsWellFoundedOn(R, Nat)
  BY NatLessThanWellFounded
<1>2. PICK n \in T : \A m \in T : ~(<<m, n>> \in R)
  <2> HIDE DEF R
  <2> QED
    BY <1>1, WFMin
<1>3. \A m \in T : ~(m < n)
  BY <1>2 DEF OpToRel
<1> QED
  BY <1>3

LEMMA AllNumbers ==
  ASSUME NEW T \in SUBSET Nat, 0 \in T, \A n \in T : n + 1 \in T
  PROVE  T = Nat
<1> SUFFICES ASSUME T # Nat PROVE FALSE
  OBVIOUS
<1>1. PICK n \in Nat \ T : \A m \in Nat \ T : n <= m
  BY LeastNumber
<1>2. n # 0 /\ n - 1 \in Nat
  BY <1>1
<1>3. n - 1 \in T
  BY <1>1, <1>2
<1> QED
  BY <1>1, <1>3

-----------------------------------------------------------------------------
(* Sums                                                                    *)

\* total is the sums of the first sizes.
Sums(sizes, total) ==
  /\ total \in [0 .. Len(sizes) -> Nat]
  /\ total[0] = 0
  /\ \A i \in 1 .. Len(sizes) : total[i] = total[i - 1] + sizes[i]

LEMMA SumsExist ==
  ASSUME NEW sizes \in Seq(Nat)
  PROVE  \E total : Sums(sizes, total)
<1> DEFINE First(n) == \E total \in [0 .. n -> Nat] :
                          /\ total[0] = 0
                          /\ \A i \in 1 .. n : total[i] = total[i - 1] + sizes[i]
           Good == {n \in Nat : n <= Len(sizes) => First(n)}
<1>1. 0 \in Good
  <2> DEFINE total == [i \in 0 .. 0 |-> 0]
  <2>1. total \in [0 .. 0 -> Nat] /\ total[0] = 0 /\ \A i \in 1 .. 0 : FALSE
    OBVIOUS
  <2> HIDE DEF total
  <2> QED
    BY <2>1
<1>2. ASSUME NEW n \in Good PROVE n + 1 \in Good
  <2> SUFFICES ASSUME n + 1 <= Len(sizes) PROVE First(n + 1)
    <3> HIDE DEF First
    <3> QED
      OBVIOUS
  <2> DEFINE s == sizes[n + 1]
  <2>1. n \in Nat /\ Len(sizes) \in Nat /\ n <= Len(sizes) /\ s \in Nat
    OBVIOUS
  <2> HIDE DEF s
  <2>2. PICK total \in [0 .. n -> Nat] :
          total[0] = 0 /\ \A i \in 1 .. n : total[i] = total[i - 1] + sizes[i]
    BY <1>2, <2>1
  <2> DEFINE more == [i \in 0 .. n + 1 |-> IF i <= n THEN total[i] ELSE total[n] + s]
  <2>3. /\ more \in [0 .. n + 1 -> Nat]
        /\ \A i \in 0 .. n : more[i] = total[i]
        /\ more[n + 1] = total[n] + s
    <3>1. total[n] \in Nat /\ total[n] + s \in Nat
      BY <2>1
    <3> QED
      BY <2>1, <3>1
  <2> HIDE DEF more
  <2>4. more[0] = 0
    BY <2>1, <2>2, <2>3
  <2>5. ASSUME NEW i \in 1 .. n + 1 PROVE more[i] = more[i - 1] + sizes[i]
    <3>1. CASE i <= n
      <4>1. i \in 1 .. n /\ i \in 0 .. n /\ i - 1 \in 0 .. n
        BY <2>1, <3>1
      <4> QED
        BY <2>2, <2>3, <4>1
    <3>2. CASE i = n + 1
      <4>1. i - 1 = n /\ n \in 0 .. n
        BY <2>1, <3>2
      <4> QED
        BY <2>3, <3>2, <4>1 DEF s
    <3> QED
      BY <2>1, <3>1, <3>2
  <2> QED
    BY <2>3, <2>4, <2>5
<1> HIDE DEF First
<1>3. Good = Nat
  <2>1. Good \in SUBSET Nat /\ \A n \in Good : n + 1 \in Good
    BY <1>2
  <2> HIDE DEF Good
  <2> QED
    BY <1>1, <2>1, AllNumbers
<1>4. First(Len(sizes))
  BY <1>3
<1> QED
  BY <1>4 DEF First, Sums

LEMMA SumsUnique ==
  ASSUME NEW sizes \in Seq(Nat), NEW more \in Seq(Nat), Len(sizes) <= Len(more),
         \A i \in 1 .. Len(sizes) : more[i] = sizes[i],
         NEW total, Sums(sizes, total), NEW longer, Sums(more, longer)
  PROVE  \A i \in 0 .. Len(sizes) : longer[i] = total[i]
<1> DEFINE Good == {n \in Nat : n <= Len(sizes) => longer[n] = total[n]}
<1>1. 0 \in Good
  BY DEF Sums
<1>2. ASSUME NEW n \in Good PROVE n + 1 \in Good
  <2> SUFFICES ASSUME n + 1 <= Len(sizes) PROVE longer[n + 1] = total[n + 1]
    OBVIOUS
  <2>1. n \in Nat /\ longer[n] = total[n] /\ n + 1 \in 1 .. Len(sizes) /\ n + 1 \in 1 .. Len(more)
        /\ n + 1 - 1 = n
    OBVIOUS
  <2> QED
    BY <2>1 DEF Sums
<1>3. Good = Nat
  <2>1. Good \in SUBSET Nat /\ \A n \in Good : n + 1 \in Good
    BY <1>2
  <2> HIDE DEF Good
  <2> QED
    BY <1>1, <2>1, AllNumbers
<1> QED
  BY <1>3

LEMMA TotalIsSum ==
  ASSUME NEW sizes \in Seq(Nat), NEW total, Sums(sizes, total)
  PROVE  Total(sizes) = total[Len(sizes)]
<1> DEFINE Step(f, i) == IF i = 0 THEN 0 ELSE f[i - 1] + sizes[i]
           chosen == CHOOSE f : f = [i \in 0 .. Len(sizes) |-> Step(f, i)]
<1>1. Total(sizes) = chosen[Len(sizes)]
  BY DEF Total
<1>2. total = [i \in 0 .. Len(sizes) |-> Step(total, i)]
  <2>1. \A i \in 0 .. Len(sizes) : total[i] = Step(total, i)
    BY DEF Sums
  <2> HIDE DEF Step
  <2> QED
    BY <2>1 DEF Sums
<1>3. chosen = [i \in 0 .. Len(sizes) |-> Step(chosen, i)]
  <2> HIDE DEF Step
  <2> QED
    BY <1>2
<1> HIDE DEF chosen
<1> DEFINE Good == {n \in Nat : n <= Len(sizes) => chosen[n] = total[n]}
<1>4. 0 \in Good
  <2>1. 0 \in 0 .. Len(sizes)
    OBVIOUS
  <2> QED
    BY <1>3, <2>1 DEF Sums
<1>5. ASSUME NEW n \in Good PROVE n + 1 \in Good
  <2> SUFFICES ASSUME n + 1 <= Len(sizes) PROVE chosen[n + 1] = total[n + 1]
    OBVIOUS
  <2>1. n \in Nat /\ chosen[n] = total[n] /\ n + 1 \in 1 .. Len(sizes) /\ n + 1 \in 0 .. Len(sizes)
        /\ n + 1 - 1 = n /\ n + 1 # 0
    OBVIOUS
  <2>2. chosen[n + 1] = Step(chosen, n + 1)
    <3> HIDE DEF Step
    <3> QED
      BY <1>3, <2>1
  <2> QED
    BY <2>1, <2>2 DEF Sums
<1>6. Good = Nat
  <2>1. Good \in SUBSET Nat /\ \A n \in Good : n + 1 \in Good
    BY <1>5
  <2> HIDE DEF Good
  <2> QED
    BY <1>4, <2>1, AllNumbers
<1> QED
  BY <1>1, <1>6

LEMMA TotalFacts ==
  /\ Total(<<>>) = 0
  /\ \A sizes \in Seq(Nat) : Total(sizes) \in Nat
  /\ \A sizes \in Seq(Nat), n \in Nat : Total(Append(sizes, n)) = Total(sizes) + n
<1>1. ASSUME NEW sizes \in Seq(Nat) PROVE Total(sizes) \in Nat
  <2>1. PICK total : Sums(sizes, total)
    BY SumsExist
  <2>2. Total(sizes) = total[Len(sizes)]
    BY <2>1, TotalIsSum
  <2> QED
    BY <2>1, <2>2 DEF Sums
<1>2. Total(<<>>) = 0
  <2>1. <<>> \in Seq(Nat) /\ Len(<<>>) = 0
    OBVIOUS
  <2>2. PICK total : Sums(<<>>, total)
    BY <2>1, SumsExist
  <2>3. Total(<<>>) = total[0]
    BY <2>1, <2>2, TotalIsSum
  <2> QED
    BY <2>2, <2>3 DEF Sums
<1>3. ASSUME NEW sizes \in Seq(Nat), NEW n \in Nat
      PROVE  Total(Append(sizes, n)) = Total(sizes) + n
  <2> DEFINE more == Append(sizes, n)
  <2>1. /\ more \in Seq(Nat) /\ Len(more) = Len(sizes) + 1
        /\ \A i \in 1 .. Len(sizes) : more[i] = sizes[i]
        /\ more[Len(sizes) + 1] = n
    BY AppendProperties
  <2> HIDE DEF more
  <2>2. PICK total : Sums(sizes, total)
    BY SumsExist
  <2>3. PICK longer : Sums(more, longer)
    BY <2>1, SumsExist
  <2>4. longer[Len(sizes)] = total[Len(sizes)]
    <3>1. \A i \in 0 .. Len(sizes) : longer[i] = total[i]
      BY <2>1, <2>2, <2>3, SumsUnique
    <3> QED
      BY <3>1
  <2>5. Total(sizes) = total[Len(sizes)] /\ Total(more) = longer[Len(more)]
    BY <2>1, <2>2, <2>3, TotalIsSum
  <2>6. longer[Len(more)] = longer[Len(sizes)] + n
    <3>1. Len(more) \in 1 .. Len(more) /\ Len(more) - 1 = Len(sizes)
      BY <2>1
    <3> QED
      BY <2>1, <2>3, <3>1 DEF Sums
  <2> QED
    BY <2>4, <2>5, <2>6 DEF more
<1> QED
  BY <1>1, <1>2, <1>3

-----------------------------------------------------------------------------
(* Multibuffers                                                            *)

\* A multibuffer with n places.
Buffer(smb, n) ==
  /\ smb = [memory |-> smb.memory, size |-> smb.size]
  /\ n \in Nat /\ smb.size \in 0 .. n
  /\ DOMAIN smb.memory = 0 .. n - 1
  /\ smb.memory = [place \in 0 .. n - 1 |-> smb.memory[place]]

\* A string and its null are there, below a limit.
Holds(smb, at, str, limit) ==
  /\ IsString(str)
  /\ at \in Nat /\ at + Len(str) + 1 <= limit
  /\ \A i \in 1 .. Len(str) : smb.memory[at + i - 1] = str[i]
  /\ smb.memory[at + Len(str)] = Null

\* The places below a limit are as they were.
Unchanged(smb, new, limit) == \A place \in 0 .. limit - 1 : new.memory[place] = smb.memory[place]

LEMMA StringFacts ==
  ASSUME NEW str, IsString(str)
  PROVE  /\ Len(str) \in Nat /\ DOMAIN str = 1 .. Len(str)
         /\ \A i \in 1 .. Len(str) : str[i] # Null
         /\ str = [i \in 1 .. Len(str) |-> str[i]]
<1> DEFINE chars == Range(str) \ {Null}
<1>1. str \in Seq(chars) /\ Null \notin chars
  BY DEF IsString
<1> HIDE DEF chars
<1> QED
  BY <1>1

LEMMA SizeOfBuffer ==
  ASSUME NEW smb, NEW n, Buffer(smb, n)
  PROVE  SizeOf(smb) = n
<1>1. n \in Nat /\ DOMAIN smb.memory = 0 .. n - 1
  BY DEF Buffer
<1>2. 0 \in Int /\ n - 1 \in Int
  BY <1>1
<1>3. Cardinality(0 .. n - 1) = IF 0 > n - 1 THEN 0 ELSE n - 1 - 0 + 1
  BY <1>2, FS_Interval
<1> QED
  BY <1>1, <1>3 DEF SizeOf

LEMMA EmptyBuffer ==
  ASSUME NEW n \in Nat
  PROVE  Buffer(Multibuffer(n), n) /\ Multibuffer(n).size = 0
<1> DEFINE smb == Multibuffer(n)
<1>1. /\ smb.memory = [place \in 0 .. n - 1 |-> Null] /\ smb.size = 0
      /\ smb = [memory |-> smb.memory, size |-> smb.size]
  BY DEF Multibuffer
<1>2. /\ DOMAIN smb.memory = 0 .. n - 1
      /\ smb.memory = [place \in 0 .. n - 1 |-> smb.memory[place]]
  BY <1>1
<1> QED
  BY <1>1, <1>2 DEF Buffer

LEMMA StringIsRead ==
  ASSUME NEW smb, NEW n, Buffer(smb, n), NEW at, NEW str, Holds(smb, at, str, n)
  PROVE  StringAt(smb, at) = str
<1> DEFINE Ends(e) == /\ e = SizeOf(smb) \/ smb.memory[e] = Null
                      /\ \A place \in at .. e - 1 : smb.memory[place] # Null
           end == CHOOSE e \in at .. SizeOf(smb) : Ends(e)
           here == at + Len(str)
<1>1. /\ n \in Nat /\ SizeOf(smb) = n /\ at \in Nat /\ Len(str) \in Nat /\ here + 1 <= n
      /\ \A i \in 1 .. Len(str) : smb.memory[at + i - 1] = str[i] /\ str[i] # Null
      /\ smb.memory[here] = Null
      /\ str = [i \in 1 .. Len(str) |-> str[i]]
  BY SizeOfBuffer, StringFacts DEF Buffer, Holds
<1>2. here \in at .. SizeOf(smb) /\ here \in Nat
  BY <1>1
<1>3. ASSUME NEW place \in at .. here - 1 PROVE smb.memory[place] # Null
  <2>1. place - at + 1 \in 1 .. Len(str) /\ at + (place - at + 1) - 1 = place
    BY <1>1
  <2> QED
    BY <1>1, <2>1
<1>4. Ends(here)
  BY <1>1, <1>3
<1>5. ASSUME NEW e \in at .. SizeOf(smb), Ends(e) PROVE e = here
  <2>1. ~(e < here)
    <3> SUFFICES ASSUME e < here PROVE FALSE
      OBVIOUS
    <3>1. e \in at .. here - 1 /\ e # SizeOf(smb)
      BY <1>1
    <3> QED
      BY <1>3, <1>5, <3>1
  <2>2. ~(here < e)
    <3> SUFFICES ASSUME here < e PROVE FALSE
      OBVIOUS
    <3>1. here \in at .. e - 1
      BY <1>1
    <3> QED
      BY <1>1, <1>5, <3>1
  <2> QED
    BY <1>2, <2>1, <2>2
<1> HIDE DEF Ends
<1>6. end = here
  BY <1>2, <1>4, <1>5
<1>7. StringAt(smb, at) = [i \in 1 .. end - at |-> smb.memory[at + i - 1]]
  BY DEF StringAt, Ends
<1> HIDE DEF end
<1>8. end - at = Len(str)
  BY <1>1, <1>6
<1> QED
  BY <1>1, <1>7, <1>8

\* A string that is below a limit stays there when nothing is written below it.
LEMMA StaysThere ==
  ASSUME NEW smb, NEW new, NEW at, NEW str, NEW low \in Int, NEW limit \in Int, NEW high \in Int,
         Holds(smb, at, str, low), Unchanged(smb, new, limit), low <= limit, low <= high
  PROVE  Holds(new, at, str, high)
<1>1. Len(str) \in Nat /\ at \in Nat /\ at + Len(str) + 1 <= low
  BY StringFacts DEF Holds
<1>2. \A i \in 1 .. Len(str) : at + i - 1 \in 0 .. limit - 1
  BY <1>1
<1>3. at + Len(str) \in 0 .. limit - 1
  BY <1>1
<1>4. at + Len(str) + 1 <= high
  BY <1>1
<1> QED
  BY <1>2, <1>3, <1>4 DEF Holds, Unchanged

\* What fits of a string.
Begin(str, room) == SubSeq(str, 1, Shorter(room - 1, Len(str)))

\* A string that is added is there, as much of it as there is room for.
LEMMA StringIsAdded ==
  ASSUME NEW smb, NEW n, Buffer(smb, n), NEW str, IsString(str)
  PROVE  LET new == string_multibuffer_add(smb, str)
         IN  /\ Buffer(new, n)
             /\ Unchanged(smb, new, smb.size)
             /\ AllFit(smb, str) <=> smb.size + Len(str) + 1 <= n
             /\ AllFit(smb, str) => /\ new.size = smb.size + Len(str) + 1
                                    /\ Holds(new, smb.size, str, new.size)
             /\ ~AllFit(smb, str) => new.size = n
             /\ smb.size < n => Holds(new, smb.size, Begin(str, n - smb.size), new.size)
<1> DEFINE new   == string_multibuffer_add(smb, str)
           room  == n - smb.size
           count == Shorter(room - 1, Len(str))
<1>1. /\ n \in Nat /\ SizeOf(smb) = n /\ smb.size \in Nat /\ smb.size <= n /\ Len(str) \in Nat
      /\ DOMAIN smb.memory = 0 .. n - 1
  BY SizeOfBuffer, StringFacts DEF Buffer
<1>2. /\ new.memory = [place \in 0 .. n - 1 |->
                         IF room > 0 /\ place \in smb.size .. smb.size + count - 1
                         THEN str[place - smb.size + 1]
                         ELSE IF room > 0 /\ place = smb.size + count THEN Null
                         ELSE smb.memory[place]]
      /\ new.size = Shorter(smb.size + Len(str) + 1, n)
      /\ new = [memory |-> new.memory, size |-> new.size]
  BY <1>1 DEF string_multibuffer_add, SnprintfAt
<1>3. AllFit(smb, str) <=> smb.size + Len(str) + 1 <= n
  BY <1>1 DEF AllFit
<1> HIDE DEF new
<1>4. Buffer(new, n)
  <2>1. new.size \in 0 .. n
    BY <1>1, <1>2 DEF Shorter
  <2>2. DOMAIN new.memory = 0 .. n - 1 /\ new.memory = [place \in 0 .. n - 1 |-> new.memory[place]]
    BY <1>2
  <2> QED
    BY <1>1, <1>2, <2>1, <2>2 DEF Buffer
<1>5. Unchanged(smb, new, smb.size)
  <2> SUFFICES ASSUME NEW place \in 0 .. smb.size - 1
               PROVE  new.memory[place] = smb.memory[place]
    BY DEF Unchanged
  <2>1. /\ place \in 0 .. n - 1 /\ place \notin smb.size .. smb.size + count - 1
        /\ room > 0 => place # smb.size + count
    BY <1>1 DEF Shorter
  <2> QED
    BY <1>2, <2>1
<1>6. ASSUME smb.size < n PROVE Holds(new, smb.size, Begin(str, room), new.size)
  <2> DEFINE kept == Begin(str, room)
  <2>1. count \in 0 .. Len(str) /\ smb.size + count <= n - 1 /\ room > 0
    BY <1>1, <1>6 DEF Shorter
  <2>2. /\ IsString(kept) /\ Len(kept) = count
        /\ \A i \in 1 .. count : kept[i] = str[i]
    <3> DEFINE chars == Range(str) \ {Null}
    <3>1. str \in Seq(chars) /\ Null \notin chars
      BY DEF IsString
    <3> HIDE DEF chars, count
    <3>2. /\ SubSeq(str, 1, count) \in Seq(chars)
          /\ Len(SubSeq(str, 1, count)) = count
          /\ \A i \in 1 .. count : SubSeq(str, 1, count)[i] = str[i]
      BY <2>1, <3>1
    <3>3. kept = SubSeq(str, 1, count)
      BY DEF Begin, count
    <3> HIDE DEF kept
    <3>4. kept \in Seq(Range(kept) \ {Null})
      BY <3>1, <3>2, <3>3 DEF Range
    <3> QED
      BY <3>2, <3>3, <3>4 DEF IsString
  <2>3. smb.size + count + 1 <= new.size
    BY <1>1, <1>2, <2>1 DEF Shorter
  <2>4. ASSUME NEW i \in 1 .. count PROVE new.memory[smb.size + i - 1] = str[i]
    <3> DEFINE place == smb.size + i - 1
    <3>1. /\ place \in 0 .. n - 1 /\ place \in smb.size .. smb.size + count - 1
          /\ place - smb.size + 1 = i
      <4>1. count \in Nat /\ smb.size \in Nat
        BY <1>1, <2>1
      <4> HIDE DEF count
      <4> QED
        BY <1>1, <2>1, <4>1
    <3> HIDE DEF place, count, room
    <3>2. new.memory[place] = str[i]
      BY <1>2, <2>1, <3>1
    <3> QED
      BY <3>2 DEF place
  <2>5. new.memory[smb.size + count] = Null
    <3>1. /\ smb.size + count \in 0 .. n - 1
          /\ smb.size + count \notin smb.size .. smb.size + count - 1
      BY <1>1, <2>1
    <3> HIDE DEF count, room
    <3> QED
      BY <1>2, <2>1, <3>1
  <2> HIDE DEF kept, count
  <2>6. Holds(new, smb.size, kept, new.size)
    BY <1>1, <2>2, <2>3, <2>4, <2>5 DEF Holds
  <2> QED
    BY <2>6 DEF kept
<1>7. ASSUME smb.size + Len(str) + 1 <= n PROVE Begin(str, room) = str /\ smb.size < n
  <2>1. count = Len(str) /\ smb.size < n
    BY <1>1, <1>7 DEF Shorter
  <2>2. SubSeq(str, 1, Len(str)) = str
    BY StringFacts DEF IsString
  <2> QED
    BY <2>1, <2>2 DEF Begin
<1>8. /\ smb.size + Len(str) + 1 <= n => new.size = smb.size + Len(str) + 1
      /\ ~(smb.size + Len(str) + 1 <= n) => new.size = n
  <2>1. new.size = Shorter(smb.size + Len(str) + 1, n)
    BY <1>2
  <2> QED
    BY <1>1, <2>1 DEF Shorter
<1> QED
  BY <1>3, <1>4, <1>5, <1>6, <1>7, <1>8 DEF new

-----------------------------------------------------------------------------
(* The details of an error                                                 *)

\* What the texts of an error document are made of.
Characters == (UNION Range(ErrorNames)) \cup {"/", "a", "b", "c", "d", "e", "f"}

Strings == Seq(Characters)

Details == [name : Strings, value : Strings]

\* The first details have their places in the buffer, one behind the other.
Placed(ep, details) ==
  LET smb    == ep.namesValues
      places == ep.extraDetails
      count  == Len(places)
  IN  /\ ep = [known |-> ep.known, extraDetails |-> places, namesValues |-> smb]
      /\ Buffer(smb, DetailsBufferSize)
      /\ places \in Seq([name : Nat, value : Nat]) /\ count <= Len(details)
      /\ \A i \in 1 .. count :
           /\ Holds(smb, places[i].name, details[i].name, smb.size - 1)
           /\ i < count => Holds(smb, places[i].value, details[i].value, smb.size - 1)
      /\ count > 0 => Holds(smb, places[count].value, details[count].value, smb.size)

\* All details have, as long as there is room; without it the buffer is full,
\* and the last are missing.
InPlace(ep, details) ==
  LET size   == ep.namesValues.size
      places == ep.extraDetails
      count  == Len(places)
  IN  /\ Placed(ep, details)
      /\ Room(details) <= DetailsBufferSize =>
           /\ count = Len(details) /\ size = Room(details)
           /\ count > 0 => places[count].value + Len(details[count].value) + 1 = size
      /\ Room(details) > DetailsBufferSize => count < Len(details) /\ size = DetailsBufferSize

ErrorInv ==
  subject = "error" =>
    /\ elementPath \in Strings /\ position \in Nat
    /\ runs \in Seq(Details)
    /\ Len(runs) <= EXTRA_DETAILS_SIZE => InPlace(errorParser, runs)

LEMMA NoNull == Null \notin Characters
<1>1. Null \notin UNION Range(ErrorNames)
  BY DocumentsAssumption
<1>2. Null \notin {"/", "a", "b", "c", "d", "e", "f"}
  BY DEF Null
<1> QED
  BY <1>1, <1>2, Zenon DEF Characters

LEMMA AreStrings ==
  ASSUME NEW str \in Strings
  PROVE  IsString(str)
<1>1. /\ str \in Seq(Characters) /\ Len(str) \in Nat /\ DOMAIN str = 1 .. Len(str)
      /\ str = [i \in 1 .. Len(str) |-> str[i]]
      /\ \A i \in 1 .. Len(str) : str[i] # Null
  BY NoNull DEF Strings
<1>2. \A i \in 1 .. Len(str) : str[i] \in Range(str) \ {Null}
  BY <1>1 DEF Range
<1>3. str \in Seq(Range(str) \ {Null})
  BY <1>1, <1>2
<1> QED
  BY <1>3 DEF IsString

\* What the last detail's value is made of grows.
Extended(details, str) == [details EXCEPT ![Len(details)].value = @ \o str]

LEMMA ExtendedFacts ==
  ASSUME NEW details \in Seq(Details), details # <<>>, NEW str \in Strings
  PROVE  LET n == Len(details) IN
         /\ n \in Nat /\ n > 0
         /\ Extended(details, str) \in Seq(Details)
         /\ Len(Extended(details, str)) = n
         /\ \A i \in 1 .. n - 1 : Extended(details, str)[i] = details[i]
         /\ Extended(details, str)[n].name = details[n].name
         /\ Extended(details, str)[n].value = details[n].value \o str
<1> DEFINE n    == Len(details)
           new  == Extended(details, str)
           last == [name |-> details[n].name, value |-> details[n].value \o str]
<1>1. n \in Nat /\ n > 0 /\ n \in 1 .. n /\ DOMAIN details = 1 .. n
  OBVIOUS
<1> HIDE DEF n, new, last
<1>2. details[n] \in Details
  BY <1>1
<1>2a. details[n].value \in Strings /\ details[n].name \in Strings
  BY <1>2 DEF Details
<1>3. details[n].value \o str \in Strings
  BY <1>2a DEF Strings
<1>4. last \in Details
  BY <1>2a, <1>3 DEF Details, last
<1>5. ASSUME NEW d \in Details, NEW v
      PROVE  [d EXCEPT !.value = v] = [name |-> d.name, value |-> v]
  BY DEF Details
<1>6. new = [details EXCEPT ![n] = last]
  BY <1>2, <1>5 DEF Extended, new, n, last
<1>7. /\ new \in Seq(Details) /\ Len(new) = n /\ new[n] = last
      /\ \A i \in 1 .. n - 1 : new[i] = details[i]
  BY <1>1, <1>4, <1>6
<1> QED
  BY <1>1, <1>7 DEF new, last, n

LEMMA RoomFacts ==
  ASSUME NEW details \in Seq(Details)
  PROVE  /\ Room(details) \in Nat
         /\ Room(<<>>) = 0
         /\ \A d \in Details : Room(Append(details, d))
                                 = Room(details) + Len(d.name) + Len(d.value) + 2
         /\ details # <<>> =>
              \A str \in Strings : Room(Extended(details, str)) = Room(details) + Len(str)
<1> DEFINE Size(d)   == Len(d.name) + Len(d.value) + 2
           Sizes(ds) == [i \in DOMAIN ds |-> Size(ds[i])]
<1>1. ASSUME NEW d \in Details PROVE Size(d) \in Nat
  BY DEF Details, Strings
<1>2. ASSUME NEW ds \in Seq(Details)
      PROVE  /\ Sizes(ds) \in Seq(Nat) /\ Len(Sizes(ds)) = Len(ds)
             /\ \A i \in 1 .. Len(ds) : Sizes(ds)[i] = Size(ds[i])
  <2> HIDE DEF Size
  <2>1. /\ Len(ds) \in Nat /\ DOMAIN ds = 1 .. Len(ds)
        /\ \A i \in 1 .. Len(ds) : ds[i] \in Details /\ Size(ds[i]) \in Nat
    BY <1>1
  <2>2. Sizes(ds) = [i \in 1 .. Len(ds) |-> Size(ds[i])]
    BY <2>1
  <2> QED
    BY <2>1, <2>2
<1>3. ASSUME NEW ds \in Seq(Details), NEW d \in Details
      PROVE  Room(Append(ds, d)) = Room(ds) + Size(d)
  <2>1. /\ Append(ds, d) \in Seq(Details) /\ Len(Append(ds, d)) = Len(ds) + 1
        /\ \A i \in 1 .. Len(ds) : Append(ds, d)[i] = ds[i]
        /\ Append(ds, d)[Len(ds) + 1] = d
    BY AppendProperties
  <2>2. Sizes(Append(ds, d)) = Append(Sizes(ds), Size(d))
    <3> DEFINE left == Sizes(Append(ds, d))
               right == Append(Sizes(ds), Size(d))
    <3>1. /\ left \in Seq(Nat) /\ Len(left) = Len(ds) + 1
          /\ \A i \in 1 .. Len(ds) + 1 : left[i] = Size(Append(ds, d)[i])
      <4> HIDE DEF Size, Sizes
      <4> QED
        BY <1>2, <2>1
    <3>2. /\ right \in Seq(Nat) /\ Len(right) = Len(ds) + 1
          /\ \A i \in 1 .. Len(ds) : right[i] = Sizes(ds)[i]
          /\ right[Len(ds) + 1] = Size(d)
      <4> HIDE DEF Size, Sizes
      <4> QED
        BY <1>1, <1>2, AppendProperties
    <3>3. \A i \in 1 .. Len(ds) : Sizes(ds)[i] = Size(ds[i])
      BY <1>2
    <3> HIDE DEF Size, Sizes, left, right
    <3>4. ASSUME NEW i \in 1 .. Len(left) PROVE left[i] = right[i]
      <4>1. Len(ds) \in Nat
        OBVIOUS
      <4>2. CASE i \in 1 .. Len(ds)
        BY <2>1, <3>1, <3>2, <3>3, <4>2
      <4>3. CASE i = Len(ds) + 1
        BY <2>1, <3>1, <3>2, <4>3
      <4> QED
        BY <3>1, <4>1, <4>2, <4>3
    <3>5. left = right
      BY <3>1, <3>2, <3>4, SeqEqual
    <3> QED
      BY <3>5 DEF left, right
  <2> HIDE DEF Size
  <2>3. Total(Append(Sizes(ds), Size(d))) = Total(Sizes(ds)) + Size(d)
    <3> HIDE DEF Sizes
    <3> QED
      BY <1>1, <1>2, TotalFacts
  <2> QED
    BY <2>2, <2>3 DEF Room, Size
<1>4. Room(details) \in Nat
  <2> HIDE DEF Sizes
  <2>1. Total(Sizes(details)) \in Nat
    BY <1>2, TotalFacts
  <2> QED
    BY <2>1 DEF Room, Sizes
<1>5. Room(<<>>) = 0
  <2>1. Sizes(<<>>) = <<>>
    OBVIOUS
  <2> QED
    BY <2>1, TotalFacts DEF Room
<1>6. ASSUME details # <<>>, NEW str \in Strings
      PROVE  Room(Extended(details, str)) = Room(details) + Len(str)
  <2> DEFINE n     == Len(details)
             front == SubSeq(details, 1, n - 1)
             new   == Extended(details, str)
  <2>1. /\ n \in Nat /\ n > 0
        /\ new \in Seq(Details) /\ Len(new) = n
        /\ \A i \in 1 .. n - 1 : new[i] = details[i]
        /\ new[n].name = details[n].name /\ new[n].value = details[n].value \o str
    BY <1>6, ExtendedFacts
  <2> HIDE DEF new
  <2>2. /\ front \in Seq(Details) /\ Len(front) = n - 1
        /\ \A i \in 1 .. n - 1 : front[i] = details[i]
    BY <2>1
  <2>3. details[n] \in Details /\ new[n] \in Details
    BY <2>1
  <2> HIDE DEF front
  <2>4. ASSUME NEW ds \in Seq(Details), Len(ds) = n, \A i \in 1 .. n - 1 : ds[i] = front[i]
        PROVE  ds = Append(front, ds[n])
    <3> DEFINE right == Append(front, ds[n])
    <3>1. ds[n] \in Details
      BY <2>1, <2>4
    <3>2. /\ right \in Seq(Details) /\ Len(right) = n
          /\ \A i \in 1 .. n - 1 : right[i] = front[i]
          /\ right[n] = ds[n]
      BY <2>1, <2>2, <3>1, AppendProperties
    <3> HIDE DEF right, n
    <3>3. ASSUME NEW i \in 1 .. n PROVE ds[i] = right[i]
      <4>1. i \in 1 .. n - 1 \/ i = n
        BY <2>1
      <4> QED
        BY <2>4, <3>2, <4>1
    <3>4. ds = right
      BY <2>4, <3>2, <3>3, SeqEqual
    <3> QED
      BY <3>4 DEF right
  <2>5. details = Append(front, details[n]) /\ new = Append(front, new[n])
    BY <2>1, <2>2, <2>4
  <2>6. /\ Room(details) = Room(front) + Size(details[n])
        /\ Room(new) = Room(front) + Size(new[n])
    BY <1>3, <2>2, <2>3, <2>5
  <2>7. Len(details[n].value \o str) = Len(details[n].value) + Len(str)
    BY <2>3 DEF Details, Strings
  <2>8. /\ Len(details[n].name) \in Nat /\ Len(details[n].value) \in Nat /\ Len(str) \in Nat
        /\ Room(front) \in Nat
    <3> HIDE DEF Sizes
    <3>1. Total(Sizes(front)) \in Nat
      BY <1>2, <2>2, TotalFacts
    <3>2. Room(front) \in Nat
      BY <3>1 DEF Room, Sizes
    <3>3. details[n].name \in Strings /\ details[n].value \in Strings
      BY <2>3 DEF Details
    <3>4. Len(details[n].name) \in Nat
      BY <3>3 DEF Strings
    <3>5. Len(details[n].value) \in Nat /\ Len(str) \in Nat
      BY <3>3, <2>3 DEF Strings
    <3> QED
      BY <3>2, <3>4, <3>5
  <2> DEFINE r == Room(front)
             x == Len(details[n].name)
             y == Len(details[n].value)
             z == Len(str)
  <2>9. /\ r \in Nat /\ x \in Nat /\ y \in Nat /\ z \in Nat
        /\ Room(details) = r + (x + y + 2) /\ Room(new) = r + (x + (y + z) + 2)
    BY <2>1, <2>6, <2>7, <2>8
  <2> HIDE DEF r, x, y, z
  <2>10. Room(new) = Room(details) + z
    BY <2>9
  <2> QED
    BY <2>10 DEF new, z
<1> HIDE DEF Sizes
<1>7. \A d \in Details : Room(Append(details, d))
                                 = Room(details) + Len(d.name) + Len(d.value) + 2
  <2> TAKE d \in Details
  <2>1. Len(d.name) \in Nat /\ Len(d.value) \in Nat
    BY DEF Details, Strings
  <2>2. Room(Append(details, d)) = Room(details) + Size(d)
    BY <1>3
  <2> DEFINE r == Room(details)
             x == Len(d.name)
             y == Len(d.value)
  <2>3. r \in Nat /\ x \in Nat /\ y \in Nat /\ Room(Append(details, d)) = r + (x + y + 2)
    BY <1>4, <2>1, <2>2
  <2> HIDE DEF r, x, y
  <2>4. Room(Append(details, d)) = r + x + y + 2
    BY <2>3
  <2> QED
    BY <2>4 DEF r, x, y
<1> QED
  BY <1>4, <1>5, <1>6, <1>7

\* A piece that goes behind the last string takes the place of its null.
LEMMA StringIsContinued ==
  ASSUME NEW smb, NEW n, Buffer(smb, n), smb.size > 0, NEW str, IsString(str)
  PROVE  LET new == string_multibuffer_append(smb, str)
             fits == AllFit(LastReopened(smb), str)
         IN  /\ Buffer(new, n)
             /\ Unchanged(smb, new, smb.size - 1)
             /\ fits <=> smb.size + Len(str) <= n
             /\ fits => /\ new.size = smb.size + Len(str)
                        /\ Holds(new, smb.size - 1, str, new.size)
             /\ ~fits => new.size = n
<1> DEFINE open == LastReopened(smb)
           new  == string_multibuffer_add(open, str)
<1>1. n \in Nat /\ smb.size \in Nat /\ smb.size <= n
  BY DEF Buffer
<1>2. open = [memory |-> smb.memory, size |-> smb.size - 1]
  <2>1. smb = [memory |-> smb.memory, size |-> smb.size]
    BY DEF Buffer
  <2> QED
    BY <2>1 DEF LastReopened
<1>3. open.memory = smb.memory /\ open.size = smb.size - 1
  BY <1>2
<1>4. Buffer(open, n)
  <2> HIDE DEF open
  <2> QED
    BY <1>1, <1>2, <1>3 DEF Buffer
<1> HIDE DEF open
<1>5. /\ Buffer(new, n)
      /\ Unchanged(open, new, open.size)
      /\ AllFit(open, str) <=> open.size + Len(str) + 1 <= n
      /\ AllFit(open, str) => /\ new.size = open.size + Len(str) + 1
                              /\ Holds(new, open.size, str, new.size)
      /\ ~AllFit(open, str) => new.size = n
  BY <1>4, StringIsAdded
<1>6. Len(str) \in Nat /\ open.size + Len(str) + 1 = smb.size + Len(str)
  BY <1>1, <1>3, StringFacts
<1>7. Unchanged(smb, new, smb.size - 1)
  BY <1>3, <1>5 DEF Unchanged
<1> QED
  BY <1>3, <1>5, <1>6, <1>7 DEF string_multibuffer_append, open

\* Places stay what they are of when only the places behind are written, and
\* of the details only later ones get more.
LEMMA PlacesStay ==
  ASSUME NEW ep, NEW details \in Seq(Details), Placed(ep, details),
         NEW more \in Seq(Details), Len(ep.extraDetails) <= Len(more),
         \A i \in 1 .. Len(ep.extraDetails) : more[i] = details[i],
         NEW smb, Buffer(smb, DetailsBufferSize), ep.namesValues.size <= smb.size,
         Unchanged(ep.namesValues, smb, ep.namesValues.size),
         NEW next, next = [ep EXCEPT !.namesValues = smb]
  PROVE  Placed(next, more)
<1> DEFINE old    == ep.namesValues
           places == ep.extraDetails
           count  == Len(places)
<1>1. /\ ep = [known |-> ep.known, extraDetails |-> places, namesValues |-> old]
      /\ Buffer(old, DetailsBufferSize)
      /\ places \in Seq([name : Nat, value : Nat])
      /\ \A i \in 1 .. count :
           /\ Holds(old, places[i].name, details[i].name, old.size - 1)
           /\ i < count => Holds(old, places[i].value, details[i].value, old.size - 1)
      /\ count > 0 => Holds(old, places[count].value, details[count].value, old.size)
  BY DEF Placed
<1>2. next = [known |-> ep.known, extraDetails |-> places, namesValues |-> smb]
  BY <1>1
<1>3. /\ next.known = ep.known /\ next.extraDetails = places /\ next.namesValues = smb
      /\ next = [known |-> next.known, extraDetails |-> next.extraDetails,
                 namesValues |-> next.namesValues]
  BY <1>2
<1>4. old.size \in Nat /\ smb.size \in Nat /\ old.size <= smb.size
  BY <1>1 DEF Buffer
<1> HIDE DEF old
<1>5. ASSUME NEW at, NEW text, Holds(old, at, text, old.size - 1)
      PROVE  Holds(smb, at, text, smb.size - 1)
  <2>1. /\ old.size - 1 \in Int /\ old.size \in Int /\ smb.size - 1 \in Int
        /\ old.size - 1 <= old.size /\ old.size - 1 <= smb.size - 1
    BY <1>4
  <2> QED
    BY <1>5, <2>1, StaysThere DEF old
<1>6. ASSUME NEW at, NEW text, Holds(old, at, text, old.size)
      PROVE  Holds(smb, at, text, smb.size)
  <2>1. old.size \in Int /\ smb.size \in Int /\ old.size <= smb.size /\ old.size <= old.size
    BY <1>4
  <2> QED
    BY <1>6, <2>1, StaysThere DEF old
<1> HIDE DEF places
<1>7. count \in Nat /\ count > 0 => count \in 1 .. count
  BY <1>1
<1>8. count <= Len(more) /\ \A i \in 1 .. count : more[i] = details[i]
  BY DEF places
<1>9. /\ \A i \in 1 .. count :
           /\ Holds(smb, places[i].name, more[i].name, smb.size - 1)
           /\ i < count => Holds(smb, places[i].value, more[i].value, smb.size - 1)
      /\ count > 0 => Holds(smb, places[count].value, more[count].value, smb.size)
  <2>0. count \in Nat
    BY <1>1
  <2>1. ASSUME NEW i \in 1 .. count
        PROVE  /\ Holds(smb, places[i].name, more[i].name, smb.size - 1)
               /\ i < count => Holds(smb, places[i].value, more[i].value, smb.size - 1)
    BY <1>1, <1>5, <1>8
  <2>2. ASSUME count > 0
        PROVE  Holds(smb, places[count].value, more[count].value, smb.size)
    <3>1. count \in 1 .. count
      BY <2>0, <2>2
    <3> QED
      BY <1>1, <1>6, <1>8, <2>2, <3>1
  <2> QED
    BY <2>1, <2>2
<1> QED
  BY <1>1, <1>3, <1>8, <1>9 DEF Placed

LEMMA FrontFacts ==
  ASSUME NEW S, NEW seq \in Seq(S), Len(seq) > 0
  PROVE  /\ Front(seq) \in Seq(S) /\ Len(Front(seq)) = Len(seq) - 1
         /\ \A i \in 1 .. Len(seq) - 1 : Front(seq)[i] = seq[i]
<1> DEFINE m == Len(seq) - 1
<1>1. m \in 0 .. Len(seq) /\ Front(seq) = SubSeq(seq, 1, m)
  BY DEF Front
<1> HIDE DEF m
<1>2. /\ SubSeq(seq, 1, m) \in Seq(S) /\ Len(SubSeq(seq, 1, m)) = m
      /\ \A i \in 1 .. m : SubSeq(seq, 1, m)[i] = seq[i]
  BY <1>1
<1> QED
  BY <1>1, <1>2 DEF m

\* When a piece of the last value does not fit, its detail is removed, and the
\* others stay.
LEMMA LastIsRemoved ==
  ASSUME NEW ep, NEW details \in Seq(Details), Placed(ep, details),
         Len(ep.extraDetails) > 0,
         NEW more \in Seq(Details), Len(ep.extraDetails) <= Len(more) + 1,
         \A i \in 1 .. Len(ep.extraDetails) - 1 : more[i] = details[i],
         NEW smb, Buffer(smb, DetailsBufferSize), ep.namesValues.size <= smb.size,
         Unchanged(ep.namesValues, smb, ep.namesValues.size - 1),
         NEW next, next = [ep EXCEPT !.namesValues = smb, !.extraDetails = Front(@)]
  PROVE  Placed(next, more)
<1> DEFINE old    == ep.namesValues
           places == ep.extraDetails
           count  == Len(places)
           fewer  == Front(places)
<1>1. /\ ep = [known |-> ep.known, extraDetails |-> places, namesValues |-> old]
      /\ Buffer(old, DetailsBufferSize)
      /\ places \in Seq([name : Nat, value : Nat])
      /\ \A i \in 1 .. count :
           /\ Holds(old, places[i].name, details[i].name, old.size - 1)
           /\ i < count => Holds(old, places[i].value, details[i].value, old.size - 1)
  BY DEF Placed
<1>2. next = [known |-> ep.known, extraDetails |-> fewer, namesValues |-> smb]
  BY <1>1
<1>3. /\ next.known = ep.known /\ next.extraDetails = fewer /\ next.namesValues = smb
      /\ next = [known |-> next.known, extraDetails |-> next.extraDetails,
                 namesValues |-> next.namesValues]
  BY <1>2
<1>4. old.size \in Nat /\ smb.size \in Nat /\ old.size <= smb.size
  BY <1>1 DEF Buffer
<1>5. /\ count \in Nat /\ count > 0
      /\ fewer \in Seq([name : Nat, value : Nat]) /\ Len(fewer) = count - 1
      /\ \A i \in 1 .. count - 1 : fewer[i] = places[i]
  <2>1. count \in Nat /\ count > 0
    BY <1>1
  <2> HIDE DEF places
  <2> QED
    BY <1>1, <2>1, FrontFacts
<1> HIDE DEF old
<1>6. ASSUME NEW at, NEW text, Holds(old, at, text, old.size - 1)
      PROVE  Holds(smb, at, text, smb.size - 1) /\ Holds(smb, at, text, smb.size)
  <2>1. /\ old.size - 1 \in Int /\ smb.size - 1 \in Int /\ smb.size \in Int
        /\ old.size - 1 <= smb.size - 1 /\ old.size - 1 <= smb.size /\ old.size - 1 <= old.size - 1
    BY <1>4
  <2>2. Unchanged(old, smb, old.size - 1)
    BY DEF old
  <2> QED
    BY <1>6, <2>1, <2>2, StaysThere
<1> HIDE DEF places, fewer
<1>7. ASSUME NEW i \in 1 .. count - 1
      PROVE  /\ Holds(smb, fewer[i].name, more[i].name, smb.size - 1)
             /\ Holds(smb, fewer[i].value, more[i].value, smb.size - 1)
             /\ Holds(smb, fewer[i].value, more[i].value, smb.size)
  <2>1. i \in 1 .. count /\ i < count
    <3> HIDE DEF count
    <3> QED
      BY <1>5
  <2>2. more[i] = details[i]
    BY DEF places
  <2> QED
    BY <1>1, <1>5, <1>6, <2>1, <2>2
<1>8. Len(fewer) <= Len(more)
  <2>1. count <= Len(more) + 1 /\ Len(more) \in Nat
    BY DEF places
  <2> QED
    BY <1>5, <2>1
<1>9. /\ \A i \in 1 .. Len(fewer) :
           /\ Holds(smb, fewer[i].name, more[i].name, smb.size - 1)
           /\ i < Len(fewer) => Holds(smb, fewer[i].value, more[i].value, smb.size - 1)
      /\ Len(fewer) > 0 => Holds(smb, fewer[Len(fewer)].value, more[Len(fewer)].value, smb.size)
  <2> DEFINE m == count - 1
  <2>1. m \in Nat /\ Len(fewer) = m
    BY <1>5
  <2> HIDE DEF m
  <2> QED
    BY <1>7, <2>1 DEF m
<1> QED
  BY <1>3, <1>5, <1>8, <1>9 DEF Placed

-----------------------------------------------------------------------------
(* The pieces of the details                                               *)

\* What is left of the details when more of them, or more of the last one, are
\* to be kept.
Grown(details, more) ==
  /\ more \in Seq(Details) /\ Len(details) <= Len(more)
  /\ \A i \in 1 .. Len(details) - 1 : more[i] = details[i]
  /\ Room(more) \in Nat /\ Room(details) \in Nat /\ Room(details) <= Room(more)

\* Without room nothing is added.
LEMMA NothingAdded ==
  ASSUME NEW ep, NEW details \in Seq(Details), InPlace(ep, details),
         Room(details) > DetailsBufferSize,
         NEW more, Grown(details, more), NEW name \in Strings, NEW str \in Strings
  PROVE  InPlace(AddDetail(ep, name, str), more)
<1> DEFINE smb  == ep.namesValues
           new  == string_multibuffer_add(smb, name)
           next == AddDetail(ep, name, str)
           count == Len(ep.extraDetails)
<1>1. /\ Buffer(smb, DetailsBufferSize) /\ smb.size = DetailsBufferSize
      /\ DetailsBufferSize \in Nat /\ Len(name) \in Nat /\ IsString(name)
      /\ Placed(ep, details) /\ count < Len(details) /\ count \in Nat /\ Len(details) \in Nat
  BY AreStrings, StringFacts DEF InPlace, Placed, Buffer
<1>2. /\ ~AllFit(smb, name) /\ Buffer(new, DetailsBufferSize) /\ new.size = DetailsBufferSize
      /\ Unchanged(smb, new, smb.size)
  BY <1>1, StringIsAdded
<1>3. next = [ep EXCEPT !.namesValues = new]
  BY <1>2 DEF AddDetail
<1>4. next.namesValues = new /\ next.extraDetails = ep.extraDetails
  BY <1>1, <1>3 DEF Placed
<1> HIDE DEF new, next
<1>5. /\ more \in Seq(Details) /\ Len(more) \in Nat /\ count < Len(more)
      /\ \A i \in 1 .. count : more[i] = details[i]
      /\ ~(Room(more) <= DetailsBufferSize)
  BY <1>1 DEF Grown
<1>6. Placed(next, more)
  <2>1. smb.size <= new.size /\ count <= Len(more)
    BY <1>1, <1>2, <1>5
  <2> QED
    BY <1>1, <1>2, <1>3, <1>5, <2>1, PlacesStay
<1>7. InPlace(next, more)
  BY <1>2, <1>4, <1>5, <1>6 DEF InPlace
<1> QED
  BY <1>7 DEF next

\* Without room a detail that is continued is lost.
LEMMA NothingContinued ==
  ASSUME NEW ep, NEW details \in Seq(Details), InPlace(ep, details),
         Room(details) > DetailsBufferSize, ep.extraDetails # <<>>,
         NEW more, Grown(details, more), NEW str \in Strings, Len(str) > 0
  PROVE  InPlace(AppendToDetail(ep, str), more)
<1> DEFINE smb  == ep.namesValues
           new  == string_multibuffer_append(smb, str)
           next == AppendToDetail(ep, str)
           count == Len(ep.extraDetails)
<1>1. /\ Buffer(smb, DetailsBufferSize) /\ smb.size = DetailsBufferSize
      /\ DetailsBufferSize \in Nat /\ DetailsBufferSize > 0 /\ Len(str) \in Nat /\ IsString(str)
      /\ Placed(ep, details) /\ count < Len(details) /\ count \in Nat /\ count > 0
      /\ Len(details) \in Nat /\ ep.extraDetails \in Seq([name : Nat, value : Nat])
  <2>1. /\ Placed(ep, details) /\ count < Len(details) /\ smb.size = DetailsBufferSize
        /\ Buffer(smb, DetailsBufferSize)
        /\ ep.extraDetails \in Seq([name : Nat, value : Nat])
    BY DEF InPlace, Placed
  <2>2. Len(str) \in Nat /\ IsString(str) /\ Len(details) \in Nat
    BY AreStrings, StringFacts
  <2>3. count \in Nat /\ count > 0
    BY <2>1
  <2> QED
    BY <2>1, <2>2, <2>3, ErrorParserAssumption
<1>2. /\ ~AllFit(LastReopened(smb), str) /\ Buffer(new, DetailsBufferSize)
      /\ new.size = DetailsBufferSize /\ Unchanged(smb, new, smb.size - 1)
  BY <1>1, StringIsContinued
<1>3. next = [ep EXCEPT !.namesValues = new, !.extraDetails = Front(@)]
  BY <1>2 DEF AppendToDetail
<1>4. next.namesValues = new /\ next.extraDetails = Front(ep.extraDetails)
  BY <1>1, <1>3 DEF Placed
<1> HIDE DEF new, next
<1>5. /\ more \in Seq(Details) /\ Len(more) \in Nat /\ count < Len(more)
      /\ \A i \in 1 .. count - 1 : more[i] = details[i]
      /\ ~(Room(more) <= DetailsBufferSize)
  <2>1. /\ more \in Seq(Details) /\ Len(more) \in Nat /\ Len(details) <= Len(more)
        /\ \A i \in 1 .. Len(details) - 1 : more[i] = details[i]
        /\ ~(Room(more) <= DetailsBufferSize)
    BY <1>1 DEF Grown
  <2>2. \A i \in 1 .. count - 1 : i \in 1 .. Len(details) - 1
    BY <1>1
  <2>3. count < Len(more)
    BY <1>1, <2>1
  <2> QED
    BY <2>1, <2>2, <2>3
<1>6. Placed(next, more)
  <2>1. smb.size <= new.size /\ count <= Len(more) + 1
    BY <1>1, <1>2, <1>5
  <2> QED
    BY <1>1, <1>2, <1>3, <1>5, <2>1, LastIsRemoved
<1>7. Len(next.extraDetails) < Len(more)
  BY <1>1, <1>4, <1>5, FrontFacts
<1>8. InPlace(next, more)
  BY <1>2, <1>4, <1>5, <1>6, <1>7 DEF InPlace
<1> QED
  BY <1>8 DEF next

\* A piece of the last detail is put behind it, or the detail is removed.
LEMMA LastIsContinued ==
  ASSUME NEW ep, NEW details \in Seq(Details), InPlace(ep, details),
         Room(details) <= DetailsBufferSize, details # <<>>, NEW str \in Strings, Len(str) > 0
  PROVE  InPlace(AppendToDetail(ep, str), Extended(details, str))
<1> DEFINE smb  == ep.namesValues
           new  == string_multibuffer_append(smb, str)
           next == AppendToDetail(ep, str)
           more == Extended(details, str)
           n    == Len(details)
           places == ep.extraDetails
           last == details[n].value
<1>1. /\ n \in Nat /\ n > 0 /\ more \in Seq(Details) /\ Len(more) = n
      /\ \A i \in 1 .. n - 1 : more[i] = details[i]
      /\ more[n].name = details[n].name /\ more[n].value = last \o str
  BY ExtendedFacts
<1>2. /\ Room(more) = Room(details) + Len(str) /\ Room(details) \in Nat
  BY RoomFacts
<1>3. last \in Strings
  <2>1. details[n] \in Details
    BY <1>1
  <2> QED
    BY <2>1 DEF Details
<1>4. /\ Len(str) \in Nat /\ IsString(str) /\ Len(last) \in Nat /\ IsString(last)
      /\ \A i \in 1 .. Len(str) : str[i] # Null
  BY <1>3, AreStrings, StringFacts
<1> HIDE DEF n
<1>5. /\ Buffer(smb, DetailsBufferSize) /\ DetailsBufferSize \in Nat
      /\ Placed(ep, details) /\ Len(places) = n /\ smb.size = Room(details)
      /\ places[n].value + Len(last) + 1 = smb.size
      /\ places \in Seq([name : Nat, value : Nat])
  BY <1>1 DEF InPlace, Placed, Buffer, n
<1>6. places[n].value \in Nat /\ places[n] \in [name : Nat, value : Nat]
  <2>1. n \in 1 .. Len(places)
    BY <1>1, <1>5
  <2> DEFINE S == [name : Nat, value : Nat]
  <2>2. places \in Seq(S)
    BY <1>5
  <2> HIDE DEF places, S
  <2>3. places[n] \in S
    BY <2>1, <2>2
  <2> QED
    BY <2>3 DEF S
<1> HIDE DEF more, last
<1>7. /\ smb.size > 0
      /\ Buffer(new, DetailsBufferSize)
      /\ Unchanged(smb, new, smb.size - 1)
      /\ AllFit(LastReopened(smb), str) <=> smb.size + Len(str) <= DetailsBufferSize
      /\ AllFit(LastReopened(smb), str) => /\ new.size = smb.size + Len(str)
                                           /\ Holds(new, smb.size - 1, str, new.size)
      /\ ~AllFit(LastReopened(smb), str) => new.size = DetailsBufferSize
  <2> DEFINE at == places[n].value
             l  == Len(last)
  <2>0. at \in Nat /\ l \in Nat /\ at + l + 1 = smb.size
    BY <1>4, <1>5, <1>6
  <2> HIDE DEF at, l
  <2>1. smb.size > 0
    BY <2>0
  <2> QED
    BY <1>4, <1>5, <2>1, StringIsContinued
<1>8. smb.size \in Nat /\ smb.size <= DetailsBufferSize
  BY <1>5 DEF Buffer
<1> HIDE DEF places, new
<1>9. CASE ~AllFit(LastReopened(smb), str)
  <2>1. next = [ep EXCEPT !.namesValues = new, !.extraDetails = Front(@)]
    BY <1>9 DEF AppendToDetail, new
  <2>2. next.namesValues = new /\ next.extraDetails = Front(places)
    BY <1>5, <2>1 DEF Placed, places
  <2> HIDE DEF next
  <2>3. Len(ep.extraDetails) = n
    BY <1>5 DEF places
  <2>4. Placed(next, more)
    <3>1. /\ smb.size <= new.size /\ n <= Len(more) + 1
      BY <1>1, <1>7, <1>8, <1>9
    <3> QED
      BY <1>1, <1>5, <1>7, <2>1, <2>3, <3>1, LastIsRemoved
  <2>5. Len(next.extraDetails) = n - 1
    BY <1>1, <1>5, <2>2, FrontFacts
  <2>6. ~(Room(more) <= DetailsBufferSize)
    BY <1>2, <1>4, <1>5, <1>7, <1>8, <1>9
  <2>7. new.size = DetailsBufferSize /\ n - 1 < n
    BY <1>1, <1>7, <1>9
  <2>8. InPlace(next, more)
    BY <1>1, <2>2, <2>4, <2>5, <2>6, <2>7 DEF InPlace
  <2> QED
    BY <2>8 DEF next, more
<1>10. CASE AllFit(LastReopened(smb), str)
  <2>1. next = [ep EXCEPT !.namesValues = new]
    <3>1. next = [ep EXCEPT !.namesValues = new, !.extraDetails = @]
      BY <1>10 DEF AppendToDetail, new
    <3> QED
      BY <1>5, <3>1 DEF Placed
  <2>2. next = [known |-> ep.known, extraDetails |-> places, namesValues |-> new]
    BY <1>5, <2>1 DEF Placed, places
  <2> HIDE DEF next
  <2>3. next.namesValues = new /\ next.extraDetails = places /\ next.known = ep.known
    BY <2>2
  <2>4. /\ new.size = smb.size + Len(str) /\ Holds(new, smb.size - 1, str, new.size)
        /\ smb.size + Len(str) <= DetailsBufferSize
    BY <1>7, <1>10
  <2>5. /\ \A i \in 1 .. n :
             /\ Holds(smb, places[i].name, details[i].name, smb.size - 1)
             /\ i < n => Holds(smb, places[i].value, details[i].value, smb.size - 1)
        /\ Holds(smb, places[n].value, last, smb.size)
    BY <1>1, <1>5 DEF Placed, places, last
  <2> HIDE DEF smb
  <2>6. ASSUME NEW at, NEW text, Holds(smb, at, text, smb.size - 1)
        PROVE  Holds(new, at, text, new.size - 1)
    <3>1. /\ smb.size - 1 \in Int /\ new.size - 1 \in Int
          /\ smb.size - 1 <= new.size - 1 /\ smb.size - 1 <= smb.size - 1
      BY <1>4, <1>8, <2>4
    <3> QED
      BY <1>7, <2>6, <3>1, StaysThere
  <2>7. ASSUME NEW i \in 1 .. n
        PROVE  /\ Holds(new, places[i].name, more[i].name, new.size - 1)
               /\ i < n => Holds(new, places[i].value, more[i].value, new.size - 1)
    <3>1. Holds(smb, places[i].name, more[i].name, smb.size - 1)
      <4>1. more[i].name = details[i].name
        <5>1. i \in 1 .. n - 1 \/ i = n
          BY <1>1
        <5> QED
          BY <1>1, <5>1
      <4> QED
        BY <2>5, <4>1
    <3>2. ASSUME i < n PROVE Holds(smb, places[i].value, more[i].value, smb.size - 1)
      <4>1. i \in 1 .. n - 1
        BY <1>1, <3>2
      <4> QED
        BY <1>1, <2>5, <3>2, <4>1
    <3> QED
      BY <2>6, <3>1, <3>2
  <2>8. Holds(new, places[n].value, more[n].value, new.size)
    <3> DEFINE at   == places[n].value
               text == last \o str
    <3>1. /\ Len(text) = Len(last) + Len(str)
          /\ \A i \in 1 .. Len(last) : text[i] = last[i]
          /\ \A i \in 1 .. Len(str) : text[Len(last) + i] = str[i]
          /\ IsString(text)
      <4>1. text \in Strings
        BY <1>3 DEF Strings
      <4>2. last \in Seq(Characters) /\ str \in Seq(Characters)
        BY <1>3 DEF Strings
      <4> QED
        BY <4>1, <4>2, AreStrings
    <3> HIDE DEF text, at
    <3>2. at \in Nat /\ at + Len(last) + 1 = smb.size
      BY <1>5, <1>6 DEF at
    <3>3. ASSUME NEW i \in 1 .. Len(text) PROVE new.memory[at + i - 1] = text[i]
      <4>1. CASE i \in 1 .. Len(last)
        <5>1. at + i - 1 \in 0 .. smb.size - 1 - 1
          BY <1>4, <3>2, <4>1
        <5>2. new.memory[at + i - 1] = smb.memory[at + i - 1]
          BY <1>7, <5>1 DEF Unchanged
        <5>3. smb.memory[at + i - 1] = last[i]
          BY <2>5, <4>1 DEF Holds, at
        <5> QED
          BY <3>1, <4>1, <5>2, <5>3
      <4>2. CASE i \notin 1 .. Len(last)
        <5>1. /\ i - Len(last) \in 1 .. Len(str) /\ Len(last) + (i - Len(last)) = i
              /\ smb.size - 1 + (i - Len(last)) - 1 = at + i - 1
          BY <1>4, <3>1, <3>2, <4>2
        <5> DEFINE j == i - Len(last)
        <5>2. text[Len(last) + j] = str[j] /\ new.memory[smb.size - 1 + j - 1] = str[j]
          <6>1. \A k \in 1 .. Len(str) : new.memory[smb.size - 1 + k - 1] = str[k]
            BY <2>4 DEF Holds
          <6> QED
            BY <3>1, <5>1, <6>1
        <5> QED
          BY <5>1, <5>2
      <4> QED
        BY <4>1, <4>2
    <3>4. new.memory[at + Len(text)] = Null
      <4>1. smb.size - 1 + Len(str) = at + Len(text)
        BY <1>4, <3>1, <3>2
      <4>2. new.memory[smb.size - 1 + Len(str)] = Null
        BY <2>4 DEF Holds
      <4> QED
        BY <4>1, <4>2
    <3>5. at + Len(text) + 1 <= new.size
      BY <1>4, <1>8, <2>4, <3>1, <3>2
    <3>6. Holds(new, at, text, new.size)
      BY <3>1, <3>2, <3>3, <3>4, <3>5 DEF Holds
    <3> QED
      BY <1>1, <3>6 DEF text, at
  <2>9. Placed(next, more)
    <3>1. next = [known |-> next.known, extraDetails |-> next.extraDetails,
                  namesValues |-> next.namesValues]
      BY <2>2, <2>3
    <3>2. n <= Len(more)
      BY <1>1
    <3> QED
      BY <1>5, <1>7, <2>3, <2>7, <2>8, <3>1, <3>2 DEF Placed
  <2>10. /\ Room(more) = new.size /\ Room(more) <= DetailsBufferSize
         /\ ~(Room(more) > DetailsBufferSize)
    BY <1>2, <1>4, <1>5, <1>8, <2>4 DEF smb
  <2>11. places[n].value + Len(more[n].value) + 1 = new.size
    <3>1. Len(last \o str) = Len(last) + Len(str)
      BY <1>3 DEF Strings
    <3> QED
      BY <1>1, <1>4, <1>5, <1>6, <2>4, <3>1 DEF smb
  <2>12. InPlace(next, more)
    BY <1>1, <1>5, <2>3, <2>9, <2>10, <2>11 DEF InPlace
  <2> QED
    BY <2>12 DEF next, more
<1> QED
  BY <1>9, <1>10

\* A new detail is put behind the others, if there is room for all of it.
LEMMA DetailIsAdded ==
  ASSUME NEW ep, NEW details \in Seq(Details), InPlace(ep, details),
         Room(details) <= DetailsBufferSize, Len(details) < EXTRA_DETAILS_SIZE,
         NEW name \in Strings, NEW str \in Strings
  PROVE  InPlace(AddDetail(ep, name, str), Append(details, [name |-> name, value |-> str]))
<1> DEFINE smb    == ep.namesValues
           named  == string_multibuffer_add(smb, name)
           valued == string_multibuffer_add(named, str)
           next   == AddDetail(ep, name, str)
           detail == [name |-> name, value |-> str]
           more   == Append(details, detail)
           n      == Len(details)
           places == ep.extraDetails
<1>1. detail \in Details /\ detail.name = name /\ detail.value = str
  BY DEF Details
<1>2. n \in Nat /\ Len(name) \in Nat /\ Len(str) \in Nat /\ IsString(name) /\ IsString(str)
  BY AreStrings, StringFacts
<1>3. /\ Room(details) \in Nat /\ Room(more) = Room(details) + Len(name) + Len(str) + 2
  <2> HIDE DEF detail
  <2> QED
    BY <1>1, RoomFacts
<1> HIDE DEF detail
<1>4. /\ more \in Seq(Details) /\ Len(more) = n + 1 /\ more[n + 1] = detail
      /\ \A i \in 1 .. n : more[i] = details[i]
  BY <1>1, AppendProperties
<1> HIDE DEF n, more
<1>5. /\ Buffer(smb, DetailsBufferSize) /\ DetailsBufferSize \in Nat
      /\ Placed(ep, details) /\ Len(places) = n /\ smb.size = Room(details)
      /\ places \in Seq([name : Nat, value : Nat])
      /\ ep = [known |-> ep.known, extraDetails |-> places, namesValues |-> smb]
  BY DEF InPlace, Placed, Buffer, n
<1>6. smb.size \in Nat /\ smb.size <= DetailsBufferSize
  BY <1>5 DEF Buffer
<1>7. /\ Buffer(named, DetailsBufferSize) /\ Unchanged(smb, named, smb.size)
      /\ AllFit(smb, name) <=> smb.size + Len(name) + 1 <= DetailsBufferSize
      /\ AllFit(smb, name) => /\ named.size = smb.size + Len(name) + 1
                              /\ Holds(named, smb.size, name, named.size)
      /\ ~AllFit(smb, name) => named.size = DetailsBufferSize
  BY <1>2, <1>5, StringIsAdded
<1> HIDE DEF named
<1>8. named.size \in Nat /\ named.size <= DetailsBufferSize
  BY <1>7 DEF Buffer
<1>9. /\ Buffer(valued, DetailsBufferSize) /\ Unchanged(named, valued, named.size)
      /\ AllFit(named, str) <=> named.size + Len(str) + 1 <= DetailsBufferSize
      /\ AllFit(named, str) => /\ valued.size = named.size + Len(str) + 1
                               /\ Holds(valued, named.size, str, valued.size)
      /\ ~AllFit(named, str) => valued.size = DetailsBufferSize
  BY <1>2, <1>7, StringIsAdded
<1> HIDE DEF valued
<1>10. Len(places) <= Len(more) /\ \A i \in 1 .. Len(places) : more[i] = details[i]
  BY <1>2, <1>4, <1>5
<1>11. CASE ~AllFit(smb, name)
  <2>1. next = [ep EXCEPT !.namesValues = named]
    BY <1>11 DEF AddDetail, named
  <2>2. next.namesValues = named /\ next.extraDetails = places
    BY <1>5, <2>1
  <2> HIDE DEF next
  <2>3. smb.size <= named.size /\ named.size = DetailsBufferSize
    BY <1>6, <1>7, <1>11
  <2>4. Placed(next, more)
    BY <1>4, <1>5, <1>7, <1>10, <2>1, <2>3, PlacesStay
  <2>5. ~(Room(more) <= DetailsBufferSize)
    BY <1>2, <1>3, <1>5, <1>6, <1>7, <1>11
  <2>6. Len(next.extraDetails) < Len(more)
    BY <1>2, <1>4, <1>5, <2>2
  <2>7. InPlace(next, more)
    BY <2>2, <2>3, <2>4, <2>5, <2>6 DEF InPlace
  <2> QED
    BY <2>7 DEF next, more, detail
<1>12. ASSUME AllFit(smb, name) PROVE Unchanged(smb, valued, smb.size)
  <2>1. \A place \in 0 .. smb.size - 1 : place \in 0 .. named.size - 1
    BY <1>2, <1>6, <1>7, <1>12
  <2> QED
    BY <1>7, <1>9, <2>1 DEF Unchanged
<1>13. CASE AllFit(smb, name) /\ ~AllFit(named, str)
  <2>1. next = [ep EXCEPT !.namesValues = valued]
    BY <1>13 DEF AddDetail, named, valued
  <2>2. next.namesValues = valued /\ next.extraDetails = places
    BY <1>5, <2>1
  <2> HIDE DEF next
  <2>3. smb.size <= valued.size /\ valued.size = DetailsBufferSize
    BY <1>6, <1>9, <1>13
  <2>4. Placed(next, more)
    BY <1>4, <1>5, <1>9, <1>10, <1>12, <1>13, <2>1, <2>3, PlacesStay
  <2>5. ~(Room(more) <= DetailsBufferSize)
    BY <1>2, <1>3, <1>5, <1>6, <1>7, <1>9, <1>13
  <2>6. Len(next.extraDetails) < Len(more)
    BY <1>2, <1>4, <1>5, <2>2
  <2>7. InPlace(next, more)
    BY <2>2, <2>3, <2>4, <2>5, <2>6 DEF InPlace
  <2> QED
    BY <2>7 DEF next, more, detail
<1>14. CASE AllFit(smb, name) /\ AllFit(named, str)
  <2> DEFINE place  == [name |-> smb.size, value |-> named.size]
             longer == Append(places, place)
  <2>1. StoredBehind(valued, Len(ep.extraDetails) + 1) = valued
    <3>1. Len(ep.extraDetails) + 1 <= EXTRA_DETAILS_SIZE
      BY <1>2, <1>5, ErrorParserAssumption DEF n
    <3> QED
      BY <3>1 DEF StoredBehind
  <2>2. next = [ep EXCEPT !.namesValues = valued, !.extraDetails = longer]
    BY <1>14, <2>1 DEF AddDetail, named, valued
  <2>3. next = [known |-> ep.known, extraDetails |-> longer, namesValues |-> valued]
    BY <1>5, <2>2
  <2>4. /\ next.namesValues = valued /\ next.extraDetails = longer
        /\ next = [known |-> next.known, extraDetails |-> next.extraDetails,
                   namesValues |-> next.namesValues]
    BY <2>3
  <2>5. place \in [name : Nat, value : Nat] /\ place.name = smb.size /\ place.value = named.size
    BY <1>6, <1>8
  <2> DEFINE S == [name : Nat, value : Nat]
  <2>6. places \in Seq(S) /\ place \in S
    BY <1>5, <2>5
  <2> HIDE DEF next, place, S, places
  <2>7. /\ longer \in Seq(S) /\ Len(longer) = n + 1 /\ longer[n + 1] = place
        /\ \A i \in 1 .. n : longer[i] = places[i]
    <3>1. Len(places) = n
      BY <1>5
    <3> QED
      BY <2>6, <3>1, AppendProperties
  <2>8. /\ \A i \in 1 .. n :
             /\ Holds(smb, places[i].name, details[i].name, smb.size - 1)
             /\ i < n => Holds(smb, places[i].value, details[i].value, smb.size - 1)
        /\ n > 0 => Holds(smb, places[n].value, details[n].value, smb.size)
    BY <1>5 DEF Placed, places
  <2> HIDE DEF smb, longer
  <2>9. /\ named.size = smb.size + Len(name) + 1 /\ valued.size = named.size + Len(str) + 1
        /\ valued.size <= DetailsBufferSize
        /\ Holds(named, smb.size, name, named.size) /\ Holds(valued, named.size, str, valued.size)
    BY <1>7, <1>9, <1>14
  <2>10. ASSUME NEW at, NEW text, NEW limit \in Int, limit <= smb.size, Holds(smb, at, text, limit)
         PROVE  Holds(valued, at, text, valued.size - 1)
    <3>1. /\ smb.size \in Int /\ valued.size - 1 \in Int /\ limit <= valued.size - 1
      BY <1>2, <1>6, <2>9, <2>10
    <3> QED
      BY <1>12, <1>14, <2>10, <3>1, StaysThere
  <2>11. Holds(valued, smb.size, name, valued.size - 1)
    <3>1. /\ named.size \in Int /\ valued.size - 1 \in Int
          /\ named.size <= valued.size - 1 /\ named.size <= named.size
      BY <1>2, <1>8, <2>9
    <3> QED
      BY <1>9, <2>9, <3>1, StaysThere
  <2>12. ASSUME NEW i \in 1 .. n
         PROVE  /\ Holds(valued, longer[i].name, more[i].name, valued.size - 1)
                /\ Holds(valued, longer[i].value, more[i].value, valued.size - 1)
    <3>1. longer[i] = places[i] /\ more[i] = details[i]
      BY <1>4, <2>7
    <3>2. smb.size - 1 \in Int /\ smb.size - 1 <= smb.size /\ smb.size \in Int
          /\ smb.size <= smb.size
      BY <1>6
    <3>3. Holds(valued, places[i].name, details[i].name, valued.size - 1)
      BY <2>8, <2>10, <3>2
    <3>4. n > 0 /\ (i < n \/ i = n)
      BY <1>2
    <3>5. Holds(valued, places[i].value, details[i].value, valued.size - 1)
      BY <2>8, <2>10, <3>2, <3>4
    <3> QED
      BY <3>1, <3>3, <3>5
  <2>13. /\ Holds(valued, longer[n + 1].name, more[n + 1].name, valued.size - 1)
         /\ Holds(valued, longer[n + 1].value, more[n + 1].value, valued.size)
    BY <1>1, <1>4, <2>5, <2>7, <2>9, <2>11
  <2>14. /\ \A i \in 1 .. n + 1 :
              /\ Holds(valued, longer[i].name, more[i].name, valued.size - 1)
              /\ i < n + 1 => Holds(valued, longer[i].value, more[i].value, valued.size - 1)
         /\ Holds(valued, longer[n + 1].value, more[n + 1].value, valued.size)
    <3>1. ASSUME NEW i \in 1 .. n + 1 PROVE i \in 1 .. n \/ i = n + 1
      BY <1>2
    <3> QED
      BY <1>2, <2>12, <2>13, <3>1
  <2>15. Placed(next, more)
    BY <1>2, <1>4, <1>9, <2>4, <2>7, <2>14 DEF Placed, S
  <2>16. /\ Room(more) = valued.size /\ ~(Room(more) > DetailsBufferSize)
    BY <1>2, <1>3, <1>5, <1>6, <2>9 DEF smb
  <2>17. longer[n + 1].value + Len(more[n + 1].value) + 1 = valued.size
    BY <1>1, <1>2, <1>4, <2>5, <2>7, <2>9
  <2>18. InPlace(next, more)
    BY <1>4, <2>4, <2>7, <2>15, <2>16, <2>17 DEF InPlace
  <2> QED
    BY <2>18 DEF next, more, detail
<1> QED
  BY <1>11, <1>13, <1>14

\* What the details are after another piece of the text of an element.
WithPiece(details, name, str) ==
  IF details # <<>> /\ Last(details).name = name
  THEN Extended(details, str)
  ELSE Append(details, [name |-> name, value |-> str])

LEMMA PieceGrows ==
  ASSUME NEW details \in Seq(Details), NEW name \in Strings, NEW str \in Strings
  PROVE  Grown(details, WithPiece(details, name, str))
<1> DEFINE detail == [name |-> name, value |-> str]
           added  == Append(details, detail)
           longer == Extended(details, str)
<1>1. detail \in Details /\ Len(detail.name) \in Nat /\ Len(detail.value) \in Nat
      /\ Len(str) \in Nat /\ Len(details) \in Nat /\ Room(details) \in Nat
  <2>1. Room(details) \in Nat
    BY RoomFacts
  <2>2. Len(name) \in Nat /\ Len(str) \in Nat
    BY DEF Strings
  <2> QED
    BY <2>1, <2>2 DEF Details
<1> HIDE DEF detail
<1>2. /\ added \in Seq(Details) /\ Len(added) = Len(details) + 1
      /\ \A i \in 1 .. Len(details) : added[i] = details[i]
  BY <1>1, AppendProperties
<1>3. Room(added) = Room(details) + Len(detail.name) + Len(detail.value) + 2
  BY <1>1, RoomFacts
<1> HIDE DEF added
<1>4. Grown(details, added)
  <2> DEFINE r == Room(details)
             x == Len(detail.name)
             y == Len(detail.value)
  <2>0. r \in Nat /\ x \in Nat /\ y \in Nat /\ Room(added) = r + x + y + 2
    BY <1>1, <1>3
  <2> HIDE DEF r, x, y
  <2>1. Room(added) \in Nat /\ Room(details) <= Room(added)
    BY <2>0 DEF r
  <2> QED
    BY <1>1, <1>2, <2>1 DEF Grown
<1>5. ASSUME details # <<>> PROVE Grown(details, longer)
  <2>1. /\ longer \in Seq(Details) /\ Len(longer) = Len(details)
        /\ \A i \in 1 .. Len(details) - 1 : longer[i] = details[i]
    BY <1>5, ExtendedFacts
  <2>2. Room(longer) = Room(details) + Len(str)
    BY <1>5, RoomFacts
  <2> HIDE DEF longer
  <2>3. Room(longer) \in Nat /\ Room(details) <= Room(longer)
    BY <1>1, <2>2
  <2> QED
    BY <1>1, <2>1, <2>3 DEF Grown
<1> QED
  BY <1>4, <1>5 DEF WithPiece, added, detail

\* The last detail's name is read back.
LEMMA LastName ==
  ASSUME NEW ep, NEW details \in Seq(Details), InPlace(ep, details),
         Room(details) <= DetailsBufferSize, NEW name
  PROVE  ContinuesLast(ep, name) <=> details # <<>> /\ Last(details).name = name
<1> DEFINE smb    == ep.namesValues
           places == ep.extraDetails
           n      == Len(details)
<1>1. /\ n \in Nat /\ Len(places) = n /\ places \in Seq([name : Nat, value : Nat])
      /\ Buffer(smb, DetailsBufferSize)
      /\ \A i \in 1 .. n : Holds(smb, places[i].name, details[i].name, smb.size - 1)
  BY DEF InPlace, Placed
<1>2. details # <<>> <=> n > 0
  OBVIOUS
<1>3. places # <<>> <=> n > 0
  <2> HIDE DEF places
  <2> QED
    BY <1>1
<1>4. Last(details) = details[n] /\ Last(places) = places[n]
  BY <1>1 DEF Last
<1> HIDE DEF places, smb, n
<1>5. ASSUME n > 0 PROVE StringAt(smb, places[n].name) = details[n].name
  <2>1. n \in 1 .. n
    BY <1>1, <1>5
  <2>2. Holds(smb, places[n].name, details[n].name, smb.size - 1)
    BY <1>1, <2>1
  <2>3. Holds(smb, places[n].name, details[n].name, DetailsBufferSize)
    <3>1. /\ smb.size \in Nat /\ smb.size <= DetailsBufferSize /\ DetailsBufferSize \in Nat
      BY <1>1 DEF Buffer
    <3>2. /\ smb.size - 1 \in Int /\ DetailsBufferSize \in Int
          /\ smb.size - 1 <= DetailsBufferSize /\ smb.size - 1 <= smb.size - 1
      BY <3>1
    <3>3. Unchanged(smb, smb, smb.size - 1)
      BY DEF Unchanged
    <3> QED
      BY <2>2, <3>2, <3>3, StaysThere
  <2> QED
    BY <1>1, <2>3, StringIsRead
<1> QED
  BY <1>2, <1>3, <1>4, <1>5 DEF ContinuesLast, places, smb

\* A callback with a piece of the text of an unknown element keeps the details
\* in place.
LEMMA PieceIsKept ==
  ASSUME NEW ep, NEW details \in Seq(Details), InPlace(ep, details),
         NEW path \in Strings, IsDetail(path), NEW name \in Strings, name = ElementName(path),
         NEW str \in Strings, Len(str) > 0,
         NEW more, more = WithPiece(details, name, str), Len(more) <= EXTRA_DETAILS_SIZE
  PROVE  InPlace(errorXmlCallback(ep, path, str), more)
<1> DEFINE count == Len(ep.extraDetails)
<1>1. ~(Len(path) = 2 /\ path[1] = "Error" /\ path[2] \in Known)
  <2> SUFFICES ASSUME Len(path) = 2, path[1] = "Error", path[2] \in Known PROVE FALSE
    OBVIOUS
  <2>1. path = <<"Error", path[2]>>
    BY DEF Strings
  <2> QED
    BY <2>1 DEF IsDetail
<1>2. errorXmlCallback(ep, path, str) =
        IF ContinuesLast(ep, name) THEN AppendToDetail(ep, str)
        ELSE IF DetailsFull(ep) THEN ep ELSE AddDetail(ep, name, str)
  BY <1>1 DEF errorXmlCallback
<1>3. /\ Grown(details, more) /\ Len(details) <= Len(more) /\ Len(more) \in Nat
      /\ Len(details) \in Nat /\ count \in Nat /\ count <= Len(details)
      /\ Room(details) \in Nat /\ DetailsBufferSize \in Nat
  <2>1. Grown(details, more)
    BY PieceGrows
  <2>2. ep.extraDetails \in Seq([name : Nat, value : Nat]) /\ count <= Len(details)
    BY DEF InPlace, Placed
  <2> QED
    BY <2>1, <2>2, ErrorParserAssumption DEF Grown
<1>4. ASSUME count < EXTRA_DETAILS_SIZE PROVE ~DetailsFull(ep)
  <2>1. EXTRA_DETAILS_SIZE \in Nat /\ SizeofDetail \in Nat /\ SizeofDetail >= 1
    BY ErrorParserAssumption
  <2>2. EXTRA_DETAILS_SIZE * SizeofDetail >= EXTRA_DETAILS_SIZE
    BY <2>1
  <2> HIDE DEF count
  <2>3. count # EXTRA_DETAILS_SIZE * SizeofDetail
    BY <1>3, <1>4, <2>1, <2>2
  <2> QED
    BY <2>3 DEF DetailsFull, count
<1>5. EXTRA_DETAILS_SIZE \in Nat
  BY ErrorParserAssumption
<1>6. CASE Room(details) > DetailsBufferSize
  <2>1. count < Len(details)
    BY <1>6 DEF InPlace
  <2>2. ~DetailsFull(ep)
    BY <1>3, <1>4, <1>5, <2>1
  <2>3. ASSUME ContinuesLast(ep, name) PROVE ep.extraDetails # <<>>
    BY <2>3 DEF ContinuesLast
  <2>4. ASSUME ContinuesLast(ep, name) PROVE InPlace(AppendToDetail(ep, str), more)
    BY <1>3, <1>6, <2>3, <2>4, NothingContinued
  <2>5. InPlace(AddDetail(ep, name, str), more)
    BY <1>3, <1>6, NothingAdded
  <2> QED
    BY <1>2, <2>2, <2>4, <2>5
<1>7. CASE Room(details) <= DetailsBufferSize
  <2>1. ContinuesLast(ep, name) <=> details # <<>> /\ Last(details).name = name
    BY <1>7, LastName
  <2>2. CASE ContinuesLast(ep, name)
    <3>1. more = Extended(details, str) /\ details # <<>>
      BY <2>1, <2>2 DEF WithPiece
    <3>2. InPlace(AppendToDetail(ep, str), more)
      BY <1>7, <3>1, LastIsContinued
    <3> QED
      BY <1>2, <2>2, <3>2
  <2>3. CASE ~ContinuesLast(ep, name)
    <3>1. more = Append(details, [name |-> name, value |-> str])
      BY <2>1, <2>3 DEF WithPiece
    <3>2. Len(more) = Len(details) + 1
      BY <3>1
    <3>3. Len(details) < EXTRA_DETAILS_SIZE /\ count < EXTRA_DETAILS_SIZE
      BY <1>3, <1>5, <3>2
    <3>4. InPlace(AddDetail(ep, name, str), more)
      BY <1>7, <3>1, <3>3, DetailIsAdded
    <3> QED
      BY <1>2, <1>4, <2>3, <3>3, <3>4
  <2> QED
    BY <2>2, <2>3
<1> QED
  BY <1>3, <1>6, <1>7

-----------------------------------------------------------------------------
(* The error document                                                      *)

LEMMA NamesAreStrings ==
  ASSUME NEW path \in Strings, IsDetail(path)
  PROVE  ElementName(path) \in Strings
<1> DEFINE count == 2 * Len(path) - 3
<1>1. path \in Seq(Characters) /\ Len(path) \in Nat /\ Len(path) > 1
  BY DEF IsDetail, Strings
<1>2. ASSUME NEW i \in 1 .. count, i % 2 # 0 PROVE path[(i + 3) \div 2] \in Characters
  <2>1. (i + 3) \div 2 \in 1 .. Len(path)
    BY <1>1
  <2> QED
    BY <1>1, <2>1
<1>3. "/" \in Characters
  BY DEF Characters
<1>4. count \in Nat
  BY <1>1
<1>5. [i \in 1 .. count |-> IF i % 2 = 0 THEN "/" ELSE path[(i + 3) \div 2]] \in Seq(Characters)
  <2> HIDE DEF count
  <2> QED
    BY <1>2, <1>3, <1>4
<1> QED
  BY <1>5 DEF ElementName, Strings

LEMMA NamesAreCharacters ==
  ASSUME NEW path \in Strings
  PROVE  NamesBelow(path) \subseteq Characters
<1>1. ErrorNames \in Seq(Range(ErrorNames)) /\ ErrorNames # <<>>
  BY DocumentsAssumption
<1>2. Len(path) \in Nat /\ Len(ErrorNames) \in Nat /\ Len(ErrorNames) > 0
  <2>1. Len(path) \in Nat
    BY DEF Strings
  <2> DEFINE S == Range(ErrorNames)
  <2> HIDE DEF S
  <2>2. ErrorNames \in Seq(S)
    BY <1>1 DEF S
  <2> QED
    BY <1>1, <2>1, <2>2
<1>3. Shorter(Len(path) + 1, Len(ErrorNames)) \in 1 .. Len(ErrorNames)
  BY <1>2 DEF Shorter
<1>4. NamesBelow(path) \in Range(ErrorNames)
  <2> DEFINE S == Range(ErrorNames)
  <2> HIDE DEF S
  <2>1. ErrorNames \in Seq(S)
    BY <1>1 DEF S
  <2>2. NamesBelow(path) \in S
    BY <1>3, <2>1 DEF NamesBelow
  <2> QED
    BY <2>2 DEF S
<1> QED
  BY <1>4, Zenon DEF Characters

LEMMA LettersAreStrings ==
  ASSUME NEW n \in Nat, NEW length \in PieceLengths
  PROVE  /\ [i \in 1 .. length |-> Letter(n)] \in Strings
         /\ Len([i \in 1 .. length |-> Letter(n)]) > 0
<1>1. length \in Nat /\ length > 0
  BY DocumentsAssumption
<1>2. Letter(n) \in {"a", "b", "c", "d", "e", "f"}
  <2> DEFINE k == 1 + (n % 6)
  <2>1. n % 6 \in 0 .. 5
    OBVIOUS
  <2>2. k \in 1 .. 6
    BY <2>1
  <2>3. \A j \in 1 .. 6 :
          <<"a", "b", "c", "d", "e", "f">>[j] \in {"a", "b", "c", "d", "e", "f"}
    OBVIOUS
  <2>4. Letter(n) = <<"a", "b", "c", "d", "e", "f">>[k]
    BY DEF Letter
  <2> HIDE DEF k
  <2> QED
    BY <2>2, <2>3, <2>4
<1>3. Letter(n) \in Characters
  BY <1>2, Zenon DEF Characters
<1> DEFINE letter == Letter(n)
<1> HIDE DEF letter
<1>4. [i \in 1 .. length |-> letter] \in Seq(Characters) /\ Len([i \in 1 .. length |-> letter]) = length
  BY <1>1, <1>3 DEF letter
<1> QED
  BY <1>1, <1>4 DEF letter, Strings

LEMMA NoDetails == InPlace(error_parser_initialize, <<>>)
<1> DEFINE ep == error_parser_initialize
           smb == Multibuffer(DetailsBufferSize)
<1>1. /\ ep.namesValues = smb /\ ep.extraDetails = <<>>
      /\ ep = [known |-> ep.known, extraDetails |-> ep.extraDetails,
               namesValues |-> ep.namesValues]
  BY DEF error_parser_initialize
<1>2. DetailsBufferSize \in Nat
  BY ErrorParserAssumption
<1>3. Buffer(smb, DetailsBufferSize) /\ smb.size = 0
  BY <1>2, EmptyBuffer
<1>4. Room(<<>>) = 0 /\ Len(<<>>) = 0 /\ <<>> \in Seq([name : Nat, value : Nat])
  <2>1. <<>> \in Seq(Details) /\ Len(<<>>) = 0 /\ <<>> \in Seq([name : Nat, value : Nat])
    OBVIOUS
  <2>2. Room(<<>>) = 0
    BY <2>1, RoomFacts
  <2> QED
    BY <2>1, <2>2
<1> HIDE DEF ep, smb
<1>5. Placed(ep, <<>>)
  BY <1>1, <1>3, <1>4 DEF Placed
<1>6. InPlace(ep, <<>>)
  BY <1>1, <1>2, <1>3, <1>4, <1>5 DEF InPlace
<1> QED
  BY <1>6 DEF ep

LEMMA ErrorInvInit == Init => ErrorInv
<1> SUFFICES ASSUME Init, subject = "error" PROVE ErrorInv
  BY DEF ErrorInv
<1>1. elementPath = <<>> /\ position = 0 /\ runs = <<>> /\ errorParser = error_parser_initialize
  BY DEF Init
<1>2. elementPath \in Strings /\ runs \in Seq(Details)
  BY <1>1 DEF Strings
<1> QED
  BY <1>1, <1>2, NoDetails DEF ErrorInv

\* A piece of text of an error document.
LEMMA ErrorInvText ==
  ASSUME ErrorInv, subject = "error", position < MaxPieces, position' = position + 1,
         NEW n \in PieceLengths, NEW str, str = [i \in 1 .. n |-> Letter(position + 1)],
         saxCharacters(str),
         runs' = IF IsDetail(elementPath) THEN Recorded(ElementName(elementPath), str) ELSE runs
  PROVE  ErrorInv'
<1>1. /\ elementPath \in Strings /\ position \in Nat /\ runs \in Seq(Details)
      /\ Len(runs) <= EXTRA_DETAILS_SIZE => InPlace(errorParser, runs)
  BY DEF ErrorInv
<1>2. /\ elementPath' = elementPath /\ subject' = subject
      /\ errorParser' = errorXmlCallback(errorParser, elementPath, str)
  BY DEF saxCharacters, given
<1>3. position' \in Nat /\ position + 1 \in Nat
  BY <1>1
<1>4. str \in Strings /\ Len(str) > 0
  BY <1>3, LettersAreStrings
<1>5. CASE ~IsDetail(elementPath)
  <2>1. runs' = runs
    BY <1>5
  <2>2. ASSUME InPlace(errorParser, runs) PROVE InPlace(errorParser', runs)
    <3>1. \/ errorParser' = errorParser
          \/ \E k : errorParser' = [errorParser EXCEPT !.known = k]
      <4>1. CASE Len(elementPath) = 2 /\ elementPath[1] = "Error" /\ elementPath[2] \in Known
        BY <1>2, <4>1 DEF errorXmlCallback
      <4>2. CASE ~(Len(elementPath) = 2 /\ elementPath[1] = "Error" /\ elementPath[2] \in Known)
        BY <1>2, <1>5, <4>2 DEF errorXmlCallback
      <4> QED
        BY <4>1, <4>2
    <3>2. ASSUME NEW k, errorParser' = [errorParser EXCEPT !.known = k]
          PROVE  InPlace(errorParser', runs)
      <4> DEFINE ep   == errorParser
                 next == errorParser'
      <4>1. ep = [known |-> ep.known, extraDetails |-> ep.extraDetails,
                  namesValues |-> ep.namesValues]
        BY <2>2 DEF InPlace, Placed
      <4>2. next = [known |-> k, extraDetails |-> ep.extraDetails, namesValues |-> ep.namesValues]
        BY <3>2, <4>1
      <4>3. /\ next.extraDetails = ep.extraDetails /\ next.namesValues = ep.namesValues
            /\ next = [known |-> next.known, extraDetails |-> next.extraDetails,
                       namesValues |-> next.namesValues]
        BY <4>2
      <4> HIDE DEF next
      <4>4. Placed(next, runs)
        BY <2>2, <4>3 DEF InPlace, Placed
      <4>5. InPlace(next, runs)
        BY <2>2, <4>3, <4>4 DEF InPlace
      <4> QED
        BY <4>5 DEF next
    <3> QED
      BY <2>2, <3>1, <3>2
  <2> QED
    BY <1>1, <1>2, <1>3, <2>1, <2>2 DEF ErrorInv
<1>6. CASE IsDetail(elementPath)
  <2> DEFINE name == ElementName(elementPath)
  <2>1. name \in Strings
    BY <1>1, <1>6, NamesAreStrings
  <2>2. runs' = WithPiece(runs, name, str)
    BY <1>6 DEF Recorded, WithPiece, Extended
  <2> HIDE DEF name
  <2>3. Grown(runs, runs')
    BY <1>1, <1>4, <2>1, <2>2, PieceGrows
  <2>4. runs' \in Seq(Details) /\ Len(runs) <= Len(runs')
    BY <2>3 DEF Grown
  <2>5. ASSUME Len(runs') <= EXTRA_DETAILS_SIZE PROVE InPlace(errorParser', runs')
    <3>1. Len(runs) <= EXTRA_DETAILS_SIZE
      <4>1. Len(runs) \in Nat /\ Len(runs') \in Nat /\ EXTRA_DETAILS_SIZE \in Nat
        BY <1>1, <2>4, ErrorParserAssumption
      <4> QED
        BY <2>4, <2>5, <4>1
    <3>2. InPlace(errorParser, runs)
      BY <1>1, <3>1
    <3>3. InPlace(errorXmlCallback(errorParser, elementPath, str), runs')
      BY <1>1, <1>4, <1>6, <2>1, <2>2, <2>5, <3>2, PieceIsKept DEF name
    <3> QED
      BY <1>2, <3>3
  <2> QED
    BY <1>1, <1>2, <1>3, <2>4, <2>5 DEF ErrorInv
<1> QED
  BY <1>5, <1>6

LEMMA ErrorInvNext == ErrorInv /\ [Next]_vars => ErrorInv'
<1> SUFFICES ASSUME ErrorInv, [Next]_vars PROVE ErrorInv'
  OBVIOUS
<1>1. ASSUME subject' = subject, elementPath' = elementPath, position' = position,
             runs' = runs, errorParser' = errorParser
      PROVE  ErrorInv'
  BY <1>1 DEF ErrorInv
<1>2. CASE SetTooMany
  BY <1>1, <1>2 DEF SetTooMany, given
<1>3. CASE Set
  BY <1>1, <1>3 DEF Set, given
<1>4. CASE Get
  BY <1>1, <1>4 DEF Get, given
<1>5. CASE ParseDocument
  <2>1. subject # "error" /\ subject' = subject
    BY <1>5 DEF ParseDocument, saxStartElement, saxEndElement, saxCharacters, given
  <2> QED
    BY <2>1 DEF ErrorInv
<1>6. CASE ParseError
  <2>1. /\ subject = "error" /\ elementPath \in Strings /\ position \in Nat
        /\ runs \in Seq(Details)
        /\ Len(runs) <= EXTRA_DETAILS_SIZE => InPlace(errorParser, runs)
    BY <1>6 DEF ErrorInv, ParseError
  <2>2. ASSUME subject' = subject, elementPath' \in Strings, position' = position,
               runs' = runs, errorParser' = errorParser
        PROVE  ErrorInv'
    BY <2>1, <2>2 DEF ErrorInv
  <2>3. ASSUME NEW name \in NamesBelow(elementPath), saxStartElement(name),
               position' = position, runs' = runs
        PROVE  ErrorInv'
    <3>1. name \in Characters
      BY <2>1, <2>3, NamesAreCharacters
    <3>2. elementPath' \in Strings
      BY <2>1, <2>3, <3>1 DEF saxStartElement, Strings
    <3>3. subject' = subject /\ errorParser' = errorParser
      BY <2>3 DEF saxStartElement, given
    <3> QED
      BY <2>2, <2>3, <3>2, <3>3
  <2>4. ASSUME saxEndElement, position' = position, runs' = runs PROVE ErrorInv'
    <3>1. elementPath' = Front(elementPath) /\ elementPath # <<>>
          /\ subject' = subject /\ errorParser' = errorParser
      BY <2>4 DEF saxEndElement, given
    <3>2. Front(elementPath) \in Strings
      <4>1. elementPath \in Seq(Characters) /\ Len(elementPath) > 0
        BY <2>1, <3>1 DEF Strings
      <4> QED
        BY <4>1, FrontFacts DEF Strings
    <3> QED
      BY <2>2, <2>4, <3>1, <3>2
  <2>5. ASSUME position < MaxPieces, position' = position + 1,
               NEW n \in PieceLengths, saxCharacters([i \in 1 .. n |-> Letter(position + 1)]),
               runs' = IF IsDetail(elementPath)
                       THEN Recorded(ElementName(elementPath),
                                     [i \in 1 .. n |-> Letter(position + 1)])
                       ELSE runs
        PROVE  ErrorInv'
    BY <2>1, <2>5, ErrorInvText
  <2> QED
    BY <1>6, <2>3, <2>4, <2>5 DEF ParseError
<1>7. CASE DataEnds
  BY <1>1, <1>7 DEF DataEnds, given
<1>8. CASE Finished \/ UNCHANGED vars
  BY <1>1, <1>8 DEF Finished, vars
<1> QED
  BY <1>2, <1>3, <1>4, <1>5, <1>6, <1>7, <1>8 DEF Next

\* The details that are in place are read back, each with its own value.
LEMMA DetailsAreRead ==
  ASSUME NEW ep, NEW details \in Seq(Details), InPlace(ep, details)
  PROVE  /\ IsPrefix(ExtraDetails(ep), details)
         /\ Room(details) <= DetailsBufferSize => ExtraDetails(ep) = details
<1> DEFINE smb    == ep.namesValues
           places == ep.extraDetails
           count  == Len(places)
           read   == ExtraDetails(ep)
<1>1. /\ Buffer(smb, DetailsBufferSize)
      /\ places \in Seq([name : Nat, value : Nat])
      /\ count <= Len(details) /\ Len(details) \in Nat
      /\ \A i \in 1 .. count :
           /\ Holds(smb, places[i].name, details[i].name, smb.size - 1)
           /\ i < count => Holds(smb, places[i].value, details[i].value, smb.size - 1)
      /\ count > 0 => Holds(smb, places[count].value, details[count].value, smb.size)
  BY DEF InPlace, Placed
<1>2. count \in Nat /\ DOMAIN places = 1 .. count
  <2> HIDE DEF places
  <2> QED
    BY <1>1
<1>3. read = [i \in 1 .. count |-> [name |-> StringAt(smb, places[i].name),
                                   value |-> StringAt(smb, places[i].value)]]
  BY <1>2 DEF ExtraDetails
<1> HIDE DEF smb, places, read
<1>4. ASSUME NEW at, NEW text, NEW limit \in {smb.size - 1, smb.size},
             Holds(smb, at, text, limit)
      PROVE  StringAt(smb, at) = text
  <2>1. /\ smb.size \in Nat /\ smb.size <= DetailsBufferSize /\ DetailsBufferSize \in Nat
    BY <1>1 DEF Buffer
  <2>2. /\ limit \in Int /\ DetailsBufferSize \in Int
        /\ limit <= DetailsBufferSize /\ limit <= limit
    BY <2>1
  <2>3. Unchanged(smb, smb, limit)
    BY DEF Unchanged
  <2>4. Holds(smb, at, text, DetailsBufferSize)
    BY <1>4, <2>2, <2>3, StaysThere
  <2> QED
    BY <1>1, <2>4, StringIsRead
<1>5. ASSUME NEW i \in 1 .. count PROVE read[i] = details[i]
  <2>1. StringAt(smb, places[i].name) = details[i].name
    BY <1>1, <1>4
  <2>2. StringAt(smb, places[i].value) = details[i].value
    <3>1. count > 0 /\ (i < count \/ i = count)
      <4>1. count \in Nat /\ i \in 1 .. count
        BY <1>2
      <4> HIDE DEF count
      <4> QED
        BY <4>1
    <3> QED
      BY <1>1, <1>4, <3>1
  <2>3. details[i] \in Details
    <3>1. i \in 1 .. Len(details)
      BY <1>1, <1>2
    <3> QED
      BY <3>1
  <2>4. details[i] = [name |-> details[i].name, value |-> details[i].value]
    BY <2>3 DEF Details
  <2> QED
    BY <1>3, <2>1, <2>2, <2>4
<1>6. read \in Seq(Details) /\ Len(read) = count
  <2>1. read = [i \in 1 .. count |-> details[i]]
    BY <1>3, <1>5
  <2>2. \A i \in 1 .. count : details[i] \in Details
    BY <1>1, <1>2
  <2> HIDE DEF count
  <2> QED
    BY <1>2, <2>1, <2>2
<1>7. IsPrefix(read, details)
  <2> DEFINE first == SubSeq(details, 1, count)
             all   == SubSeq(read, 1, count)
  <2>1. /\ first \in Seq(Details) /\ Len(first) = count
        /\ \A i \in 1 .. count : first[i] = details[i]
    <3> HIDE DEF count
    <3> QED
      BY <1>1, <1>2
  <2>2. all = read
    <3> HIDE DEF count
    <3> QED
      BY <1>6
  <2>3. read = first
    <3> HIDE DEF count, first
    <3>1. \A i \in 1 .. Len(read) : read[i] = first[i]
      BY <1>5, <1>6, <2>1
    <3>2. Len(read) = Len(first)
      BY <1>6, <2>1
    <3> QED
      BY <1>6, <2>1, <3>1, <3>2, SeqEqual
  <2> QED
    BY <1>1, <1>6, <2>2, <2>3 DEF IsPrefix
<1>8. ASSUME Room(details) <= DetailsBufferSize PROVE read = details
  <2>1. count = Len(details)
    BY <1>8 DEF InPlace, places
  <2> QED
    BY <1>5, <1>6, <2>1, SeqEqual
<1> QED
  BY <1>7, <1>8 DEF read

\* The details of an error are where the parser says they are, each string in
\* a place of its own in the buffer.
THEOREM DetailsInPlace == Spec => []ErrorInv
<1>1. Init => ErrorInv
  BY ErrorInvInit
<1>2. ErrorInv /\ [Next]_vars => ErrorInv'
  BY ErrorInvNext
<1> QED
  BY <1>1, <1>2, PTL DEF Spec

\* The extra details of an error are the elements libs3 does not know, in
\* order, each with its own text and all of it, as far as the buffer reaches:
\* for buffers, arrays, pieces and names of any size (error_parser.c).
THEOREM DetailsKeptApart == Spec => []DetailsNotMixed
<1>1. ErrorInv => DetailsNotMixed
  BY DetailsAreRead DEF ErrorInv, DetailsNotMixed
<1> QED
  BY <1>1, DetailsInPlace, PTL

-----------------------------------------------------------------------------
(* The headers of a response                                               *)

\* The values of the properties are strings.
Textual(header) == header.name \in StringProperties => IsString(header.value)

\* Headers in the order in which they came.
Listed(headers) ==
  /\ headers = [i \in 1 .. Len(headers) |-> headers[i]] /\ Len(headers) \in Nat
  /\ \A i \in 1 .. Len(headers) : Textual(headers[i])

\* What a header, and the first of several, take of the strings.
Width(header) == IF header.name \in StringProperties THEN Len(header.value) + 1 ELSE 0

Taken(headers, count) == Total([i \in 1 .. count |-> Width(headers[i])])

\* The headers behind the one that left one place were ignored.
LeftOne(headers) == \E i \in 1 .. Len(headers) : Taken(headers, i) = PropertyStringsSize - 1

LinesIn(headers, name) == {i \in 1 .. Len(headers) : headers[i].name = name}

\* A property is in its place: as a whole, or, when the strings are full, cut
\* short or with its start behind them.  It is the last one with its name,
\* unless headers were ignored.
HasPlace(headers, strings, at, name) ==
  LET full == Taken(headers, Len(headers)) > PropertyStringsSize
  IN  \E i \in LinesIn(headers, name) :
        /\ ~LeftOne(headers) => \A j \in LinesIn(headers, name) : j <= i
        /\ \/ Holds(strings, at, headers[i].value, strings.size)
           \/ full /\ at = PropertyStringsSize
           \/ full /\ Holds(strings, at, Begin(headers[i].value, PropertyStringsSize - at),
                            strings.size)

\* How much of the strings is taken.
StringsTaken(headers, size) ==
  /\ size = PropertyStringsSize - 1 <=> LeftOne(headers)
  /\ ~LeftOne(headers) => size = Shorter(Taken(headers, Len(headers)), PropertyStringsSize)

HeadersInv ==
  /\ phase # "done" => ~handler.done
  /\ {"properties", "propertyStrings", "done"} \subseteq DOMAIN handler
  /\ Buffer(handler.propertyStrings, PropertyStringsSize)
  /\ Listed(answered)
  /\ \A h \in stored : h.name \in MetaNames
  /\ \A h \in coming : Textual(h)
  /\ StringsTaken(answered, handler.propertyStrings.size)
  /\ DOMAIN handler.properties \subseteq StringProperties
  /\ \A name \in DOMAIN handler.properties :
       HasPlace(answered, handler.propertyStrings, handler.properties[name], name)
  /\ ~LeftOne(answered) =>
       \A name \in StringProperties :
         LinesIn(answered, name) # {} => name \in DOMAIN handler.properties

LEMMA HeaderAppended ==
  ASSUME NEW headers, Listed(headers), NEW header, Textual(header)
  PROVE  LET more == Append(headers, header)
         IN  /\ Listed(more) /\ Len(more) = Len(headers) + 1
             /\ \A i \in 1 .. Len(headers) : more[i] = headers[i]
             /\ more[Len(headers) + 1] = header
<1> DEFINE S    == {headers[i] : i \in 1 .. Len(headers)} \cup {header}
           more == Append(headers, header)
<1>1. /\ headers = [i \in 1 .. Len(headers) |-> headers[i]] /\ Len(headers) \in Nat
      /\ \A i \in 1 .. Len(headers) : Textual(headers[i]) /\ headers[i] \in S
      /\ header \in S
  BY DEF Listed
<1> HIDE DEF S
<1>2. headers \in Seq(S)
  BY <1>1
<1>3. /\ more \in Seq(S) /\ Len(more) = Len(headers) + 1
      /\ \A i \in 1 .. Len(headers) : more[i] = headers[i]
      /\ more[Len(headers) + 1] = header
  BY <1>1, <1>2, AppendProperties
<1> HIDE DEF more
<1>4. more = [i \in 1 .. Len(more) |-> more[i]] /\ Len(more) \in Nat
  BY <1>3
<1>5. ASSUME NEW i \in 1 .. Len(more) PROVE Textual(more[i])
  <2>1. i \in 1 .. Len(headers) \/ i = Len(headers) + 1
    BY <1>1, <1>3
  <2> QED
    BY <1>1, <1>3, <2>1
<1> QED
  BY <1>3, <1>4, <1>5 DEF Listed, more

LEMMA TakenFacts ==
  ASSUME NEW headers, Listed(headers)
  PROVE  /\ \A count \in 0 .. Len(headers) : Taken(headers, count) \in Nat
         /\ Taken(headers, 0) = 0
         /\ \A header : Textual(header) =>
              /\ Width(header) \in Nat
              /\ \A count \in 0 .. Len(headers) :
                   Taken(Append(headers, header), count) = Taken(headers, count)
              /\ Taken(Append(headers, header), Len(headers) + 1)
                   = Taken(headers, Len(headers)) + Width(header)
<1> DEFINE widths(hs, count) == [i \in 1 .. count |-> Width(hs[i])]
<1>1. ASSUME NEW header, Textual(header) PROVE Width(header) \in Nat
  <2>1. CASE header.name \in StringProperties
    <3>1. Len(header.value) \in Nat
      BY <1>1, <2>1, StringFacts DEF Textual
    <3> QED
      BY <3>1 DEF Width
  <2> QED
    BY <2>1 DEF Width
<1>2. Len(headers) \in Nat
  BY DEF Listed
<1>3. ASSUME NEW count \in 0 .. Len(headers) PROVE widths(headers, count) \in Seq(Nat)
  <2>1. \A i \in 1 .. count : Width(headers[i]) \in Nat
    BY <1>1, <1>2 DEF Listed
  <2> QED
    BY <1>2, <2>1
<1>4. ASSUME NEW count \in 0 .. Len(headers) PROVE Taken(headers, count) \in Nat
  <2> HIDE DEF widths
  <2>1. Total(widths(headers, count)) \in Nat
    BY <1>3, TotalFacts
  <2> QED
    BY <2>1 DEF Taken, widths
<1>5. Taken(headers, 0) = 0
  <2>1. widths(headers, 0) = <<>>
    OBVIOUS
  <2> QED
    BY <2>1, TotalFacts DEF Taken
<1>6. ASSUME NEW header, Textual(header)
      PROVE  /\ \A count \in 0 .. Len(headers) :
                   Taken(Append(headers, header), count) = Taken(headers, count)
             /\ Taken(Append(headers, header), Len(headers) + 1)
                   = Taken(headers, Len(headers)) + Width(header)
  <2> DEFINE more == Append(headers, header)
             n    == Len(headers)
  <2>1. /\ Len(more) = n + 1
        /\ \A i \in 1 .. n : more[i] = headers[i]
        /\ more[n + 1] = header
    BY <1>6, HeaderAppended
  <2> HIDE DEF more, n
  <2>2. n \in Nat
    BY <1>2 DEF n
  <2>3. ASSUME NEW count \in 0 .. n PROVE widths(more, count) = widths(headers, count)
    <3>1. \A i \in 1 .. count : more[i] = headers[i]
      BY <2>1, <2>2
    <3> QED
      BY <3>1
  <2>4. widths(more, n + 1) = Append(widths(headers, n), Width(header))
    <3>1. Width(header) \in Nat /\ widths(headers, n) \in Seq(Nat) /\ Len(widths(headers, n)) = n
      <4>1. n \in 0 .. n
        BY <2>2
      <4> QED
        BY <1>1, <1>3, <1>6, <2>2, <4>1 DEF n
    <3> DEFINE left  == widths(more, n + 1)
               first == widths(headers, n)
               right == Append(first, Width(header))
    <3>2. /\ left = [i \in 1 .. n + 1 |-> Width(more[i])]
          /\ \A i \in 1 .. n : first[i] = Width(headers[i])
      BY <2>2
    <3> HIDE DEF widths, first
    <3>3. /\ right \in Seq(Nat) /\ Len(right) = n + 1
          /\ \A i \in 1 .. n : right[i] = first[i]
          /\ right[n + 1] = Width(header)
      BY <3>1, AppendProperties DEF first
    <3> HIDE DEF left, right
    <3>4. ASSUME NEW i \in 1 .. n + 1 PROVE Width(more[i]) = right[i]
      <4>1. i \in 1 .. n \/ i = n + 1
        BY <2>2
      <4> QED
        BY <2>1, <3>2, <3>3, <4>1
    <3>5. right = [i \in 1 .. n + 1 |-> right[i]]
      BY <2>2, <3>3
    <3>6. left = right
      BY <3>2, <3>4, <3>5
    <3> QED
      BY <3>6 DEF left, right, first
  <2>5. Total(Append(widths(headers, n), Width(header))) = Total(widths(headers, n)) + Width(header)
    <3>1. n \in 0 .. n
      BY <2>2
    <3>2. widths(headers, n) \in Seq(Nat) /\ Width(header) \in Nat
      BY <1>1, <1>3, <1>6, <3>1 DEF n
    <3> HIDE DEF widths
    <3> QED
      BY <3>2, TotalFacts
  <2> QED
    BY <2>3, <2>4, <2>5 DEF Taken, more, n
<1> QED
  BY <1>1, <1>4, <1>5, <1>6

\* How much is taken when another header came.
LEMMA StringsTakenMore ==
  ASSUME PropertyStringsSize \in Nat \ {0, 1},
         NEW headers, Listed(headers), NEW header, Textual(header),
         NEW size \in Nat, StringsTaken(headers, size),
         NEW newSize,
         newSize = IF size = PropertyStringsSize - 1 THEN size
                   ELSE Shorter(size + Width(header), PropertyStringsSize)
  PROVE  StringsTaken(Append(headers, header), newSize)
<1> DEFINE more == Append(headers, header)
           n    == Len(headers)
           all  == Taken(headers, n)
           P    == PropertyStringsSize
           w    == Width(header)
<1>1. /\ n \in Nat /\ all \in Nat /\ w \in Nat /\ Len(more) = n + 1
      /\ \A i \in 1 .. n : Taken(more, i) = Taken(headers, i)
      /\ Taken(more, n + 1) = all + w
  <2>1. Len(more) = n + 1 /\ n \in Nat
    BY HeaderAppended DEF Listed
  <2>2. n \in 0 .. n /\ \A i \in 1 .. n : i \in 0 .. n
    BY <2>1
  <2> QED
    BY <2>1, <2>2, TakenFacts
<1>2. P \in Nat /\ P > 1
  OBVIOUS
<1> HIDE DEF more, n, all, P, w
<1>3. size = P - 1 <=> LeftOne(headers)
  BY DEF StringsTaken, P
<1>4. LeftOne(more) <=> LeftOne(headers) \/ all + w = P - 1
  <2>1. LeftOne(headers) <=> \E i \in 1 .. n : Taken(headers, i) = P - 1
    BY DEF LeftOne, n, P
  <2>2. LeftOne(more) <=> \E i \in 1 .. n + 1 : Taken(more, i) = P - 1
    BY <1>1 DEF LeftOne, P
  <2>3. \A i : i \in 1 .. n + 1 <=> i \in 1 .. n \/ i = n + 1
    BY <1>1
  <2> QED
    BY <1>1, <2>1, <2>2, <2>3
<1>5. CASE LeftOne(headers)
  <2>1. newSize = size /\ size = P - 1
    BY <1>3, <1>5 DEF P
  <2> QED
    BY <1>4, <1>5, <2>1 DEF StringsTaken, more, P
<1>6. CASE ~LeftOne(headers)
  <2>1. size = Shorter(all, P) /\ newSize = Shorter(size + w, P)
    BY <1>3, <1>6 DEF StringsTaken, P, all, n, w
  <2>2. newSize = Shorter(all + w, P)
    BY <1>1, <1>2, <2>1 DEF Shorter
  <2>3. newSize = P - 1 <=> all + w = P - 1
    BY <1>1, <1>2, <2>2 DEF Shorter
  <2> QED
    BY <1>1, <1>4, <1>6, <2>2, <2>3 DEF StringsTaken, more, P
<1> QED
  BY <1>5, <1>6

\* A property keeps its place while other strings are added, unless another
\* header has its name.
LEMMA PlaceIsKept ==
  ASSUME PropertyStringsSize \in Nat,
         NEW headers, Listed(headers), NEW header, Textual(header),
         NEW strings, Buffer(strings, PropertyStringsSize), NEW at, NEW name,
         HasPlace(headers, strings, at, name),
         header.name # name \/ LeftOne(headers),
         NEW new, Buffer(new, PropertyStringsSize), strings.size <= new.size,
         Unchanged(strings, new, strings.size)
  PROVE  HasPlace(Append(headers, header), new, at, name)
<1> DEFINE more == Append(headers, header)
           n    == Len(headers)
           all  == Taken(headers, n)
           P    == PropertyStringsSize
           full == all > P
           fullNow == Taken(more, Len(more)) > P
<1>1. /\ n \in Nat /\ Len(more) = n + 1 /\ more[n + 1] = header
      /\ \A i \in 1 .. n : more[i] = headers[i] /\ Taken(more, i) = Taken(headers, i)
  <2>1. n \in Nat /\ Len(more) = n + 1 /\ more[n + 1] = header
        /\ \A i \in 1 .. n : more[i] = headers[i]
    BY HeaderAppended DEF Listed
  <2>2. \A i \in 1 .. n : i \in 0 .. n
    BY <2>1
  <2> QED
    BY <2>1, <2>2, TakenFacts
<1>2. full => fullNow
  <2>1. /\ all \in Nat /\ Width(header) \in Nat
        /\ Taken(more, n + 1) = all + Width(header)
    <3>1. n \in 0 .. n
      BY <1>1
    <3> QED
      BY <3>1, TakenFacts
  <2> DEFINE w == Width(header)
  <2> HIDE DEF all, w
  <2>2. Taken(more, Len(more)) = all + w /\ w \in Nat
    BY <1>1, <2>1 DEF w
  <2> HIDE DEF more
  <2> QED
    BY <2>1, <2>2
<1>3. LeftOne(headers) => LeftOne(more)
  <2>1. \A i \in 1 .. n : i \in 1 .. n + 1
    BY <1>1
  <2> QED
    BY <1>1, <2>1 DEF LeftOne
<1>4. PICK i \in LinesIn(headers, name) :
        /\ ~LeftOne(headers) => \A j \in LinesIn(headers, name) : j <= i
        /\ \/ Holds(strings, at, headers[i].value, strings.size)
           \/ full /\ at = P
           \/ full /\ Holds(strings, at, Begin(headers[i].value, P - at), strings.size)
  BY DEF HasPlace
<1> HIDE DEF more, n, full, fullNow, P
<1>5. i \in 1 .. n /\ headers[i].name = name /\ more[i] = headers[i]
  BY <1>1, <1>4 DEF LinesIn, n
<1>6. i \in LinesIn(more, name)
  <2>1. i \in 1 .. Len(more)
    BY <1>1, <1>5
  <2> QED
    BY <1>5, <2>1 DEF LinesIn
<1>7. ASSUME ~LeftOne(more), NEW j \in LinesIn(more, name) PROVE j <= i
  <2>1. j \in 1 .. n + 1 /\ more[j].name = name
    BY <1>1, <1>7 DEF LinesIn
  <2>2. header.name # name
    BY <1>3, <1>7
  <2>3. j \in 1 .. n
    BY <1>1, <2>1, <2>2
  <2>4. j \in LinesIn(headers, name)
    BY <1>1, <2>1, <2>3 DEF LinesIn, n
  <2> QED
    BY <1>3, <1>4, <1>7, <2>4
<1>8. ASSUME NEW text, Holds(strings, at, text, strings.size)
      PROVE  Holds(new, at, text, new.size)
  <2>1. strings.size \in Int /\ new.size \in Int /\ strings.size <= strings.size
    BY DEF Buffer
  <2> QED
    BY <1>8, <2>1, StaysThere
<1>9. \/ Holds(new, at, more[i].value, new.size)
      \/ fullNow /\ at = P
      \/ fullNow /\ Holds(new, at, Begin(more[i].value, P - at), new.size)
  BY <1>2, <1>4, <1>5, <1>8
<1>10. HasPlace(more, new, at, name)
  BY <1>6, <1>7, <1>9 DEF HasPlace, fullNow, P
<1> QED
  BY <1>10 DEF more

\* A property that is added has a place.
LEMMA PlaceIsTaken ==
  ASSUME PropertyStringsSize \in Nat,
         NEW headers, Listed(headers), NEW header, Textual(header),
         header.name \in StringProperties,
         NEW strings, Buffer(strings, PropertyStringsSize),
         StringsTaken(headers, strings.size), ~LeftOne(headers)
  PROVE  HasPlace(Append(headers, header), string_multibuffer_add(strings, header.value),
                  strings.size, header.name)
<1> DEFINE more == Append(headers, header)
           n    == Len(headers)
           all  == Taken(headers, n)
           P    == PropertyStringsSize
           new  == string_multibuffer_add(strings, header.value)
           at   == strings.size
           fullNow == Taken(more, Len(more)) > P
           l    == Len(header.value)
<1>1. n \in Nat /\ Len(more) = n + 1 /\ more[n + 1] = header
  BY HeaderAppended DEF Listed
<1>2. /\ IsString(header.value) /\ l \in Nat
  BY StringFacts DEF Textual
<1>3. all \in Nat /\ Taken(more, Len(more)) = all + (l + 1)
  <2>1. n \in 0 .. n
    BY <1>1
  <2>2. Width(header) = l + 1
    BY DEF Width
  <2> QED
    BY <1>1, <2>1, <2>2, TakenFacts
<1>4. at \in Nat /\ at <= P /\ P \in Nat /\ at = Shorter(all, P)
  BY DEF StringsTaken, Buffer
<1> HIDE DEF l
<1>5. /\ AllFit(strings, header.value) <=> at + l + 1 <= P
      /\ AllFit(strings, header.value) => Holds(new, at, header.value, new.size)
      /\ at < P => Holds(new, at, Begin(header.value, P - at), new.size)
  BY <1>2, StringIsAdded DEF l
<1> HIDE DEF more, n, all, P, new, at
<1>6. \/ Holds(new, at, header.value, new.size)
      \/ fullNow /\ at = P
      \/ fullNow /\ Holds(new, at, Begin(header.value, P - at), new.size)
  <2>1. CASE at + l + 1 <= P
    BY <1>5, <2>1
  <2>2. CASE ~(at + l + 1 <= P)
    <3>1. fullNow /\ (at = P \/ at < P)
      BY <1>2, <1>3, <1>4, <2>2 DEF Shorter
    <3> QED
      BY <1>5, <3>1
  <2> QED
    BY <2>1, <2>2
<1>7. n + 1 \in LinesIn(more, header.name)
  BY <1>1 DEF LinesIn
<1>8. ASSUME NEW j \in LinesIn(more, header.name) PROVE j <= n + 1
  BY <1>1 DEF LinesIn
<1>9. HasPlace(more, new, at, header.name)
  BY <1>1, <1>6, <1>7, <1>8 DEF HasPlace, P
<1> QED
  BY <1>9 DEF more, new, at

LEMMA HeadersInvInit ==
  ASSUME HeadersInit
  PROVE  HeadersInv
<1>1. /\ handler = response_headers_handler_initialize
      /\ answered = <<>> /\ coming = {}
      /\ stored = {} \/ stored \in ForeignMetaData
  BY DEF HeadersInit
<1>2. PropertyStringsSize \in Nat /\ PropertyStringsSize > 1
  BY ResponseHeadersAssumption
<1> DEFINE strings == Multibuffer(PropertyStringsSize)
<1>3. /\ handler.propertyStrings = strings /\ handler.done = FALSE
      /\ {"properties", "propertyStrings", "done"} \subseteq DOMAIN handler
      /\ DOMAIN handler.properties = {}
  BY <1>1 DEF response_headers_handler_initialize
<1> HIDE DEF strings
<1>4. Buffer(strings, PropertyStringsSize) /\ strings.size = 0
  BY <1>2, EmptyBuffer DEF strings
<1>5. Listed(answered) /\ Len(answered) = 0
  BY <1>1 DEF Listed
<1>6. \A h \in stored : h.name \in MetaNames
  BY <1>1, HeadersAssumption
<1>7. ~LeftOne(answered)
  BY <1>5 DEF LeftOne
<1>8. StringsTaken(answered, 0)
  <2>1. Taken(answered, Len(answered)) = 0
    BY <1>5, TakenFacts
  <2> QED
    BY <1>2, <1>7, <2>1 DEF StringsTaken, Shorter
<1>9. \A name : LinesIn(answered, name) = {}
  BY <1>5 DEF LinesIn
<1> QED
  BY <1>1, <1>3, <1>4, <1>5, <1>6, <1>8, <1>9 DEF HeadersInv

\* The names of S3's headers are different.
LEMMA NamesDiffer == \A name \in MetaNames : name \notin StringProperties
  BY DEF MetaNames, StringProperties

\* A header keeps what is not of its property.
LEMMA OtherHeader ==
  ASSUME {"properties", "propertyStrings", "done"} \subseteq DOMAIN handler,
         NEW header, header.name \notin StringProperties
  PROVE  LET next == response_headers_handler_add(handler, header)
         IN  /\ next.properties = handler.properties
             /\ next.propertyStrings = handler.propertyStrings
             /\ next.done = handler.done
             /\ {"properties", "propertyStrings", "done"} \subseteq DOMAIN next
<1> DEFINE next == response_headers_handler_add(handler, header)
<1>1. \/ next = handler
      \/ \E v : next = [handler EXCEPT !.contentLength = v]
      \/ \E v, w : next = [handler EXCEPT !.metaDataStrings = v, !.metaData = w]
      \/ \E v : next = [handler EXCEPT !.usesServerSideEncryption = v]
  <2> DEFINE add == AddMetaData(handler, <<header.name>>, header.value)
             set == [handler EXCEPT !.usesServerSideEncryption = TRUE]
             length == [handler EXCEPT !.contentLength = Number(header.value)]
  <2>1. next \in {handler, add, set, length}
    BY DEF response_headers_handler_add
  <2>2. add = handler \/ \E v, w : add = [handler EXCEPT !.metaDataStrings = v, !.metaData = w]
    BY DEF AddMetaData
  <2> HIDE DEF next, add
  <2> QED
    BY <2>1, <2>2
<1> HIDE DEF next
<1>2. /\ next.properties = handler.properties
      /\ next.propertyStrings = handler.propertyStrings
      /\ next.done = handler.done
      /\ {"properties", "propertyStrings", "done"} \subseteq DOMAIN next
  <2>1. CASE next = handler
    BY <2>1
  <2>2. CASE \E v : next = [handler EXCEPT !.contentLength = v]
    BY <2>2
  <2>3. CASE \E v, w : next = [handler EXCEPT !.metaDataStrings = v, !.metaData = w]
    BY <2>3
  <2>4. CASE \E v : next = [handler EXCEPT !.usesServerSideEncryption = v]
    BY <2>4
  <2> QED
    BY <1>1, <2>1, <2>2, <2>3, <2>4
<1> QED
  BY <1>2 DEF next

\* A header comes.
LEMMA HeadersInvHeader ==
  ASSUME HeadersInv, curl_header_func
  PROVE  HeadersInv'
<1>1. PICK header \in coming :
        /\ coming' = coming \ {header}
        /\ handler' = response_headers_handler_add(handler, header)
        /\ answered' = Append(answered, header)
  BY DEF curl_header_func
<1>2. phase' = phase /\ phase # "done" /\ stored' = stored
  BY DEF curl_header_func
<1> DEFINE strings == handler.propertyStrings
           size    == strings.size
           places  == handler.properties
           P       == PropertyStringsSize
<1>3. /\ ~handler.done
      /\ {"properties", "propertyStrings", "done"} \subseteq DOMAIN handler
      /\ Buffer(strings, P) /\ Listed(answered)
      /\ \A h \in stored : h.name \in MetaNames
      /\ \A h \in coming : Textual(h)
      /\ StringsTaken(answered, size)
      /\ DOMAIN places \subseteq StringProperties
      /\ \A name \in DOMAIN places : HasPlace(answered, strings, places[name], name)
      /\ ~LeftOne(answered) =>
           \A name \in StringProperties :
             LinesIn(answered, name) # {} => name \in DOMAIN places
  BY <1>2 DEF HeadersInv
<1>4. /\ P \in Nat \ {0, 1} /\ P \in Nat /\ size \in Nat /\ size <= P /\ Textual(header)
  BY <1>1, <1>3, ResponseHeadersAssumption DEF Buffer
<1>5. /\ Listed(answered') /\ Len(answered') = Len(answered) + 1
      /\ \A i \in 1 .. Len(answered) : answered'[i] = answered[i]
      /\ answered'[Len(answered) + 1] = header
      /\ Len(answered) \in Nat
  <2>1. Len(answered) \in Nat
    BY <1>3 DEF Listed
  <2> QED
    BY <1>1, <1>3, <1>4, <2>1, HeaderAppended
<1>6. /\ \A h \in stored' : h.name \in MetaNames
      /\ \A h \in coming' : Textual(h)
  BY <1>1, <1>2, <1>3
<1>7. size = P - 1 <=> LeftOne(answered)
  BY <1>3 DEF StringsTaken
<1> HIDE DEF strings, size, places, P
<1>8. ASSUME NEW name, LinesIn(answered', name) # {}, header.name # name
      PROVE  LinesIn(answered, name) # {}
  <2>1. PICK i \in 1 .. Len(answered) + 1 : answered'[i].name = name
    BY <1>5, <1>8 DEF LinesIn
  <2>2. i \in 1 .. Len(answered)
    BY <1>5, <1>8, <2>1
  <2> QED
    BY <1>5, <2>1, <2>2 DEF LinesIn
<1>9. LeftOne(answered) => LeftOne(answered')
  <2>1. \A i \in 1 .. Len(answered) : /\ i \in 0 .. Len(answered) /\ i \in 1 .. Len(answered')
    BY <1>5
  <2>2. \A i \in 1 .. Len(answered) : Taken(answered', i) = Taken(answered, i)
    BY <1>1, <1>3, <1>4, <2>1, TakenFacts
  <2> QED
    BY <2>1, <2>2 DEF LeftOne
<1>10. CASE header.name \in StringProperties /\ size # P - 1
  <2> DEFINE new    == string_multibuffer_add(strings, header.value)
             placed == [n \in DOMAIN places \cup {header.name} |->
                          IF n = header.name THEN size ELSE places[n]]
  <2>1. handler' = [handler EXCEPT !.properties = placed, !.propertyStrings = new]
    <3>1. ~Ignored(handler)
      BY <1>3, <1>10 DEF Ignored, P, size, strings
    <3>2. string_multibuffer_add(strings, header.value) = new
      OBVIOUS
    <3> QED
      BY <1>1, <1>10, <3>1, <3>2
      DEF response_headers_handler_add, AddProperty, strings, size, places
  <2>2. /\ handler'.properties = placed /\ handler'.propertyStrings = new
        /\ handler'.done = handler.done
        /\ {"properties", "propertyStrings", "done"} \subseteq DOMAIN handler'
    BY <1>3, <2>1
  <2>3. /\ DOMAIN placed = DOMAIN places \cup {header.name}
        /\ placed[header.name] = size
        /\ \A name \in DOMAIN places : name # header.name => placed[name] = places[name]
    OBVIOUS
  <2>4. IsString(header.value) /\ Len(header.value) \in Nat /\ Width(header) = Len(header.value) + 1
    BY <1>4, <1>10, StringFacts DEF Textual, Width
  <2>5. /\ Buffer(new, P) /\ Unchanged(strings, new, size)
        /\ new.size = Shorter(size + Width(header), P)
    <3>1. /\ Buffer(new, P) /\ Unchanged(strings, new, size)
          /\ AllFit(strings, header.value) <=> size + Len(header.value) + 1 <= P
          /\ AllFit(strings, header.value) => new.size = size + Len(header.value) + 1
          /\ ~AllFit(strings, header.value) => new.size = P
      BY <1>3, <2>4, StringIsAdded DEF size
    <3> DEFINE l == Len(header.value)
    <3> HIDE DEF new, l
    <3>2. /\ l \in Nat /\ Width(header) = l + 1
          /\ size + l + 1 <= P => new.size = size + l + 1
          /\ ~(size + l + 1 <= P) => new.size = P
      BY <2>4, <3>1 DEF l
    <3>3. new.size = Shorter(size + Width(header), P)
      BY <1>4, <3>2 DEF Shorter
    <3> QED
      BY <3>1, <3>3
  <2> HIDE DEF new, placed
  <2>6. size <= new.size
    BY <1>4, <2>4, <2>5 DEF Shorter
  <2>7. StringsTaken(answered', new.size)
    BY <1>1, <1>3, <1>4, <1>10, <2>5, StringsTakenMore DEF P
  <2>8. ~LeftOne(answered)
    BY <1>7, <1>10
  <2>9. HasPlace(answered', new, size, header.name)
    BY <1>1, <1>3, <1>4, <1>10, <2>8, PlaceIsTaken DEF P, size, new
  <2>10. ASSUME NEW name \in DOMAIN places, name # header.name
         PROVE  HasPlace(answered', new, places[name], name)
    BY <1>1, <1>3, <1>4, <2>5, <2>6, <2>10, PlaceIsKept DEF P, size
  <2>11. \A name \in DOMAIN placed : HasPlace(answered', new, placed[name], name)
    BY <2>3, <2>9, <2>10
  <2>12. \A name \in StringProperties :
           LinesIn(answered', name) # {} => name \in DOMAIN placed
    BY <1>3, <1>8, <2>3, <2>8
  <2>13. DOMAIN placed \subseteq StringProperties
    BY <1>3, <1>10, <2>3
  <2> QED
    BY <1>2, <1>3, <1>5, <1>6, <2>2, <2>5, <2>7, <2>11, <2>12, <2>13 DEF HeadersInv, P
<1>11. CASE header.name \notin StringProperties \/ size = P - 1
  <2>1. /\ handler'.properties = places /\ handler'.propertyStrings = strings
        /\ handler'.done = handler.done
        /\ {"properties", "propertyStrings", "done"} \subseteq DOMAIN handler'
    <3>1. CASE size = P - 1
      <4>1. Ignored(handler)
        BY <3>1 DEF Ignored, P, size, strings
      <4>2. handler' = handler
        BY <1>1, <4>1 DEF response_headers_handler_add
      <4> QED
        BY <1>3, <4>2 DEF places, strings
    <3>2. CASE header.name \notin StringProperties
      BY <1>1, <1>3, <3>2, OtherHeader DEF places, strings
    <3> QED
      BY <1>11, <3>1, <3>2
  <2>2. StringsTaken(answered', size)
    <3>1. size = IF size = P - 1 THEN size ELSE Shorter(size + Width(header), P)
      <4>1. CASE size # P - 1
        <5>1. Width(header) = 0
          BY <1>11, <4>1 DEF Width
        <5> QED
          BY <1>4, <5>1 DEF Shorter
      <4> QED
        BY <4>1
    <3> QED
      BY <1>1, <1>3, <1>4, <3>1, StringsTakenMore DEF P
  <2>3. ASSUME NEW name \in DOMAIN places
        PROVE  HasPlace(answered', strings, places[name], name)
    <3>1. header.name # name \/ LeftOne(answered)
      BY <1>3, <1>7, <1>11
    <3>2. Unchanged(strings, strings, size) /\ size <= size
      BY <1>4 DEF Unchanged
    <3> QED
      BY <1>1, <1>3, <1>4, <3>1, <3>2, PlaceIsKept DEF P, size
  <2>4. ASSUME ~LeftOne(answered'), NEW name \in StringProperties,
               LinesIn(answered', name) # {}
        PROVE  name \in DOMAIN places
    <3>1. ~LeftOne(answered) /\ header.name # name
      BY <1>7, <1>9, <1>11, <2>4
    <3> QED
      BY <1>3, <1>8, <2>4, <3>1
  <2> QED
    BY <1>2, <1>3, <1>5, <1>6, <2>1, <2>2, <2>3, <2>4 DEF HeadersInv, P, size
<1> QED
  BY <1>10, <1>11

LEMMA HeadersInvNext ==
  ASSUME HeadersInv, [HeadersNext]_headersVars
  PROVE  HeadersInv'
<1>1. ASSUME handler' = handler, answered' = answered,
             phase' # "done" => phase # "done",
             \A h \in stored' : h.name \in MetaNames, \A h \in coming' : Textual(h)
      PROVE  HeadersInv'
  BY <1>1 DEF HeadersInv
<1>2. /\ \A h \in stored : h.name \in MetaNames
      /\ \A h \in coming : Textual(h)
      /\ phase # "done" => ~handler.done
  BY DEF HeadersInv
<1>3. CASE Compose
  <2>1. stored' = stored \/ \E request : stored' = Kept(request)
    BY <1>3 DEF Compose
  <2>2. \A h \in stored' : h.name \in MetaNames
    BY <1>2, <2>1 DEF Kept
  <2>3. handler' = handler /\ answered' = answered /\ coming' = coming /\ phase # "done"
    BY <1>3 DEF Compose
  <2> QED
    BY <1>1, <1>2, <2>2, <2>3
<1>4. CASE Redirect
  <2>1. coming' \in Redirects
    BY <1>4 DEF Redirect
  <2>2. \A h \in coming' : Textual(h)
    BY <2>1, HeadersAssumption DEF Textual
  <2>3. handler' = handler /\ answered' = answered /\ stored' = stored /\ phase # "done"
    BY <1>4 DEF Redirect
  <2> QED
    BY <1>1, <1>2, <2>2, <2>3
<1>5. CASE Answer
  <2>1. PICK headers \in Answers : coming' = headers \cup stored
    BY <1>5 DEF Answer
  <2>2. \A h \in headers : Textual(h)
    BY HeadersAssumption DEF Textual
  <2>3. \A h \in stored : Textual(h)
    BY <1>2, NamesDiffer DEF Textual
  <2>4. handler' = handler /\ answered' = answered /\ stored' = stored /\ phase # "done"
    BY <1>5 DEF Answer
  <2> QED
    BY <1>1, <1>2, <2>1, <2>2, <2>3, <2>4
<1>6. CASE curl_header_func
  BY <1>6, HeadersInvHeader
<1>7. CASE request_headers_done
  <2>1. /\ phase' = "done" /\ handler' = [handler EXCEPT !.done = TRUE]
        /\ answered' = answered /\ coming' = coming /\ stored' = stored
    BY <1>7 DEF request_headers_done, response_headers_handler_done
  <2>2. {"properties", "propertyStrings", "done"} \subseteq DOMAIN handler
    BY DEF HeadersInv
  <2>3. /\ handler'.properties = handler.properties
        /\ handler'.propertyStrings = handler.propertyStrings
        /\ {"properties", "propertyStrings", "done"} \subseteq DOMAIN handler'
    BY <2>1, <2>2
  <2> QED
    BY <2>1, <2>3 DEF HeadersInv
<1>8. CASE TrailerComes
  <2>1. /\ phase' = phase /\ answered' = answered /\ coming' = coming /\ stored' = stored
        /\ handler.done
        /\ \E header \in Trailers : handler' = response_headers_handler_add(handler, header)
    BY <1>8 DEF TrailerComes
  <2>2. handler' = handler
    BY <2>1 DEF response_headers_handler_add, Ignored
  <2> QED
    BY <1>1, <1>2, <2>1, <2>2
<1>9. CASE HeadersFinished \/ UNCHANGED headersVars
  <2>1. handler' = handler /\ answered' = answered /\ coming' = coming /\ stored' = stored
        /\ phase' = phase
    BY <1>9 DEF HeadersFinished, headersVars
  <2> QED
    BY <1>1, <1>2, <2>1
<1> QED
  BY <1>3, <1>4, <1>5, <1>6, <1>7, <1>8, <1>9 DEF HeadersNext

\* What is in its place is read.
LEMMA PropertiesAreRead ==
  ASSUME HeadersInv
  PROVE  PropertiesAsAnswered
<1> DEFINE strings == handler.propertyStrings
           places  == handler.properties
           P       == PropertyStringsSize
           n       == Len(answered)
<1>1. /\ Buffer(strings, P) /\ Listed(answered)
      /\ \A name \in DOMAIN places : HasPlace(answered, strings, places[name], name)
      /\ ~LeftOne(answered) =>
           \A name \in StringProperties :
             LinesIn(answered, name) # {} => name \in DOMAIN places
  BY DEF HeadersInv
<1>2. n \in Nat /\ DOMAIN answered = 1 .. n
  BY <1>1 DEF Listed
<1>3. /\ \A count : Used(count) = Taken(answered, count)
      /\ OneShort <=> LeftOne(answered)
      /\ \A name : Lines(name) = LinesIn(answered, name)
  <2>1. ASSUME NEW count PROVE Used(count) = Taken(answered, count)
    BY DEF Used, Taken, Width
  <2>2. OneShort <=> LeftOne(answered)
    BY <1>2, <2>1 DEF OneShort, LeftOne
  <2>3. \A name : Lines(name) = LinesIn(answered, name)
    BY <1>2 DEF Lines, LinesIn
  <2> QED
    BY <2>1, <2>2, <2>3
<1>4. P \in Nat /\ Taken(answered, n) \in Nat
  <2>1. n \in 0 .. n
    BY <1>2
  <2> QED
    BY <1>1, <2>1, TakenFacts, ResponseHeadersAssumption
<1> DEFINE used == Taken(answered, n)
           lines(name) == LinesIn(answered, name)
           read(name) == Property(handler, name)
<1>5. ASSUME NEW name \in StringProperties
      PROVE  /\ \/ read(name) = <<Behind>> /\ used > P
                \/ read(name) = <<>>
                \/ \E i \in lines(name) : IsPrefix(read(name), answered[i].value)
             /\ used <= P /\ ~LeftOne(answered) =>
                  read(name) = IF lines(name) = {} THEN <<>>
                               ELSE answered[Max(lines(name))].value
  <2>1. CASE name \notin DOMAIN places
    <3>1. read(name) = <<>>
      BY <2>1 DEF Property
    <3>2. ~LeftOne(answered) => lines(name) = {}
      BY <1>1, <2>1
    <3> HIDE DEF read, lines
    <3> QED
      BY <3>1, <3>2
  <2>2. CASE name \in DOMAIN places
    <3> DEFINE at == places[name]
    <3>1. PICK i \in lines(name) :
            /\ ~LeftOne(answered) => \A j \in lines(name) : j <= i
            /\ \/ Holds(strings, at, answered[i].value, strings.size)
               \/ used > P /\ at = P
               \/ used > P /\ Holds(strings, at, Begin(answered[i].value, P - at), strings.size)
      BY <1>1, <2>2 DEF HasPlace
    <3>2. i \in 1 .. n /\ lines(name) \subseteq 1 .. n
      BY <3>1 DEF LinesIn
    <3>3. read(name) = IF at = P THEN <<Behind>> ELSE StringAt(strings, at)
      <4>1. SizeOf(strings) = P /\ StringAt(strings, at) = StringAt(strings, at)
        BY <1>1, SizeOfBuffer
      <4> QED
        BY <2>2, <4>1 DEF Property, StringIn
    <3>4. IsString(answered[i].value)
      <4>1. answered[i].name = name /\ Textual(answered[i])
        BY <1>1, <3>1, <3>2 DEF LinesIn, Listed
      <4> QED
        BY <4>1 DEF Textual
    <3>5. (Max(lines(name)) = i /\ lines(name) # {}) \/ LeftOne(answered)
      <4>1. SUFFICES ASSUME ~LeftOne(answered) PROVE Max(lines(name)) = i
        BY <3>1
      <4>2. \A j \in lines(name) : j <= i
        BY <3>1, <4>1
      <4>3. \A j \in lines(name) : j \in Nat
        BY <1>2, <3>2
      <4>4. ASSUME NEW x \in lines(name), \A j \in lines(name) : x >= j
            PROVE  x = i
        BY <3>1, <4>2, <4>3, <4>4
      <4>5. \A j \in lines(name) : i >= j
        BY <3>1, <4>2, <4>3
      <4> HIDE DEF lines
      <4> QED
        BY <3>1, <4>4, <4>5 DEF Max
    <3>6. ASSUME NEW text, Holds(strings, at, text, strings.size)
          PROVE  read(name) = text
      <4>1. strings.size \in Nat /\ strings.size <= P
        BY <1>1 DEF Buffer
      <4>2. Holds(strings, at, text, P) /\ at # P
        <5>1. strings.size \in Int /\ P \in Int /\ strings.size <= strings.size
          BY <1>4, <4>1
        <5>2. Unchanged(strings, strings, strings.size)
          BY DEF Unchanged
        <5> HIDE DEF at, strings, P
        <5>3. Holds(strings, at, text, P)
          BY <3>6, <4>1, <5>1, <5>2, StaysThere
        <5>4. at # P
          BY <1>4, <5>3, StringFacts DEF Holds
        <5> QED
          BY <5>3, <5>4
      <4>3. StringAt(strings, at) = text
        BY <1>1, <4>2, StringIsRead
      <4> QED
        BY <3>3, <4>2, <4>3
    <3> DEFINE value == answered[i].value
    <3>7. ASSUME NEW count \in 0 .. Len(value)
          PROVE  IsPrefix(SubSeq(value, 1, count), value)
      <4> DEFINE S == Range(value) \ {Null}
                 first == SubSeq(value, 1, count)
      <4>1. value \in Seq(S)
        BY <3>4 DEF IsString
      <4> HIDE DEF S, value
      <4>2. first \in Seq(S) /\ Len(first) = count /\ count \in Nat /\ count <= Len(value)
        BY <3>7, <4>1
      <4>3. SubSeq(first, 1, count) = first
        BY <4>2
      <4> QED
        BY <4>2, <4>3 DEF IsPrefix
    <3> HIDE DEF read, lines, used, P, at, strings
    <3>8. CASE Holds(strings, at, value, strings.size)
      <4>1. read(name) = value
        BY <3>6, <3>8
      <4>2. IsPrefix(value, value)
        <5>1. Len(value) \in 0 .. Len(value) /\ SubSeq(value, 1, Len(value)) = value
          BY <3>4, StringFacts DEF IsString
        <5> HIDE DEF value
        <5> QED
          BY <3>7, <5>1
      <4> QED
        BY <3>1, <3>5, <4>1, <4>2
    <3>9. CASE used > P /\ at = P
      <4>1. read(name) = <<Behind>>
        BY <3>3, <3>9
      <4> QED
        BY <1>4, <3>9, <4>1 DEF used, P
    <3>10. CASE used > P /\ Holds(strings, at, Begin(value, P - at), strings.size)
      <4>1. read(name) = Begin(value, P - at)
        BY <3>6, <3>10
      <4>2. IsPrefix(Begin(value, P - at), value)
        <5> DEFINE count == Shorter(P - at - 1, Len(value))
        <5>1. at \in Nat /\ strings.size \in Nat /\ at + 1 <= strings.size
              /\ strings.size <= P /\ P \in Nat
          <6>1. /\ at \in Nat /\ at + Len(Begin(value, P - at)) + 1 <= strings.size
                /\ Len(Begin(value, P - at)) \in Nat
            BY <3>10, StringFacts DEF Holds
          <6>2. strings.size \in Nat /\ strings.size <= P /\ P \in Nat
            BY <1>1, <1>4 DEF Buffer, P, strings
          <6> QED
            BY <6>1, <6>2
        <5>2. count \in 0 .. Len(value)
          <6>1. Len(value) \in Nat
            BY <3>4, StringFacts
          <6> QED
            BY <5>1, <6>1 DEF Shorter
        <5>3. Begin(value, P - at) = SubSeq(value, 1, count)
          BY DEF Begin
        <5> QED
          BY <3>7, <5>2, <5>3
      <4> QED
        BY <1>4, <3>1, <3>10, <4>1, <4>2 DEF used, P
    <3> QED
      BY <3>1, <3>8, <3>9, <3>10 DEF used, P, at, strings
  <2> QED
    BY <2>1, <2>2
<1> QED
  BY <1>3, <1>5 DEF PropertiesAsAnswered

\* The properties of a response are where the handler says they are.
THEOREM PropertiesInPlace == HeadersSpec => []HeadersInv
<1>1. HeadersInit => HeadersInv
  BY HeadersInvInit
<1>2. HeadersInv /\ [HeadersNext]_headersVars => HeadersInv'
  BY HeadersInvNext
<1> QED
  BY <1>1, <1>2, PTL DEF HeadersSpec

\* Each property the properties callback gets is the value of the last header
\* of its name, from whichever of the responses, if the values of all of them
\* fit the strings; if not it is a beginning of one of them or starts behind
\* the array: for strings of any size, and any headers, redirects and order
\* in which they come (response_headers_handler.c).
THEOREM PropertiesKept == HeadersSpec => []PropertiesAsAnswered
<1>1. HeadersInv => PropertiesAsAnswered
  BY PropertiesAreRead
<1>2. HeadersSpec => []HeadersInv
  BY PropertiesInPlace
<1> QED
  BY <1>1, <1>2, PTL

-----------------------------------------------------------------------------
(* Recursion: a function that is built up step by step exists.             *)

BuiltUp(X, first, len, step, f) ==
  /\ f \in [0 .. len -> X]
  /\ f[0] = first /\ \A i \in 1 .. len : f[i] = step[i][f[i - 1]]

LEMMA Recursion ==
  ASSUME NEW X, NEW first \in X, NEW len \in Nat, NEW step \in [1 .. len -> [X -> X]]
  PROVE  \E f : BuiltUp(X, first, len, step, f)
<1> DEFINE First(n) == \E f \in [0 .. n -> X] :
                          f[0] = first /\ \A i \in 1 .. n : f[i] = step[i][f[i - 1]]
           Good == {n \in Nat : n <= len => First(n)}
<1>1. 0 \in Good
  <2> DEFINE f == [i \in 0 .. 0 |-> first]
  <2>1. f \in [0 .. 0 -> X] /\ f[0] = first /\ \A i \in 1 .. 0 : FALSE
    OBVIOUS
  <2> HIDE DEF f
  <2> QED
    BY <2>1
<1>2. ASSUME NEW n \in Good PROVE n + 1 \in Good
  <2> SUFFICES ASSUME n + 1 <= len PROVE First(n + 1)
    <3> HIDE DEF First
    <3> QED
      OBVIOUS
  <2>1. n \in Nat /\ n <= len
    OBVIOUS
  <2>2. PICK f \in [0 .. n -> X] :
          f[0] = first /\ \A i \in 1 .. n : f[i] = step[i][f[i - 1]]
    BY <1>2, <2>1
  <2> DEFINE last == step[n + 1][f[n]]
             more == [i \in 0 .. n + 1 |-> IF i <= n THEN f[i] ELSE last]
  <2>3. last \in X
    <3>1. f[n] \in X /\ n + 1 \in 1 .. len
      BY <2>1
    <3>2. step[n + 1] \in [X -> X]
      BY <3>1
    <3> QED
      BY <3>1, <3>2
  <2> HIDE DEF last
  <2>4. more \in [0 .. n + 1 -> X] /\ more[n + 1] = last /\ \A i \in 0 .. n : more[i] = f[i]
    BY <2>1, <2>3
  <2> HIDE DEF more
  <2>5. more[0] = first
    BY <2>1, <2>2, <2>4
  <2>6. ASSUME NEW i \in 1 .. n + 1 PROVE more[i] = step[i][more[i - 1]]
    <3>1. i - 1 \in 0 .. n /\ (i \in 1 .. n \/ i = n + 1)
      BY <2>1
    <3>2. CASE i \in 1 .. n
      <4>1. more[i] = f[i] /\ more[i - 1] = f[i - 1]
        BY <2>1, <2>4, <3>1, <3>2
      <4> QED
        BY <2>2, <3>2, <4>1
    <3>3. CASE i = n + 1
      <4>1. more[i - 1] = f[n]
        BY <2>1, <2>4, <3>1, <3>3
      <4> QED
        BY <2>4, <3>3, <4>1 DEF last
    <3> QED
      BY <3>1, <3>2, <3>3
  <2> QED
    BY <2>4, <2>5, <2>6
<1> HIDE DEF First
<1>3. Good = Nat
  <2>1. Good \in SUBSET Nat /\ \A n \in Good : n + 1 \in Good
    BY <1>2
  <2> HIDE DEF Good
  <2> QED
    BY <1>1, <2>1, AllNumbers
<1>4. First(len)
  BY <1>3
<1> QED
  BY <1>4 DEF First, BuiltUp

\* Functions that begin alike and go on alike are the same as far as they do.
SameSteps(f, g, len) == \A i \in 1 .. len : f[i - 1] = g[i - 1] => f[i] = g[i]

LEMMA StayTheSame ==
  ASSUME NEW len \in Nat, NEW f, NEW g, f[0] = g[0], SameSteps(f, g, len)
  PROVE  \A i \in 0 .. len : f[i] = g[i]
<1> DEFINE Good == {n \in Nat : n <= len => f[n] = g[n]}
<1>1. 0 \in Good
  OBVIOUS
<1>2. ASSUME NEW n \in Good PROVE n + 1 \in Good
  <2> SUFFICES ASSUME n + 1 <= len PROVE f[n + 1] = g[n + 1]
    OBVIOUS
  <2>1. n \in Nat /\ n + 1 \in 1 .. len /\ n + 1 - 1 = n /\ f[n] = g[n]
    OBVIOUS
  <2> QED
    BY <2>1 DEF SameSteps
<1>3. Good = Nat
  <2>1. Good \in SUBSET Nat /\ \A n \in Good : n + 1 \in Good
    BY <1>2
  <2> HIDE DEF Good
  <2> QED
    BY <1>1, <2>1, AllNumbers
<1> QED
  BY <1>3

-----------------------------------------------------------------------------
(* Sequences put together                                                  *)

\* A sequence of sequences.  (Seq(Seq(S)) is more than the provers can do with.)
AreParts(S, seqs) == Len(seqs) \in Nat /\ seqs \in [1 .. Len(seqs) -> Seq(S)]

LEMMA PartsAppended ==
  ASSUME NEW S, NEW seqs, AreParts(S, seqs), NEW s \in Seq(S)
  PROVE  /\ AreParts(S, Append(seqs, s))
         /\ Len(Append(seqs, s)) = Len(seqs) + 1 /\ Len(seqs) \in Nat
         /\ \A i \in 1 .. Len(seqs) : Append(seqs, s)[i] = seqs[i]
         /\ Append(seqs, s)[Len(seqs) + 1] = s
<1>1. PICK T : T = Seq(S)
  OBVIOUS
<1>2. Len(seqs) \in Nat /\ seqs \in [1 .. Len(seqs) -> T] /\ s \in T
  BY <1>1 DEF AreParts
<1>3. seqs \in Seq(T)
  BY <1>2
<1> DEFINE more == Append(seqs, s)
<1>4. /\ more \in Seq(T) /\ Len(more) = Len(seqs) + 1
      /\ \A i \in 1 .. Len(seqs) : more[i] = seqs[i]
      /\ more[Len(seqs) + 1] = s
  BY <1>2, <1>3, AppendProperties
<1> HIDE DEF more
<1>5. Len(more) \in Nat /\ more \in [1 .. Len(more) -> T]
  BY <1>4, LenProperties
<1> QED
  BY <1>1, <1>2, <1>4, <1>5 DEF AreParts, more

\* flat is what the first sequences are together.
Flattening(X, seqs, len, flat) ==
  /\ flat \in [0 .. len -> X] /\ flat[0] = <<>>
  /\ \A i \in 1 .. len : flat[i] = flat[i - 1] \o seqs[i]

Flattens(S, seqs, flat) == Flattening(Seq(S), seqs, Len(seqs), flat)

\* The sequences of a set can be put together.
Joinable(X) ==
  <<>> \in X /\ (\A s, t \in X : s \o t \in X) /\ \A s \in X : <<>> \o s = s

LEMMA FlattenSteps ==
  ASSUME NEW X, Joinable(X), NEW seqs, NEW len \in Nat, len = Len(seqs),
         seqs \in [1 .. len -> X], len = 0 => seqs = <<>>
  PROVE  \E flat : Flattening(X, seqs, len, flat) /\ FlattenSeq(seqs) = flat[len]
<1>1. \A i \in 1 .. len : seqs[i] \in X
  OBVIOUS
<1>2. PICK step \in [1 .. len -> [X -> X]] :
        \A i \in 1 .. len, s \in X : step[i][s] = s \o seqs[i]
  <2> DEFINE step == [i \in 1 .. len |-> [s \in X |-> s \o seqs[i]]]
  <2>1. \A i \in 1 .. len, s \in X : s \o seqs[i] \in X
    BY <1>1 DEF Joinable
  <2>2. step \in [1 .. len -> [X -> X]]
    BY <2>1
  <2>3. \A i \in 1 .. len, s \in X : step[i][s] = s \o seqs[i]
    OBVIOUS
  <2> HIDE DEF step
  <2> QED
    BY <2>2, <2>3
<1>3. PICK f \in [0 .. len -> X] :
        f[0] = <<>> /\ \A i \in 1 .. len : f[i] = step[i][f[i - 1]]
  <2>1. PICK first \in X : first = <<>>
    BY DEF Joinable
  <2>2. \E f : BuiltUp(X, first, len, step, f)
    BY Recursion
  <2> QED
    BY <2>1, <2>2 DEF BuiltUp
<1>4. ASSUME NEW i \in 1 .. len PROVE f[i] = f[i - 1] \o seqs[i]
  <2>1. f[i - 1] \in X
    OBVIOUS
  <2> QED
    BY <1>2, <1>3, <2>1
<1>5. FlattenSeq(seqs) = f[len]
  <2>1. CASE len = 0
    BY <1>3, <2>1 DEF FlattenSeq
  <2>2. CASE len # 0
    <3> DEFINE Step(g, i) == IF i = 1 THEN seqs[i] ELSE g[i - 1] \o seqs[i]
               IsWhole(g) == g = [i \in 1 .. len |-> Step(g, i)]
               chosen == CHOOSE g : IsWhole(g)
    <3>1. FlattenSeq(seqs) = chosen[len]
      BY <2>2 DEF FlattenSeq
    <3>2. 1 \in 1 .. len /\ f[1] = seqs[1]
      <4>1. 1 \in 1 .. len /\ 1 - 1 = 0
        BY <2>2
      <4>2. f[1] = <<>> \o seqs[1]
        BY <1>3, <1>4, <4>1
      <4> QED
        BY <1>1, <4>1, <4>2 DEF Joinable
    <3>3. ASSUME NEW i \in 1 .. len PROVE f[i] = Step(f, i)
      BY <1>4, <3>2, <3>3
    <3>4. \E g : IsWhole(g)
      <4>1. PICK g : g = [i \in 1 .. len |-> f[i]]
        OBVIOUS
      <4>2. \A i \in 1 .. len : Step(g, i) = f[i]
        BY <3>3, <4>1
      <4> HIDE DEF Step
      <4>3. IsWhole(g)
        BY <4>1, <4>2
      <4> QED
        BY <4>3
    <3>5. IsWhole(chosen)
      <4> HIDE DEF IsWhole
      <4> QED
        BY <3>4
    <3>6. PICK c : c = chosen
      OBVIOUS
    <3> HIDE DEF chosen
    <3>7. \A i \in 1 .. len : c[i] = Step(c, i)
      <4> HIDE DEF Step
      <4> QED
        BY <3>5, <3>6
    <3>8. PICK g : g = [i \in 0 .. len |-> IF i = 0 THEN <<>> ELSE c[i]]
      OBVIOUS
    <3>9. g[0] = f[0] /\ \A i \in 1 .. len : g[i] = c[i]
      BY <1>3, <3>8
    <3>10. ASSUME NEW i \in 1 .. len, g[i - 1] = f[i - 1] PROVE g[i] = f[i]
      <4>1. CASE i = 1
        BY <3>2, <3>7, <3>9, <4>1
      <4>2. CASE i # 1
        <5>1. i - 1 \in 1 .. len
          BY <4>2
        <5>2. c[i] = c[i - 1] \o seqs[i]
          BY <3>7, <4>2
        <5> QED
          BY <1>4, <3>9, <3>10, <5>1, <5>2
      <4> QED
        BY <4>1, <4>2
    <3>11. \A i \in 0 .. len : g[i] = f[i]
      <4>1. SameSteps(g, f, len)
        BY <3>10 DEF SameSteps
      <4> QED
        BY <3>9, <4>1, StayTheSame
    <3>12. g[len] = f[len] /\ g[len] = c[len]
      BY <2>2, <3>9, <3>11
    <3> QED
      BY <3>1, <3>6, <3>12
  <2> QED
    BY <2>1, <2>2
<1> QED
  BY <1>3, <1>4, <1>5 DEF Flattening

LEMMA FlattenFacts ==
  ASSUME NEW S, NEW seqs, AreParts(S, seqs)
  PROVE  \E flat : Flattens(S, seqs, flat) /\ FlattenSeq(seqs) = flat[Len(seqs)]
<1>1. PICK X : X = Seq(S)
  OBVIOUS
<1>2. PICK len \in Nat : len = Len(seqs)
  BY DEF AreParts
<1>3. seqs \in [1 .. len -> X] /\ (len = 0 => seqs = <<>>)
  BY <1>1, <1>2 DEF AreParts
<1>4. Joinable(X)
  BY <1>1, ConcatProperties, ConcatEmptySeq DEF Joinable
<1>5. \E flat : Flattening(X, seqs, len, flat) /\ FlattenSeq(seqs) = flat[len]
  BY <1>2, <1>3, <1>4, FlattenSteps
<1> QED
  BY <1>1, <1>2, <1>5 DEF Flattens, Flattening

LEMMA FlattenAppend ==
  ASSUME NEW S, NEW seqs, AreParts(S, seqs), NEW s \in Seq(S)
  PROVE  /\ AreParts(S, Append(seqs, s))
         /\ FlattenSeq(Append(seqs, s)) = FlattenSeq(seqs) \o s
<1> DEFINE more == Append(seqs, s)
<1>0. PICK len \in Nat : len = Len(seqs)
  BY DEF AreParts
<1>1. /\ AreParts(S, more) /\ Len(more) = len + 1 /\ len \in Nat
      /\ \A i \in 1 .. len : more[i] = seqs[i]
      /\ more[len + 1] = s /\ len = Len(seqs)
  BY <1>0, PartsAppended
<1> HIDE DEF more
<1>2. PICK f : Flattens(S, seqs, f) /\ FlattenSeq(seqs) = f[len]
  BY <1>0, FlattenFacts
<1>3. PICK g : Flattens(S, more, g) /\ FlattenSeq(more) = g[len + 1]
  BY <1>1, FlattenFacts
<1>4. \A i \in 0 .. len : f[i] = g[i]
  <2>1. f[0] = g[0]
    BY <1>2, <1>3 DEF Flattens, Flattening
  <2>2. ASSUME NEW i \in 1 .. len, f[i - 1] = g[i - 1] PROVE f[i] = g[i]
    <3>1. i \in 1 .. len + 1
      BY <1>1
    <3>2. f[i] = f[i - 1] \o seqs[i]
      BY <1>1, <1>2 DEF Flattens, Flattening
    <3>3. g[i] = g[i - 1] \o more[i]
      BY <1>1, <1>3, <3>1 DEF Flattens, Flattening
    <3> QED
      BY <1>1, <2>2, <3>2, <3>3
  <2>3. SameSteps(f, g, len)
    BY <2>2 DEF SameSteps
  <2> QED
    BY <2>1, <2>3, StayTheSame
<1>5. g[len + 1] = g[len] \o s
  <2>1. PICK n : n = len + 1
    OBVIOUS
  <2>2. n \in 1 .. len + 1 /\ n - 1 = len
    BY <2>1
  <2>3. \A i \in 1 .. len + 1 : g[i] = g[i - 1] \o more[i]
    BY <1>1, <1>3 DEF Flattens, Flattening
  <2>4. g[n] = g[n - 1] \o more[n]
    BY <2>2, <2>3
  <2>5. more[n] = s
    BY <1>1, <2>1
  <2>6. g[n] = g[len] \o s
    BY <2>2, <2>4, <2>5
  <2> QED
    BY <2>1, <2>6
<1>6. f[len] = g[len]
  BY <1>1, <1>4
<1> QED
  BY <1>1, <1>2, <1>3, <1>5, <1>6 DEF more

LEMMA FlattenIsSeq ==
  ASSUME NEW S, NEW seqs, AreParts(S, seqs)
  PROVE  FlattenSeq(seqs) \in Seq(S)
<1>1. PICK f : Flattens(S, seqs, f) /\ FlattenSeq(seqs) = f[Len(seqs)]
  BY FlattenFacts
<1>2. Len(seqs) \in 0 .. Len(seqs)
  BY DEF AreParts
<1> QED
  BY <1>1, <1>2 DEF Flattens, Flattening

LEMMA FlattenNone == FlattenSeq(<<>>) = <<>>
  BY DEF FlattenSeq

LEMMA PartsJoined ==
  ASSUME NEW S, NEW p, NEW q, AreParts(S, p), AreParts(S, q)
  PROVE  /\ AreParts(S, p \o q)
         /\ Len(p \o q) = Len(p) + Len(q) /\ Len(p) \in Nat /\ Len(q) \in Nat
         /\ \A i \in 1 .. Len(p) : (p \o q)[i] = p[i]
         /\ \A i \in 1 .. Len(q) : (p \o q)[Len(p) + i] = q[i]
<1>1. PICK T : T = Seq(S)
  OBVIOUS
<1>2. /\ Len(p) \in Nat /\ p \in [1 .. Len(p) -> T]
      /\ Len(q) \in Nat /\ q \in [1 .. Len(q) -> T]
  BY <1>1 DEF AreParts
<1>3. p \in Seq(T) /\ q \in Seq(T)
  BY <1>2
<1> DEFINE both == p \o q
<1>4. /\ both \in Seq(T) /\ Len(both) = Len(p) + Len(q)
      /\ \A i \in 1 .. Len(p) + Len(q) :
           both[i] = IF i <= Len(p) THEN p[i] ELSE q[i - Len(p)]
  BY <1>3, ConcatProperties
<1> HIDE DEF both
<1>5. Len(both) \in Nat /\ both \in [1 .. Len(both) -> T]
  BY <1>4, LenProperties
<1>6. AreParts(S, both)
  BY <1>1, <1>5 DEF AreParts
<1>7. ASSUME NEW i \in 1 .. Len(q) PROVE both[Len(p) + i] = q[i]
  <2>1. PICK j : j = Len(p) + i
    OBVIOUS
  <2>2. j \in 1 .. Len(p) + Len(q) /\ ~(j <= Len(p)) /\ j - Len(p) = i
    BY <1>2, <2>1
  <2> QED
    BY <1>4, <2>1, <2>2
<1>8. \A i \in 1 .. Len(p) : both[i] = p[i]
  BY <1>2, <1>4
<1> QED
  BY <1>2, <1>4, <1>6, <1>7, <1>8 DEF both

Together(p, q, both) == both = p \o q

LEMMA FlattenJoined ==
  ASSUME NEW S, NEW p, NEW q, AreParts(S, p), AreParts(S, q),
         NEW both, Together(p, q, both)
  PROVE  AreParts(S, both) /\ Together(FlattenSeq(p), FlattenSeq(q), FlattenSeq(both))
<1>1. both = p \o q
  BY DEF Together
<1>2. PICK m \in Nat, n \in Nat : m = Len(p) /\ n = Len(q)
  BY DEF AreParts
<1>3. /\ AreParts(S, both) /\ Len(both) = m + n
      /\ \A i \in 1 .. m : both[i] = p[i]
      /\ \A i \in 1 .. n : both[m + i] = q[i]
  BY <1>1, <1>2, PartsJoined
<1>4. PICK f : Flattening(Seq(S), both, m + n, f) /\ FlattenSeq(both) = f[m + n]
  BY <1>3, FlattenFacts DEF Flattens
<1>5. PICK g : Flattening(Seq(S), p, m, g) /\ FlattenSeq(p) = g[m]
  BY <1>2, FlattenFacts DEF Flattens
<1>6. PICK h : Flattening(Seq(S), q, n, h) /\ FlattenSeq(q) = h[n]
  BY <1>2, FlattenFacts DEF Flattens
<1>7. f[m] = g[m]
  <2>1. f[0] = g[0]
    BY <1>4, <1>5 DEF Flattening
  <2>2. SameSteps(f, g, m)
    <3>1. ASSUME NEW i \in 1 .. m, f[i - 1] = g[i - 1] PROVE f[i] = g[i]
      <4>1. i \in 1 .. m + n
        OBVIOUS
      <4>2. f[i] = f[i - 1] \o both[i] /\ g[i] = g[i - 1] \o p[i]
        BY <1>4, <1>5, <4>1 DEF Flattening
      <4> QED
        BY <1>3, <3>1, <4>2
    <3> QED
      BY <3>1 DEF SameSteps
  <2> QED
    BY <2>1, <2>2, StayTheSame
<1>8. PICK k : \A i \in 0 .. n : k[i] = f[m + i]
  <2>1. PICK k : k = [i \in 0 .. n |-> f[m + i]]
    OBVIOUS
  <2> QED
    BY <2>1
<1>9. PICK l : \A i \in 0 .. n : l[i] = g[m] \o h[i]
  <2>1. PICK l : l = [i \in 0 .. n |-> g[m] \o h[i]]
    OBVIOUS
  <2> QED
    BY <2>1
<1>10. g[m] \in Seq(S) /\ h[0] = <<>> /\ \A i \in 0 .. n : h[i] \in Seq(S)
  BY <1>5, <1>6 DEF Flattening
<1>11. k[0] = l[0]
  <2>1. g[m] \o <<>> = g[m]
    BY <1>10, ConcatEmptySeq
  <2>2. 0 \in 0 .. n /\ m + 0 = m
    OBVIOUS
  <2>3. k[0] = f[m] /\ l[0] = g[m] \o h[0]
    BY <1>8, <1>9, <2>2
  <2>4. h[0] = <<>>
    BY <1>10
  <2> QED
    BY <1>7, <2>1, <2>3, <2>4, Zenon
<1>12. SameSteps(k, l, n)
  <2>1. ASSUME NEW i \in 1 .. n, k[i - 1] = l[i - 1] PROVE k[i] = l[i]
    <3>0. k[i - 1] = l[i - 1]
      BY <2>1
    <3>1. PICK j : j = m + i
      OBVIOUS
    <3>2. j \in 1 .. m + n /\ j - 1 = m + (i - 1) /\ i \in 0 .. n /\ i - 1 \in 0 .. n
      BY <3>1
    <3>3. f[j] = f[j - 1] \o both[j]
      BY <1>4, <3>2 DEF Flattening
    <3>4. h[i] = h[i - 1] \o q[i]
      BY <1>6 DEF Flattening
    <3>5. k[i] = f[j] /\ k[i - 1] = f[j - 1] /\ both[j] = q[i]
      BY <1>3, <1>8, <3>1, <3>2
    <3>6. l[i] = g[m] \o h[i] /\ l[i - 1] = g[m] \o h[i - 1]
      BY <1>9, <3>2
    <3>7. q[i] \in Seq(S) /\ h[i - 1] \in Seq(S)
      BY <1>2, <1>10, <3>2 DEF AreParts
    <3>8. (g[m] \o h[i - 1]) \o q[i] = g[m] \o (h[i - 1] \o q[i])
      <4>1. g[m] \in Seq(S)
        BY <1>10
      <4>2. \A a, b, c \in Seq(S) : (a \o b) \o c = a \o (b \o c)
        BY ConcatAssociative
      <4> QED
        BY <3>7, <4>1, <4>2
    <3>9. k[i] = k[i - 1] \o q[i]
      BY <3>3, <3>5
    <3>10. k[i] = (g[m] \o h[i - 1]) \o q[i]
      <4>1. k[i - 1] = g[m] \o h[i - 1]
        BY <3>0, <3>6
      <4> QED
        BY <3>9, <4>1
    <3>11. l[i] = g[m] \o (h[i - 1] \o q[i])
      BY <3>4, <3>6
    <3> QED
      BY <3>8, <3>10, <3>11
  <2> QED
    BY <2>1 DEF SameSteps
<1>13. k[n] = l[n]
  <2>1. n \in 0 .. n
    OBVIOUS
  <2> QED
    BY <1>11, <1>12, <2>1, StayTheSame
<1>14. k[n] = f[m + n] /\ l[n] = g[m] \o h[n]
  <2>1. n \in 0 .. n
    OBVIOUS
  <2> QED
    BY <1>8, <1>9, <2>1
<1>15. FlattenSeq(both) = FlattenSeq(p) \o FlattenSeq(q)
  BY <1>4, <1>5, <1>6, <1>13, <1>14, Zenon
<1> QED
  BY <1>3, <1>15 DEF Together

LEMMA OnePart ==
  ASSUME NEW S, NEW s \in Seq(S)
  PROVE  AreParts(S, <<s>>) /\ FlattenSeq(<<s>>) = s
<1>1. AreParts(S, <<s>>)
  BY DEF AreParts
<1>2. PICK f : Flattening(Seq(S), <<s>>, 1, f) /\ FlattenSeq(<<s>>) = f[1]
  <2>1. Len(<<s>>) = 1
    OBVIOUS
  <2> QED
    BY <1>1, <2>1, FlattenFacts DEF Flattens
<1>3. f[1] = <<>> \o s
  <2>1. 1 \in 1 .. 1 /\ 1 - 1 = 0 /\ <<s>>[1] = s
    OBVIOUS
  <2> QED
    BY <1>2, <2>1 DEF Flattening
<1> QED
  BY <1>1, <1>2, <1>3, ConcatEmptySeq

LEMMA NoParts == \A S : AreParts(S, <<>>)
  BY DEF AreParts

-----------------------------------------------------------------------------
(* Documents: what they are made of                                        *)

DocumentNames ==
  {"AccessControlPolicy", "Owner", "ID", "DisplayName", "AccessControlList", "Grant", "Grantee",
   "EmailAddress", "URI", "Permission", "BucketLoggingStatus", "LoggingEnabled", "TargetBucket",
   "TargetPrefix", "TargetGrants", "AllUsers"}

GrantSigns(g) == Range(g.id) \cup Range(g.name) \cup {g.granteeType, g.permission}

HeadSigns(head) == Range(head[1]) \cup Range(head[2])

Signs ==
  DocumentNames
  \cup (UNION {GrantSigns(g) : g \in ProgramGrants \cup ForeignGrants})
  \cup (UNION {HeadSigns(head) : head \in Heads})

Units == [tag : {"start", "end", "char"}, what : Signs]

\* What append has written if the pieces so far are these.
Written(units) ==
  [text   |-> SubSeq(units, 1, Shorter(Len(units), DocumentSize - 2)),
   len    |-> Len(units),
   status |-> "OK"]

TooLargeDocuments == [text : Seq(Units), len : Nat, status : {"XmlDocumentTooLarge"}]

LEMMA Beginning ==
  ASSUME NEW S, NEW s \in Seq(S), NEW m \in Nat, m <= Len(s)
  PROVE  /\ SubSeq(s, 1, m) \in Seq(S) /\ Len(SubSeq(s, 1, m)) = m
         /\ \A i \in 1 .. m : SubSeq(s, 1, m)[i] = s[i]
<1>1. \A i \in 1 .. m : s[i] \in S
  <2>1. \A i \in 1 .. m : i \in 1 .. Len(s)
    OBVIOUS
  <2> QED
    BY <2>1, ElementOfSeq
<1>2. /\ SubSeq(s, 1, m) \in Seq(S)
      /\ Len(SubSeq(s, 1, m)) = IF 1 <= m THEN m - 1 + 1 ELSE 0
      /\ \A i \in 1 .. m - 1 + 1 : SubSeq(s, 1, m)[i] = s[1 + i - 1]
  BY <1>1, SubSeqProperties
<1>3. Len(SubSeq(s, 1, m)) = m /\ \A i \in 1 .. m : SubSeq(s, 1, m)[i] = s[i]
  BY <1>2
<1> QED
  BY <1>2, <1>3

\* Cutting what is put together is putting together what is cut.
LEMMA CutJoined ==
  ASSUME NEW S, NEW s \in Seq(S), NEW t \in Seq(S), NEW m \in Nat, m <= Len(t)
  PROVE  s \o SubSeq(t, 1, m) = SubSeq(s \o t, 1, Len(s) + m)
<1>1. PICK a \in Nat, b \in Nat : a = Len(s) /\ b = Len(t)
  OBVIOUS
<1>3. m <= b
  BY <1>1
<1>4. PICK p : p = SubSeq(t, 1, m)
  OBVIOUS
<1>5. p \in Seq(S) /\ Len(p) = m /\ \A i \in 1 .. m : p[i] = t[i]
  BY <1>1, <1>3, <1>4, Beginning
<1>6. PICK both : both = s \o t
  OBVIOUS
<1>7. /\ both \in Seq(S) /\ Len(both) = a + b
      /\ \A i \in 1 .. a + b : both[i] = IF i <= a THEN s[i] ELSE t[i - a]
  BY <1>1, <1>6, ConcatProperties
<1>8. PICK q : q = SubSeq(both, 1, a + m)
  OBVIOUS
<1>9. q \in Seq(S) /\ Len(q) = a + m /\ \A i \in 1 .. a + m : q[i] = both[i]
  <2>1. a + m \in Nat /\ a + m <= Len(both)
    BY <1>3, <1>7
  <2> QED
    BY <1>7, <1>8, <2>1, Beginning
<1>10. PICK r : r = s \o p
  OBVIOUS
<1>11. /\ r \in Seq(S) /\ Len(r) = a + m
       /\ \A i \in 1 .. a + m : r[i] = IF i <= a THEN s[i] ELSE p[i - a]
  BY <1>1, <1>5, <1>10, ConcatProperties
<1>12. ASSUME NEW i \in 1 .. a + m PROVE r[i] = q[i]
  <2>1. i \in 1 .. a + b
    BY <1>3
  <2>2. CASE i <= a
    BY <1>7, <1>9, <1>11, <2>1, <2>2
  <2>3. CASE ~(i <= a)
    <3>1. i - a \in 1 .. m
      BY <2>3
    <3>2. r[i] = p[i - a] /\ q[i] = t[i - a]
      BY <1>7, <1>9, <1>11, <2>1, <2>3
    <3> QED
      BY <1>5, <3>1, <3>2
  <2> QED
    BY <2>2, <2>3
<1>13. r = q
  BY <1>9, <1>11, <1>12, SeqEqual
<1> QED
  BY <1>1, <1>4, <1>6, <1>8, <1>10, <1>13

LEMMA AppendWrites ==
  ASSUME NEW units \in Seq(Units), Len(units) < DocumentSize, NEW piece \in Seq(Units)
  PROVE  /\ Len(units \o piece) < DocumentSize =>
              append(Written(units), piece) = Written(units \o piece)
         /\ ~(Len(units \o piece) < DocumentSize) =>
              append(Written(units), piece) \in TooLargeDocuments
<1>1. PICK a \in Nat, b \in Nat, D \in Nat \ {0, 1} :
        a = Len(units) /\ b = Len(piece) /\ D = DocumentSize
  BY AccessControlAssumption
<1>2. PICK both \in Seq(Units) : both = units \o piece /\ Len(both) = a + b
  BY <1>1, ConcatProperties
<1>3. PICK text \in Seq(Units) : text = SubSeq(units, 1, Shorter(a, D - 2))
  <2>1. PICK m \in Nat : m = Shorter(a, D - 2) /\ m <= a
    BY DEF Shorter
  <2> QED
    BY <1>1, <2>1, Beginning
<1>4. Written(units) = [text |-> text, len |-> a, status |-> "OK"]
  BY <1>1, <1>3 DEF Written
<1>5. append(Written(units), piece) =
        [text   |-> Snprintf(text, a, D - a - 1, piece),
         len    |-> a + b,
         status |-> IF a + b >= D THEN "XmlDocumentTooLarge" ELSE "OK"]
  BY <1>1, <1>4 DEF append
<1>6. a < D
  BY <1>1
<1>7. \/ Snprintf(text, a, D - a - 1, piece) = SubSeq(both, 1, Shorter(a + b, D - 2))
      \/ a = D - 1 /\ Snprintf(text, a, D - a - 1, piece) = text
  <2>1. CASE a = D - 1
    BY <2>1 DEF Snprintf
  <2>2. CASE a # D - 1
    <3>1. a <= D - 2 /\ D - 2 \in Nat /\ D - a - 1 # 0 /\ Shorter(a, D - 2) = a
          /\ D - a - 1 - 1 = D - 2 - a
      BY <1>6, <2>2 DEF Shorter
    <3>2. text = units
      BY <1>1, <1>3, <3>1, SubSeqFull
    <3>3. Snprintf(text, a, D - a - 1, piece)
            = SubSeq(units, 1, a) \o SubSeq(piece, 1, Shorter(D - 2 - a, b))
      BY <1>1, <3>1, <3>2 DEF Snprintf
    <3>4. PICK m \in Nat : /\ m = Shorter(D - 2 - a, b) /\ m <= b
                           /\ a + m = Shorter(a + b, D - 2)
      BY <3>1 DEF Shorter
    <3>5. units \o SubSeq(piece, 1, m) = SubSeq(units \o piece, 1, Len(units) + m)
      BY <1>1, <3>4, CutJoined
    <3>6. SubSeq(units, 1, a) = units
      BY <1>1, SubSeqFull
    <3>7. Snprintf(text, a, D - a - 1, piece) = units \o SubSeq(piece, 1, m)
      BY <3>3, <3>4, <3>6
    <3>8. SubSeq(both, 1, Shorter(a + b, D - 2)) = SubSeq(units \o piece, 1, Len(units) + m)
      BY <1>1, <1>2, <3>4
    <3> QED
      BY <3>5, <3>7, <3>8
  <2> QED
    BY <2>1, <2>2
<1>8. CASE a + b < D
  <2>1. Snprintf(text, a, D - a - 1, piece) = SubSeq(both, 1, Shorter(a + b, D - 2))
    <3>1. CASE a = D - 1
      <4>1. b = 0
        BY <1>8, <3>1
      <4>2. piece = <<>>
        BY <1>1, <4>1, EmptySeq
      <4>3. both = units
        BY <1>2, <4>2, ConcatEmptySeq
      <4> QED
        BY <1>3, <1>7, <3>1, <4>1, <4>3
    <3> QED
      BY <1>7, <3>1
  <2>2. ~(a + b >= D)
    BY <1>8
  <2>3. append(Written(units), piece) = Written(both)
    BY <1>1, <1>2, <1>5, <2>1, <2>2 DEF Written
  <2> QED
    BY <1>1, <1>2, <1>8, <2>3
<1>9. CASE ~(a + b < D)
  <2>1. a + b >= D /\ a + b \in Nat /\ D - 2 \in Nat
    BY <1>9
  <2>2. Snprintf(text, a, D - a - 1, piece) \in Seq(Units)
    <3>1. SubSeq(both, 1, Shorter(a + b, D - 2)) \in Seq(Units)
      <4>1. PICK m \in Nat : m = Shorter(a + b, D - 2) /\ m <= a + b
        BY <2>1 DEF Shorter
      <4> QED
        BY <1>2, <4>1, Beginning
    <3> QED
      BY <1>7, <3>1
  <2>3. append(Written(units), piece) \in TooLargeDocuments
    BY <1>5, <2>1, <2>2 DEF TooLargeDocuments
  <2> QED
    BY <1>1, <1>2, <1>9, <2>3
<1> QED
  BY <1>8, <1>9

LEMMA EmptyWritten ==
  /\ <<>> \in Seq(Units) /\ Len(<<>>) = 0
  /\ [text |-> <<>>, len |-> 0, status |-> "OK"] = Written(<<>>)
<1>1. <<>> \in Seq(Units) /\ Len(<<>>) = 0
  OBVIOUS
<1>2. SubSeq(<<>>, 1, Shorter(0, DocumentSize - 2)) = <<>>
  <2>1. Shorter(0, DocumentSize - 2) \in Int /\ Shorter(0, DocumentSize - 2) < 1
    BY AccessControlAssumption DEF Shorter
  <2> QED
    BY <2>1, SubSeqEmpty
<1> QED
  BY <1>1, <1>2 DEF Written

\* What generateXmlDocument computes from these pieces.
LEMMA AllWritten ==
  ASSUME NEW pieces, AreParts(Units, pieces)
  PROVE  LET doc[n \in 0 .. Len(pieces)] ==
               IF n = 0 THEN [text |-> <<>>, len |-> 0, status |-> "OK"]
               ELSE append(doc[n - 1], pieces[n])
         IN  IF Len(FlattenSeq(pieces)) < DocumentSize
             THEN doc[Len(pieces)] = Written(FlattenSeq(pieces))
             ELSE doc[Len(pieces)] \in TooLargeDocuments
<1>1. PICK len \in Nat : len = Len(pieces) /\ pieces \in [1 .. len -> Seq(Units)]
  BY DEF AreParts
<1>2. PICK flat : Flattening(Seq(Units), pieces, len, flat) /\ FlattenSeq(pieces) = flat[len]
  BY <1>1, FlattenFacts DEF Flattens
<1>3. PICK whole : whole = FlattenSeq(pieces)
  OBVIOUS
<1> DEFINE Step(g, n) == IF n = 0 THEN [text |-> <<>>, len |-> 0, status |-> "OK"]
                         ELSE append(g[n - 1], pieces[n])
           IsDoc(g) == g = [n \in 0 .. len |-> Step(g, n)]
           Good(n, d) == IF Len(flat[n]) < DocumentSize THEN d = Written(flat[n])
                         ELSE d \in TooLargeDocuments
           doc == CHOOSE g : IsDoc(g)
<1>4. \A n \in 0 .. len : flat[n] \in Seq(Units) /\ Len(flat[n]) \in Nat
  BY <1>2 DEF Flattening
<1>5. ASSUME NEW n \in 1 .. len, NEW d, Good(n - 1, d) PROVE Good(n, append(d, pieces[n]))
  <2>1. n - 1 \in 0 .. len /\ n \in 0 .. len /\ pieces[n] \in Seq(Units)
    BY <1>1
  <2>2. PICK before \in Seq(Units), piece \in Seq(Units) : before = flat[n - 1] /\ piece = pieces[n]
    BY <1>4, <2>1
  <2>3. flat[n] = before \o piece
    BY <1>2, <2>2 DEF Flattening
  <2>4. Len(before \o piece) = Len(before) + Len(piece) /\ Len(before) \in Nat /\ Len(piece) \in Nat
    BY ConcatProperties
  <2>5. CASE Len(before) < DocumentSize
    <3>1. d = Written(before)
      BY <1>5, <2>2, <2>5
    <3>2. /\ Len(before \o piece) < DocumentSize =>
               append(Written(before), piece) = Written(before \o piece)
          /\ ~(Len(before \o piece) < DocumentSize) =>
               append(Written(before), piece) \in TooLargeDocuments
      BY <2>5, AppendWrites
    <3> QED
      BY <2>2, <2>3, <3>1, <3>2
  <2>6. CASE ~(Len(before) < DocumentSize)
    <3>1. d \in TooLargeDocuments
      BY <1>5, <2>2, <2>6
    <3>2. append(d, piece) = d
      BY <3>1 DEF append, TooLargeDocuments
    <3>3. ~(Len(flat[n]) < DocumentSize)
      BY <2>3, <2>4, <2>6, AccessControlAssumption
    <3> QED
      BY <2>2, <3>1, <3>2, <3>3
  <2> QED
    BY <2>5, <2>6
<1>6. Good(0, [text |-> <<>>, len |-> 0, status |-> "OK"])
  <2>1. flat[0] = <<>> /\ 0 < DocumentSize
    BY <1>2, AccessControlAssumption DEF Flattening
  <2> QED
    BY <2>1, EmptyWritten
<1>7. \E g : IsDoc(g)
  <2> DEFINE X == {d \in {Written(s) : s \in Seq(Units)} \cup TooLargeDocuments :
                     \E n \in 0 .. len : Good(n, d)}
             first == [text |-> <<>>, len |-> 0, status |-> "OK"]
             step == [n \in 1 .. len |->
                        [d \in X |-> IF Good(n - 1, d) THEN append(d, pieces[n]) ELSE first]]
  <2>1. ASSUME NEW n \in 0 .. len, NEW d, Good(n, d) PROVE d \in X
    BY <1>4, <2>1
  <2>2. first \in X
    BY <1>6, <2>1
  <2>3. step \in [1 .. len -> [X -> X]]
    <3>1. ASSUME NEW n \in 1 .. len, NEW d \in X
          PROVE  (IF Good(n - 1, d) THEN append(d, pieces[n]) ELSE first) \in X
      <4>1. CASE Good(n - 1, d)
        <5>1. Good(n, append(d, pieces[n])) /\ n \in 0 .. len
          BY <1>5, <4>1
        <5>2. append(d, pieces[n]) \in X
          BY <2>1, <5>1
        <5> QED
          BY <4>1, <5>2
      <4> QED
        BY <2>2, <4>1
    <3> HIDE DEF X, Good, first
    <3> QED
      BY <3>1
  <2>4. \A n \in 1 .. len, d \in X : Good(n - 1, d) => step[n][d] = append(d, pieces[n])
    <3> HIDE DEF X, Good, first
    <3> QED
      OBVIOUS
  <2> HIDE DEF step, X, Good
  <2>5. PICK f : BuiltUp(X, first, len, step, f)
    BY <2>2, <2>3, Recursion
  <2>6. ASSUME NEW n \in 1 .. len, Good(n - 1, f[n - 1])
        PROVE  Good(n, f[n]) /\ f[n] = append(f[n - 1], pieces[n])
    <3>1. f[n] = step[n][f[n - 1]] /\ f[n - 1] \in X
      BY <2>5 DEF BuiltUp
    <3>2. f[n] = append(f[n - 1], pieces[n])
      BY <2>4, <2>6, <3>1
    <3> QED
      BY <1>5, <2>6, <3>2
  <2>7. \A n \in 0 .. len : Good(n, f[n])
    <3> DEFINE T == {n \in Nat : n <= len => Good(n, f[n])}
    <3>1. 0 \in T
      BY <1>6, <2>5 DEF BuiltUp
    <3>2. ASSUME NEW n \in T PROVE n + 1 \in T
      <4> SUFFICES ASSUME n + 1 <= len PROVE Good(n + 1, f[n + 1])
        OBVIOUS
      <4>1. PICK m : m = n + 1
        OBVIOUS
      <4>2. m \in 1 .. len /\ m - 1 = n /\ Good(n, f[n])
        BY <4>1
      <4>3. Good(m, f[m])
        BY <2>6, <4>2
      <4> QED
        BY <4>1, <4>3
    <3>3. T = Nat
      <4>1. T \in SUBSET Nat /\ \A n \in T : n + 1 \in T
        BY <3>2
      <4> HIDE DEF T
      <4> QED
        BY <3>1, <4>1, AllNumbers
    <3> QED
      BY <3>3
  <2>8. PICK g : g = [n \in 0 .. len |-> f[n]]
    OBVIOUS
  <2>9. \A n \in 0 .. len : g[n] = Step(g, n)
    <3>1. g[0] = first
      BY <2>5, <2>8 DEF BuiltUp
    <3>2. ASSUME NEW n \in 1 .. len PROVE g[n] = append(g[n - 1], pieces[n])
      <4>1. n \in 0 .. len /\ n - 1 \in 0 .. len
        OBVIOUS
      <4>2. f[n] = append(f[n - 1], pieces[n])
        BY <2>6, <2>7, <4>1
      <4> QED
        BY <2>8, <4>1, <4>2
    <3> QED
      BY <3>1, <3>2
  <2> HIDE DEF Step
  <2>10. IsDoc(g)
    BY <2>8, <2>9
  <2> QED
    BY <2>10
<1>8. PICK d : d = doc
  OBVIOUS
<1>9. \A n \in 0 .. len : d[n] = Step(d, n)
  <2>1. IsDoc(doc)
    <3> HIDE DEF IsDoc
    <3> QED
      BY <1>7
  <2> HIDE DEF Step, doc
  <2> QED
    BY <1>8, <2>1
<1> HIDE DEF Good
<1>10. \A n \in 0 .. len : Good(n, d[n])
  <2> DEFINE T == {n \in Nat : n <= len => Good(n, d[n])}
  <2>1. 0 \in T
    BY <1>6, <1>9
  <2>2. ASSUME NEW n \in T PROVE n + 1 \in T
    <3> SUFFICES ASSUME n + 1 <= len PROVE Good(n + 1, d[n + 1])
      OBVIOUS
    <3>1. PICK m : m = n + 1
      OBVIOUS
    <3>2. m \in 1 .. len /\ m \in 0 .. len /\ m # 0 /\ m - 1 = n /\ Good(n, d[n])
      BY <3>1
    <3>3. d[m] = append(d[m - 1], pieces[m])
      BY <1>9, <3>2
    <3>4. Good(m, d[m])
      BY <1>5, <3>2, <3>3
    <3> QED
      BY <3>1, <3>4
  <2>3. T = Nat
    <3>1. T \in SUBSET Nat /\ \A n \in T : n + 1 \in T
      BY <2>2
    <3> HIDE DEF T
    <3> QED
      BY <2>1, <3>1, AllNumbers
  <2> QED
    BY <2>3
<1>11. Good(len, d[len])
  BY <1>10
<1>12. Good(len, doc[len])
  BY <1>8, <1>11
<1> QED
  BY <1>1, <1>2, <1>12 DEF Good

-----------------------------------------------------------------------------
(* The document of a list of grants, as libs3 and others write it          *)

GrantRecords ==
  [granteeType : Signs, id : Seq(Signs), name : Seq(Signs), permission : Signs]

LEMMA NamesAreSigns == DocumentNames \subseteq Signs
  BY DEF Signs

LEMMA TagsTyped ==
  ASSUME NEW name \in Signs
  PROVE  Start(name) \in Seq(Units) /\ End(name) \in Seq(Units)
<1>1. [tag |-> "start", what |-> name] \in Units /\ [tag |-> "end", what |-> name] \in Units
  BY DEF Units
<1> QED
  BY <1>1 DEF Start, End

LEMMA TextTyped ==
  ASSUME NEW str \in Seq(Signs)
  PROVE  /\ Text(str) \in Seq(Units) /\ Len(Text(str)) = Len(str)
         /\ \A i \in 1 .. Len(str) : Text(str)[i] = [tag |-> "char", what |-> str[i]]
<1>1. PICK n \in Nat : n = Len(str) /\ DOMAIN str = 1 .. n
  OBVIOUS
<1>2. \A i \in 1 .. n : [tag |-> "char", what |-> str[i]] \in Units
  BY <1>1 DEF Units
<1>3. PICK t : t = Text(str)
  OBVIOUS
<1>4. t \in [1 .. n -> Units] /\ \A i \in 1 .. n : t[i] = [tag |-> "char", what |-> str[i]]
  BY <1>1, <1>2, <1>3 DEF Text
<1>5. t \in Seq(Units) /\ Len(t) = n
  BY <1>4
<1> QED
  BY <1>1, <1>3, <1>4, <1>5

LEMMA ElementTyped ==
  ASSUME NEW name \in Signs, NEW str \in Seq(Signs)
  PROVE  Element(name, str) \in Seq(Units)
<1>1. Start(name) \in Seq(Units) /\ End(name) \in Seq(Units) /\ Text(str) \in Seq(Units)
  BY TagsTyped, TextTyped
<1>2. Start(name) \o Text(str) \in Seq(Units)
  BY <1>1, ConcatProperties
<1> QED
  BY <1>1, <1>2, ConcatProperties DEF Element

LEMMA PartsAreSeq ==
  ASSUME NEW S, NEW x
  PROVE  AreParts(S, x) <=> x \in Seq(Seq(S))
<1>1. PICK T : T = Seq(S)
  OBVIOUS
<1>2. Len(x) \in Nat /\ x \in [1 .. Len(x) -> T] => x \in Seq(T)
  OBVIOUS
<1>3. x \in Seq(T) => Len(x) \in Nat /\ x \in [1 .. Len(x) -> T]
  BY LenProperties
<1> QED
  BY <1>1, <1>2, <1>3 DEF AreParts

LEMMA ThreeParts ==
  ASSUME NEW S, NEW a \in Seq(S), NEW b \in Seq(S), NEW c \in Seq(S)
  PROVE  /\ AreParts(S, <<a, b, c>>)
         /\ \A flat : flat = (a \o b) \o c => FlattenSeq(<<a, b, c>>) = flat
<1>1. PICK x : x = <<a>> \o <<b>>
  OBVIOUS
<1>2. PICK y : y = x \o <<c>>
  OBVIOUS
<1>3. /\ AreParts(S, <<a>>) /\ FlattenSeq(<<a>>) = a
      /\ AreParts(S, <<b>>) /\ FlattenSeq(<<b>>) = b
      /\ AreParts(S, <<c>>) /\ FlattenSeq(<<c>>) = c
  BY OnePart
<1>4. AreParts(S, x) /\ FlattenSeq(x) = a \o b
  <2>1. PICK p, q : p = <<a>> /\ q = <<b>>
    OBVIOUS
  <2>2. AreParts(S, p) /\ AreParts(S, q) /\ FlattenSeq(p) = a /\ FlattenSeq(q) = b
    BY <1>3, <2>1
  <2>3. Together(p, q, x)
    BY <1>1, <2>1 DEF Together
  <2>4. AreParts(S, x) /\ Together(FlattenSeq(p), FlattenSeq(q), FlattenSeq(x))
    BY <2>2, <2>3, FlattenJoined
  <2> QED
    BY <2>2, <2>4 DEF Together
<1>5. AreParts(S, y) /\ FlattenSeq(y) = (a \o b) \o c
  <2>1. PICK q : q = <<c>>
    OBVIOUS
  <2>2. AreParts(S, x) /\ AreParts(S, q) /\ FlattenSeq(q) = c
    BY <1>3, <1>4, <2>1
  <2>3. Together(x, q, y)
    BY <1>2, <2>1 DEF Together
  <2>4. AreParts(S, y) /\ Together(FlattenSeq(x), FlattenSeq(q), FlattenSeq(y))
    BY <2>2, <2>3, FlattenJoined
  <2> QED
    BY <1>4, <2>2, <2>4 DEF Together
<1>6. Len(x) = 2 /\ x[1] = a /\ x[2] = b
  <2>1. Len(<<a>>) = 1 /\ Len(<<b>>) = 1 /\ <<a>>[1] = a /\ <<b>>[1] = b
    OBVIOUS
  <2>2. /\ Len(x) = 1 + 1
        /\ \A i \in 1 .. 1 : x[i] = <<a>>[i]
        /\ \A i \in 1 .. 1 : x[1 + i] = <<b>>[i]
    BY <1>1, <1>3, <2>1, PartsJoined
  <2> QED
    BY <2>1, <2>2
<1>7. Len(y) = 3 /\ y[1] = a /\ y[2] = b /\ y[3] = c
  <2>1. Len(<<c>>) = 1 /\ <<c>>[1] = c
    OBVIOUS
  <2>a. PICK q : q = <<c>>
    OBVIOUS
  <2>b. AreParts(S, x) /\ AreParts(S, q)
    BY <1>3, <1>4, <2>a
  <2>c. /\ Len(x \o q) = Len(x) + Len(q)
        /\ \A i \in 1 .. Len(x) : (x \o q)[i] = x[i]
        /\ \A i \in 1 .. Len(q) : (x \o q)[Len(x) + i] = q[i]
    BY <2>b, PartsJoined
  <2>d. y = x \o q /\ Len(q) = 1 /\ q[1] = c
    BY <1>2, <2>1, <2>a
  <2>2. /\ Len(y) = 2 + 1
        /\ \A i \in 1 .. 2 : y[i] = x[i]
        /\ \A i \in 1 .. 1 : y[2 + i] = q[i]
    BY <1>6, <2>c, <2>d
  <2>3. y[1] = x[1] /\ y[2] = x[2] /\ y[2 + 1] = c
    BY <2>d, <2>2
  <2> QED
    BY <1>6, <2>2, <2>3
<1>8. y = <<a, b, c>>
  <2>1. PICK T : T = Seq(S)
    OBVIOUS
  <2>2. y \in Seq(T) /\ a \in T /\ b \in T /\ c \in T
    BY <1>5, <2>1, PartsAreSeq
  <2>3. y \in [1 .. 3 -> T]
    BY <1>7, <2>2, LenProperties
  <2>4. \A i \in 1 .. 3 : y[i] = <<a, b, c>>[i]
    BY <1>7
  <2> QED
    BY <2>3, <2>4
<1> QED
  BY <1>5, <1>8

LEMMA GranteeTyped ==
  ASSUME NEW by, NEW grant \in GrantRecords
  PROVE  GranteePiece(by, grant) \in Seq(Units)
<1>1. /\ grant.granteeType \in Signs /\ grant.id \in Seq(Signs) /\ grant.name \in Seq(Signs)
  BY DEF GrantRecords
<1>2. Element("EmailAddress", grant.id) \in Seq(Units)
  BY <1>1, ElementTyped, NamesAreSigns DEF DocumentNames
<1>3. Element("ID", grant.id) \o Element("DisplayName", grant.name) \in Seq(Units)
  <2>1. Element("ID", grant.id) \in Seq(Units)
    BY <1>1, ElementTyped, NamesAreSigns DEF DocumentNames
  <2>2. Element("DisplayName", grant.name) \in Seq(Units)
    BY <1>1, ElementTyped, NamesAreSigns DEF DocumentNames
  <2> QED
    BY <2>1, <2>2, ConcatProperties
<1>4. Element("URI", <<GroupUri(by, grant.granteeType)>>) \in Seq(Units)
  <2>1. GroupUri(by, grant.granteeType) \in Signs
    BY <1>1, NamesAreSigns DEF GroupUri, DocumentNames
  <2>2. <<GroupUri(by, grant.granteeType)>> \in Seq(Signs)
    BY <2>1
  <2> QED
    BY <2>2, ElementTyped, NamesAreSigns DEF DocumentNames
<1> QED
  BY <1>2, <1>3, <1>4 DEF GranteePiece

\* The units of one grant.
GrantUnits(by, grant) ==
  ((Start("Grant") \o Start("Grantee")) \o GranteePiece(by, grant))
  \o (End("Grantee") \o Element("Permission", <<grant.permission>>) \o End("Grant"))

LEMMA GrantTyped ==
  ASSUME NEW by, NEW grant \in GrantRecords
  PROVE  /\ AreParts(Units, GrantPieces(by, grant))
         /\ FlattenSeq(GrantPieces(by, grant)) = GrantUnits(by, grant)
<1>1. Start("Grant") \o Start("Grantee") \in Seq(Units)
  <2>1. Start("Grant") \in Seq(Units) /\ Start("Grantee") \in Seq(Units)
    BY TagsTyped, NamesAreSigns DEF DocumentNames
  <2> QED
    BY <2>1, ConcatProperties
<1>2. GranteePiece(by, grant) \in Seq(Units)
  BY GranteeTyped
<1>3. End("Grantee") \o Element("Permission", <<grant.permission>>) \o End("Grant") \in Seq(Units)
  <2>1. <<grant.permission>> \in Seq(Signs)
    BY DEF GrantRecords
  <2>2. Element("Permission", <<grant.permission>>) \in Seq(Units)
    BY <2>1, ElementTyped, NamesAreSigns DEF DocumentNames
  <2>3. End("Grantee") \in Seq(Units) /\ End("Grant") \in Seq(Units)
    BY TagsTyped, NamesAreSigns DEF DocumentNames
  <2>4. End("Grantee") \o Element("Permission", <<grant.permission>>) \in Seq(Units)
    BY <2>2, <2>3, ConcatProperties
  <2> QED
    BY <2>3, <2>4, ConcatProperties
<1>4. PICK a \in Seq(Units), b \in Seq(Units), c \in Seq(Units) :
        /\ a = Start("Grant") \o Start("Grantee") /\ b = GranteePiece(by, grant)
        /\ c = End("Grantee") \o Element("Permission", <<grant.permission>>) \o End("Grant")
  BY <1>1, <1>2, <1>3
<1>a. PICK flat : flat = (a \o b) \o c
  OBVIOUS
<1>5. AreParts(Units, <<a, b, c>>) /\ FlattenSeq(<<a, b, c>>) = flat
  BY <1>a, ThreeParts
<1>6. GrantPieces(by, grant) = <<a, b, c>>
  BY <1>4 DEF GrantPieces
<1>7. GrantUnits(by, grant) = (a \o b) \o c
  BY <1>4 DEF GrantUnits
<1> QED
  BY <1>a, <1>5, <1>6, <1>7

LEMMA GrantsTyped ==
  ASSUME NEW by, NEW gs \in Seq(GrantRecords)
  PROVE  AreParts(Units, AllGrantPieces(by, gs))
<1>1. PICK T : T = Seq(Units)
  OBVIOUS
<1>2. PICK n \in Nat : n = Len(gs) /\ DOMAIN gs = 1 .. n /\ \A i \in 1 .. n : gs[i] \in GrantRecords
  OBVIOUS
<1>3. PICK x : x = [i \in 1 .. n |-> GrantPieces(by, gs[i])]
  OBVIOUS
<1>4. ASSUME NEW i \in 1 .. n PROVE x[i] \in Seq(T)
  <2>1. x[i] = GrantPieces(by, gs[i]) /\ gs[i] \in GrantRecords
    BY <1>2, <1>3
  <2>2. AreParts(Units, x[i])
    BY <2>1, GrantTyped
  <2> QED
    BY <1>1, <2>2, PartsAreSeq
<1>5. AreParts(T, x)
  <2>1. PICK Q : Q = Seq(T)
    OBVIOUS
  <2>2. x \in [1 .. n -> Q]
    BY <1>3, <1>4, <2>1
  <2>3. Len(x) = n
    BY <1>3
  <2> QED
    BY <2>1, <2>2, <2>3 DEF AreParts
<1>6. FlattenSeq(x) \in Seq(T)
  BY <1>5, FlattenIsSeq
<1>7. AllGrantPieces(by, gs) = FlattenSeq(x)
  BY <1>2, <1>3 DEF AllGrantPieces
<1> QED
  BY <1>1, <1>6, <1>7, PartsAreSeq

LEMMA OneGrantMore ==
  ASSUME NEW by, NEW gs \in Seq(GrantRecords), NEW g \in GrantRecords
  PROVE  AllGrantPieces(by, Append(gs, g)) = AllGrantPieces(by, gs) \o GrantPieces(by, g)
<1>1. PICK T : T = Seq(Units)
  OBVIOUS
<1>2. PICK n \in Nat : n = Len(gs) /\ DOMAIN gs = 1 .. n /\ \A i \in 1 .. n : gs[i] \in GrantRecords
  OBVIOUS
<1>3. PICK x : x = [i \in 1 .. n |-> GrantPieces(by, gs[i])]
  OBVIOUS
<1>4. ASSUME NEW i \in 1 .. n PROVE x[i] \in Seq(T)
  <2>1. x[i] = GrantPieces(by, gs[i]) /\ gs[i] \in GrantRecords
    BY <1>2, <1>3
  <2>2. AreParts(Units, x[i])
    BY <2>1, GrantTyped
  <2> QED
    BY <1>1, <2>2, PartsAreSeq
<1>5. AreParts(T, x) /\ Len(x) = n
  <2>1. PICK Q : Q = Seq(T)
    OBVIOUS
  <2>2. x \in [1 .. n -> Q]
    BY <1>3, <1>4, <2>1
  <2>3. Len(x) = n
    BY <1>3
  <2> QED
    BY <2>1, <2>2, <2>3 DEF AreParts
<1>6. PICK p : p = GrantPieces(by, g) /\ p \in Seq(T)
  BY <1>1, GrantTyped, PartsAreSeq
<1>7. PICK more : /\ more = Append(gs, g) /\ Len(more) = n + 1 /\ more \in Seq(GrantRecords)
                  /\ (\A i \in 1 .. n : more[i] = gs[i]) /\ more[n + 1] = g
  BY <1>2, AppendProperties
<1>8. PICK y : y = Append(x, p)
  OBVIOUS
<1>9. /\ AreParts(T, y) /\ Len(y) = n + 1 /\ (\A i \in 1 .. n : y[i] = x[i]) /\ y[n + 1] = p
      /\ FlattenSeq(y) = FlattenSeq(x) \o p
  <2>1. AreParts(T, x) /\ p \in Seq(T)
    BY <1>5, <1>6
  <2>2. AreParts(T, Append(x, p)) /\ FlattenSeq(Append(x, p)) = FlattenSeq(x) \o p
    BY <2>1, FlattenAppend
  <2>3. /\ Len(Append(x, p)) = Len(x) + 1
        /\ \A i \in 1 .. Len(x) : Append(x, p)[i] = x[i]
        /\ Append(x, p)[Len(x) + 1] = p
    BY <2>1, PartsAppended
  <2> QED
    BY <1>5, <1>8, <2>2, <2>3
<1>10. PICK z : z = [i \in 1 .. n + 1 |-> GrantPieces(by, more[i])]
  OBVIOUS
<1>11. y = z
  <2>1. PICK Q : Q = Seq(T)
    OBVIOUS
  <2>2. y \in [1 .. n + 1 -> Q]
    BY <1>9, <2>1 DEF AreParts
  <2>3. ASSUME NEW i \in 1 .. n + 1 PROVE y[i] = z[i]
    <3>1. CASE i \in 1 .. n
      BY <1>3, <1>7, <1>9, <1>10, <3>1
    <3>2. CASE i = n + 1
      BY <1>6, <1>7, <1>9, <1>10, <3>2
    <3> QED
      BY <3>1, <3>2
  <2> QED
    BY <1>10, <2>2, <2>3
<1>12. DOMAIN more = 1 .. n + 1
  BY <1>7
<1>13. AllGrantPieces(by, more) = FlattenSeq(z) /\ AllGrantPieces(by, gs) = FlattenSeq(x)
  BY <1>2, <1>3, <1>10, <1>12 DEF AllGrantPieces
<1> QED
  BY <1>6, <1>7, <1>9, <1>11, <1>13

-----------------------------------------------------------------------------
(* The whole documents of the ACL and of server access logging             *)

\* The beginning and the end of an ACL.
AclOpening(head1, head2) ==
  Start("AccessControlPolicy") \o Start("Owner") \o Element("ID", head1)
    \o Element("DisplayName", head2) \o End("Owner") \o Start("AccessControlList")

AclClosing == End("AccessControlList") \o End("AccessControlPolicy")

\* The units of all grants.
AllGrantUnits(by, gs) == FlattenSeq(AllGrantPieces(by, gs))

LEMMA AllGrantsTyped ==
  ASSUME NEW by, NEW gs \in Seq(GrantRecords)
  PROVE  AllGrantUnits(by, gs) \in Seq(Units)
  BY GrantsTyped, FlattenIsSeq DEF AllGrantUnits

LEMMA OneBehind ==
  ASSUME NEW S, NEW p, AreParts(S, p), NEW s \in Seq(S), NEW flat, flat = FlattenSeq(p)
  PROVE  /\ AreParts(S, p \o <<s>>)
         /\ Together(flat, s, FlattenSeq(p \o <<s>>))
<1>1. PICK q : q = <<s>>
  OBVIOUS
<1>2. AreParts(S, q) /\ FlattenSeq(q) = s
  BY <1>1, OnePart
<1>3. PICK both : both = p \o q
  OBVIOUS
<1>4. Together(p, q, both)
  BY <1>3 DEF Together
<1>5. AreParts(S, both) /\ Together(FlattenSeq(p), FlattenSeq(q), FlattenSeq(both))
  BY <1>2, <1>4, FlattenJoined
<1>6. both = p \o <<s>>
  BY <1>1, <1>3
<1> QED
  BY <1>2, <1>5, <1>6

LEMMA OneBefore ==
  ASSUME NEW S, NEW p, AreParts(S, p), NEW s \in Seq(S), NEW flat, flat = FlattenSeq(p)
  PROVE  /\ AreParts(S, <<s>> \o p)
         /\ Together(s, flat, FlattenSeq(<<s>> \o p))
<1>1. PICK q : q = <<s>>
  OBVIOUS
<1>2. AreParts(S, q) /\ FlattenSeq(q) = s
  BY <1>1, OnePart
<1>3. PICK both : both = q \o p
  OBVIOUS
<1>4. Together(q, p, both)
  BY <1>3 DEF Together
<1>5. AreParts(S, both) /\ Together(FlattenSeq(q), FlattenSeq(p), FlattenSeq(both))
  BY <1>2, <1>4, FlattenJoined
<1>6. both = <<s>> \o p
  BY <1>1, <1>3
<1> QED
  BY <1>2, <1>5, <1>6

LEMMA JoinedTyped ==
  ASSUME NEW S, NEW a \in Seq(S), NEW b \in Seq(S)
  PROVE  a \o b \in Seq(S) /\ \A c : Together(a, b, c) => c = a \o b /\ c \in Seq(S)
<1>1. a \o b \in Seq(S)
  BY ConcatProperties
<1> QED
  BY <1>1 DEF Together

LEMMA OpeningTyped ==
  ASSUME NEW head1 \in Seq(Signs), NEW head2 \in Seq(Signs)
  PROVE  AclOpening(head1, head2) \in Seq(Units) /\ AclClosing \in Seq(Units)
<1>1. /\ Start("AccessControlPolicy") \in Seq(Units) /\ Start("Owner") \in Seq(Units)
      /\ End("Owner") \in Seq(Units) /\ Start("AccessControlList") \in Seq(Units)
      /\ End("AccessControlList") \in Seq(Units) /\ End("AccessControlPolicy") \in Seq(Units)
  BY TagsTyped, NamesAreSigns DEF DocumentNames
<1>2. Element("ID", head1) \in Seq(Units) /\ Element("DisplayName", head2) \in Seq(Units)
  BY ElementTyped, NamesAreSigns DEF DocumentNames
<1>3. \A a, b \in Seq(Units) : a \o b \in Seq(Units)
  BY ConcatProperties
<1>4. Start("AccessControlPolicy") \o Start("Owner") \in Seq(Units)
  BY <1>1, <1>3
<1>5. Start("AccessControlPolicy") \o Start("Owner") \o Element("ID", head1) \in Seq(Units)
  BY <1>2, <1>3, <1>4
<1>6. Start("AccessControlPolicy") \o Start("Owner") \o Element("ID", head1)
        \o Element("DisplayName", head2) \in Seq(Units)
  BY <1>2, <1>3, <1>5
<1>7. Start("AccessControlPolicy") \o Start("Owner") \o Element("ID", head1)
        \o Element("DisplayName", head2) \o End("Owner") \in Seq(Units)
  BY <1>1, <1>3, <1>6
<1>8. AclOpening(head1, head2) \in Seq(Units)
  BY <1>1, <1>3, <1>7 DEF AclOpening
<1>9. AclClosing \in Seq(Units)
  BY <1>1, <1>3 DEF AclClosing
<1> QED
  BY <1>8, <1>9

LEMMA AclDocument ==
  ASSUME NEW head1 \in Seq(Signs), NEW head2 \in Seq(Signs), NEW gs \in Seq(GrantRecords)
  PROVE  /\ AreParts(Units, AclPieces(head1, head2, gs))
         /\ FlattenSeq(AclPieces(head1, head2, gs))
              = (AclOpening(head1, head2) \o AllGrantUnits("any", gs)) \o AclClosing
<1>1. PICK a \in Seq(Units), c \in Seq(Units) : a = AclOpening(head1, head2) /\ c = AclClosing
  BY OpeningTyped
<1>2. PICK p, b : /\ p = AllGrantPieces("any", gs) /\ AreParts(Units, p)
                  /\ b = FlattenSeq(p) /\ b = AllGrantUnits("any", gs)
  BY GrantsTyped DEF AllGrantUnits
<1>3. PICK x : x = <<a>> \o p
  OBVIOUS
<1>4. AreParts(Units, x) /\ Together(a, b, FlattenSeq(x))
  BY <1>2, <1>3, OneBefore
<1>5. AreParts(Units, x \o <<c>>) /\ Together(FlattenSeq(x), c, FlattenSeq(x \o <<c>>))
  BY <1>4, OneBehind
<1>6. AclPieces(head1, head2, gs) = x \o <<c>>
  BY <1>1, <1>2, <1>3 DEF AclPieces, AclOpening, AclClosing
<1> QED
  BY <1>1, <1>2, <1>4, <1>5, <1>6 DEF Together

LEMMA TwoJoined ==
  ASSUME NEW T, NEW c \in T, NEW d \in T
  PROVE  <<c>> \o <<d>> = <<c, d>>
<1>1. <<c>> \in Seq(T) /\ <<d>> \in Seq(T) /\ Len(<<c>>) = 1 /\ Len(<<d>>) = 1
  OBVIOUS
<1>2. PICK x : x = <<c>> \o <<d>>
  OBVIOUS
<1>3. /\ x \in Seq(T) /\ Len(x) = 1 + 1
      /\ \A i \in 1 .. 1 + 1 : x[i] = IF i <= 1 THEN <<c>>[i] ELSE <<d>>[i - 1]
  BY <1>1, <1>2, ConcatProperties
<1>4. x \in [1 .. 2 -> T] /\ x[1] = c /\ x[2] = d
  BY <1>3, LenProperties
<1>5. \A i \in 1 .. 2 : x[i] = <<c, d>>[i]
  BY <1>4
<1>6. x = <<c, d>>
  BY <1>4, <1>5
<1> QED
  BY <1>2, <1>6

LEMMA SalDocument ==
  ASSUME NEW by, NEW head1 \in Seq(Signs), NEW head2 \in Seq(Signs), NEW gs \in Seq(GrantRecords)
  PROVE  /\ AreParts(Units, SalPieces(by, head1, head2, gs))
         /\ head1 = <<>> =>
              FlattenSeq(SalPieces(by, head1, head2, gs))
                = Start("BucketLoggingStatus") \o End("BucketLoggingStatus")
         /\ head1 # <<>> => 
              FlattenSeq(SalPieces(by, head1, head2, gs))
                = (Start("BucketLoggingStatus")
                     \o (((((Start("LoggingEnabled") \o Element("TargetBucket", head1))
                             \o Element("TargetPrefix", head2))
                            \o (IF gs = <<>> THEN <<>>
                                ELSE (Start("TargetGrants") \o AllGrantUnits(by, gs))
                                     \o End("TargetGrants"))))
                         \o End("LoggingEnabled")))
                  \o End("BucketLoggingStatus")
         /\ \E beginning \in Seq(Units) :
              Together(beginning, End("BucketLoggingStatus"), FlattenSeq(SalPieces(by, head1, head2, gs)))
<1>1. PICK a \in Seq(Units), b \in Seq(Units) :
        a = Start("BucketLoggingStatus") /\ b = End("BucketLoggingStatus")
  BY TagsTyped, NamesAreSigns DEF DocumentNames
<1>2. CASE head1 = <<>>
  <2>1. AreParts(Units, <<a>>) /\ FlattenSeq(<<a>>) = a
    BY OnePart
  <2>2. PICK p : p = <<a>>
    OBVIOUS
  <2>3. AreParts(Units, p \o <<b>>) /\ Together(a, b, FlattenSeq(p \o <<b>>))
    BY <2>1, <2>2, OneBehind
  <2>4. SalPieces(by, head1, head2, gs) = p \o <<b>>
    <3>1. p \o <<>> = p
      <4>1. PICK T : T = Seq(Units)
        OBVIOUS
      <4>2. p \in Seq(T)
        BY <2>2, <4>1
      <4> QED
        BY <4>2, ConcatEmptySeq
    <3> QED
      BY <1>1, <1>2, <2>2, <3>1 DEF SalPieces
  <2>5. FlattenSeq(p \o <<b>>) = a \o b
    BY <2>3 DEF Together
  <2>6. \E beginning \in Seq(Units) : Together(beginning, b, FlattenSeq(p \o <<b>>))
    BY <2>3
  <2> QED
    BY <1>1, <1>2, <2>3, <2>4, <2>5, <2>6
<1>3. CASE head1 # <<>>
  <2>1. PICK c \in Seq(Units), d \in Seq(Units), e \in Seq(Units), f \in Seq(Units), g \in Seq(Units) :
          /\ c = Start("LoggingEnabled") \o Element("TargetBucket", head1)
          /\ d = Element("TargetPrefix", head2) /\ e = Start("TargetGrants")
          /\ f = End("TargetGrants") /\ g = End("LoggingEnabled")
    <3>1. /\ Start("LoggingEnabled") \in Seq(Units) /\ Start("TargetGrants") \in Seq(Units)
          /\ End("TargetGrants") \in Seq(Units) /\ End("LoggingEnabled") \in Seq(Units)
      BY TagsTyped, NamesAreSigns DEF DocumentNames
    <3>2. Element("TargetBucket", head1) \in Seq(Units) /\ Element("TargetPrefix", head2) \in Seq(Units)
      BY ElementTyped, NamesAreSigns DEF DocumentNames
    <3>3. Start("LoggingEnabled") \o Element("TargetBucket", head1) \in Seq(Units)
      BY <3>1, <3>2, ConcatProperties
    <3> QED
      BY <3>1, <3>2, <3>3
  <2>2. PICK p, h :
          /\ h \in Seq(Units)
          /\ p = (IF gs = <<>> THEN <<>> ELSE <<e>> \o AllGrantPieces(by, gs) \o <<f>>)
          /\ AreParts(Units, p) /\ h = FlattenSeq(p)
          /\ h = (IF gs = <<>> THEN <<>> ELSE (e \o AllGrantUnits(by, gs)) \o f)
    <3>1. CASE gs = <<>>
      <4>1. AreParts(Units, <<>>) /\ FlattenSeq(<<>>) = <<>> /\ <<>> \in Seq(Units)
        BY NoParts, FlattenNone
      <4> QED
        BY <3>1, <4>1
    <3>2. CASE gs # <<>>
      <4>1. PICK q, t : /\ q = AllGrantPieces(by, gs) /\ AreParts(Units, q)
                        /\ t = FlattenSeq(q) /\ t = AllGrantUnits(by, gs)
        BY GrantsTyped DEF AllGrantUnits
      <4>2. PICK x : x = <<e>> \o q
        OBVIOUS
      <4>3. AreParts(Units, x) /\ Together(e, t, FlattenSeq(x))
        BY <4>1, <4>2, OneBefore
      <4>4. PICK y : y = x \o <<f>>
        OBVIOUS
      <4>5. AreParts(Units, y) /\ Together(FlattenSeq(x), f, FlattenSeq(y))
        BY <4>3, <4>4, OneBehind
      <4>6. FlattenSeq(y) \in Seq(Units)
        BY <4>5, FlattenIsSeq
      <4>7. y = <<e>> \o AllGrantPieces(by, gs) \o <<f>>
        BY <4>1, <4>2, <4>4
      <4>8. FlattenSeq(y) = (e \o AllGrantUnits(by, gs)) \o f
        BY <4>1, <4>3, <4>5 DEF Together
      <4>9. PICK z : z = FlattenSeq(y)
        OBVIOUS
      <4>10. AreParts(Units, y) /\ z = FlattenSeq(y) /\ z \in Seq(Units)
        BY <4>5, <4>6, <4>9
      <4>11. z = (IF gs = <<>> THEN <<>> ELSE (e \o AllGrantUnits(by, gs)) \o f)
        BY <3>2, <4>8, <4>9
      <4>12. y = (IF gs = <<>> THEN <<>> ELSE <<e>> \o AllGrantPieces(by, gs) \o <<f>>)
        BY <3>2, <4>7
      <4> QED
        BY <4>10, <4>11, <4>12
    <3> QED
      BY <3>1, <3>2
  <2>3. PICK q, i :
          i \in Seq(Units) /\ q = <<c, d>> /\ AreParts(Units, q) /\ i = FlattenSeq(q) /\ i = c \o d
    <3>1. PICK x : x = <<c>>
      OBVIOUS
    <3>2. AreParts(Units, x) /\ FlattenSeq(x) = c
      BY <3>1, OnePart
    <3>3. PICK y : y = x \o <<d>>
      OBVIOUS
    <3>4. AreParts(Units, y) /\ Together(c, d, FlattenSeq(y))
      BY <3>2, <3>3, OneBehind
    <3>5. y = <<c, d>>
      <4>1. PICK T : T = Seq(Units)
        OBVIOUS
      <4> QED
        BY <3>1, <3>3, <4>1, TwoJoined
    <3>6. FlattenSeq(y) = c \o d /\ FlattenSeq(y) \in Seq(Units)
      BY <3>4, JoinedTyped
    <3>7. PICK i : i = FlattenSeq(y)
      OBVIOUS
    <3>8. i \in Seq(Units) /\ y = <<c, d>> /\ AreParts(Units, y) /\ i = FlattenSeq(y) /\ i = c \o d
      BY <3>4, <3>5, <3>6, <3>7
    <3> QED
      BY <3>8
  <2>4. PICK r : r = q \o p
    OBVIOUS
  <2>5. AreParts(Units, r) /\ Together(i, h, FlattenSeq(r))
    <3>1. Together(q, p, r)
      BY <2>4 DEF Together
    <3>2. AreParts(Units, p) /\ h = FlattenSeq(p)
      BY <2>2
    <3>3. AreParts(Units, q) /\ i = FlattenSeq(q)
      BY <2>3
    <3> QED
      BY <3>1, <3>2, <3>3, FlattenJoined
  <2>6. PICK s : s = r \o <<g>>
    OBVIOUS
  <2>7. AreParts(Units, s) /\ Together(FlattenSeq(r), g, FlattenSeq(s))
    BY <2>5, <2>6, OneBehind
  <2>8. PICK t : t = <<a>> \o s
    OBVIOUS
  <2>9. AreParts(Units, t) /\ Together(a, FlattenSeq(s), FlattenSeq(t))
    BY <2>7, <2>8, OneBefore
  <2>10. PICK u : u = t \o <<b>>
    OBVIOUS
  <2>11. AreParts(Units, u) /\ Together(FlattenSeq(t), b, FlattenSeq(u))
    BY <2>9, <2>10, OneBehind
  <2>12. u = SalPieces(by, head1, head2, gs)
    BY <1>1, <1>3, <2>1, <2>2, <2>3, <2>4, <2>6, <2>8, <2>10 DEF SalPieces
  <2>13. FlattenSeq(u) = (a \o (((c \o d) \o h) \o g)) \o b
    BY <2>3, <2>5, <2>7, <2>9, <2>11 DEF Together
  <2>14. FlattenSeq(t) \in Seq(Units)
    BY <2>9, FlattenIsSeq
  <2>15. \E beginning \in Seq(Units) : Together(beginning, b, FlattenSeq(u))
    BY <2>11, <2>14
  <2> QED
    BY <1>1, <1>3, <2>1, <2>2, <2>11, <2>12, <2>13, <2>15
<1> QED
  BY <1>2, <1>3

-----------------------------------------------------------------------------
(* What is set, and that its document consists of units                    *)

EndsWithTag(units) ==
  units \in Seq(Units) /\ units # <<>> /\ units[Len(units)].tag = "end"

LEMMA EndBehind ==
  ASSUME NEW a \in Seq(Units), NEW b, EndsWithTag(b)
  PROVE  EndsWithTag(a \o b)
<1>1. PICK m \in Nat, n \in Nat : m = Len(a) /\ n = Len(b) /\ n # 0
  BY EmptySeq DEF EndsWithTag
<1>2. PICK x : x = a \o b
  OBVIOUS
<1>3. b \in Seq(Units)
  BY DEF EndsWithTag
<1>4. /\ x \in Seq(Units) /\ Len(x) = m + n
      /\ \A i \in 1 .. m + n : x[i] = IF i <= m THEN a[i] ELSE b[i - m]
  BY <1>1, <1>2, <1>3, ConcatProperties
<1>5. PICK j : j = m + n
  OBVIOUS
<1>6. j \in 1 .. m + n /\ ~(j <= m) /\ j - m = n /\ j # 0
  BY <1>1, <1>5
<1>7. x[j] = b[n]
  BY <1>4, <1>6
<1>8. x # <<>>
  <2>1. Len(<<>>) = 0
    OBVIOUS
  <2> QED
    BY <1>4, <1>5, <1>6, <2>1
<1>9. x[Len(x)].tag = "end"
  BY <1>1, <1>4, <1>5, <1>7 DEF EndsWithTag
<1> QED
  BY <1>2, <1>4, <1>8, <1>9 DEF EndsWithTag

LEMMA EndIsTag ==
  ASSUME NEW name \in Signs
  PROVE  EndsWithTag(End(name))
<1>1. End(name) \in Seq(Units)
  BY TagsTyped
<1>2. End(name) # <<>> /\ Len(End(name)) = 1 /\ End(name)[1].tag = "end"
  BY DEF End
<1> QED
  BY <1>1, <1>2 DEF EndsWithTag

IsHeads(h) == h[1] \in Seq(Signs) /\ h[2] \in Seq(Signs)

LEMMA DocumentTyped ==
  ASSUME NEW s \in {"acl", "logging"}, NEW by, NEW h, IsHeads(h), NEW gs \in Seq(GrantRecords)
  PROVE  /\ AreParts(Units, Pieces(s, by, h, gs))
         /\ EndsWithTag(FlattenSeq(Pieces(s, by, h, gs)))
<1>1. PICK a \in Seq(Signs), b \in Seq(Signs) : a = h[1] /\ b = h[2]
  BY DEF IsHeads
<1>2. CASE s = "acl"
  <2>1. Pieces(s, by, h, gs) = AclPieces(a, b, gs)
    BY <1>1, <1>2 DEF Pieces
  <2>2. AreParts(Units, AclPieces(a, b, gs))
    BY AclDocument
  <2>3. FlattenSeq(AclPieces(a, b, gs)) = (AclOpening(a, b) \o AllGrantUnits("any", gs)) \o AclClosing
    BY AclDocument
  <2>4. EndsWithTag(AclClosing)
    <3>1. End("AccessControlList") \in Seq(Units)
      BY TagsTyped, NamesAreSigns DEF DocumentNames
    <3>2. EndsWithTag(End("AccessControlPolicy"))
      BY EndIsTag, NamesAreSigns DEF DocumentNames
    <3> QED
      BY <3>1, <3>2, EndBehind DEF AclClosing
  <2>5. AclOpening(a, b) \o AllGrantUnits("any", gs) \in Seq(Units)
    <3>1. AclOpening(a, b) \in Seq(Units) /\ AllGrantUnits("any", gs) \in Seq(Units)
      BY OpeningTyped, AllGrantsTyped
    <3> QED
      BY <3>1, ConcatProperties
  <2>6. EndsWithTag((AclOpening(a, b) \o AllGrantUnits("any", gs)) \o AclClosing)
    BY <2>4, <2>5, EndBehind
  <2> QED
    BY <2>1, <2>2, <2>3, <2>6
<1>3. CASE s = "logging"
  <2>1. Pieces(s, by, h, gs) = SalPieces(by, a, b, gs)
    BY <1>1, <1>3 DEF Pieces
  <2>2. AreParts(Units, SalPieces(by, a, b, gs))
    BY SalDocument
  <2>3. PICK x \in Seq(Units) :
          Together(x, End("BucketLoggingStatus"), FlattenSeq(SalPieces(by, a, b, gs)))
    BY SalDocument
  <2>4. EndsWithTag(End("BucketLoggingStatus"))
    BY EndIsTag, NamesAreSigns DEF DocumentNames
  <2>5. EndsWithTag(x \o End("BucketLoggingStatus"))
    BY <2>4, EndBehind
  <2> QED
    BY <2>1, <2>2, <2>3, <2>5 DEF Together
<1> QED
  BY <1>2, <1>3

LEMMA GrantIsRecord ==
  ASSUME NEW grant \in ProgramGrants \cup ForeignGrants
  PROVE  grant \in GrantRecords
<1>1. IsGrant(grant)
  BY GrantsAssumption
<1>2. /\ Range(grant.id) \subseteq Signs /\ Range(grant.name) \subseteq Signs
      /\ grant.granteeType \in Signs /\ grant.permission \in Signs
  <2>1. GrantSigns(grant) \subseteq Signs
    BY DEF Signs
  <2> QED
    BY <2>1 DEF GrantSigns
<1>3. grant.id \in Seq(Signs) /\ grant.name \in Seq(Signs)
  <2>1. \A str : IsString(str) /\ Range(str) \subseteq Signs => str \in Seq(Signs)
    BY DEF IsString
  <2> QED
    BY <1>1, <1>2, <2>1 DEF IsGrant
<1> QED
  BY <1>1, <1>2, <1>3 DEF IsGrant, Grant, GrantRecords

\* What is set or S3 has, as it was chosen at the start.
Given ==
  /\ subject \in {"acl", "logging", "error"}
  /\ writer \in {"libs3", "others"}
  /\ subject # "error" => IsHeads(heads) /\ grants \in Seq(GrantRecords)
  /\ pc = "set" => subject # "error" /\ writer = "libs3"

LEMMA GivenInit == Init => Given
<1> SUFFICES ASSUME Init PROVE Given
  OBVIOUS
<1>1. \A str : IsString(str) /\ Range(str) \subseteq Signs => str \in Seq(Signs)
  BY DEF IsString
<1>2. \A h \in Heads : IsHeads(h)
  <2>1. ASSUME NEW h \in Heads PROVE Range(h[1]) \subseteq Signs /\ Range(h[2]) \subseteq Signs
    <3>1. ASSUME NEW sign \in HeadSigns(h) PROVE sign \in Signs
      BY <3>1 DEF Signs
    <3> QED
      BY <3>1 DEF HeadSigns
  <2> QED
    BY <1>1, <2>1, GrantsAssumption DEF IsHeads
<1>3. ASSUME NEW G \in {ProgramGrants, ForeignGrants}, NEW n, NEW gs \in SeqOf(G, n)
      PROVE  gs \in Seq(GrantRecords)
  <2>1. PICK m \in Nat : gs \in [1 .. m -> G]
    BY DEF SeqOf
  <2>2. gs \in [1 .. m -> GrantRecords]
    BY <2>1, GrantIsRecord
  <2> QED
    BY <2>2
<1>4. subject # "error" => IsHeads(heads) /\ grants \in Seq(GrantRecords)
  BY <1>2, <1>3 DEF Init
<1> QED
  BY <1>4 DEF Init, Given

LEMMA GivenStep == Given /\ [Next]_vars => Given'
<1> SUFFICES ASSUME Given, [Next]_vars PROVE Given'
  OBVIOUS
<1>1. UNCHANGED given
  BY DEF Next, vars, given, SetTooMany, Set, Get, ParseDocument, ParseError, DataEnds, Finished,
     saxStartElement, saxEndElement, saxCharacters
<1>2. pc' = "set" => pc = "set"
  BY DEF Next, vars, given, SetTooMany, Set, Get, ParseDocument, ParseError, DataEnds, Finished,
     saxStartElement, saxEndElement, saxCharacters, Report
<1> QED
  BY <1>1, <1>2 DEF Given, given

LEMMA GivenAlways == Spec => []Given
  BY GivenInit, GivenStep, PTL DEF Spec

-----------------------------------------------------------------------------
(* Sending a document                                                      *)

LEMMA WholeTyped ==
  ASSUME Given, subject # "error"
  PROVE  /\ AreParts(Units, Pieces(subject, writer, heads, grants))
         /\ Whole = FlattenSeq(Pieces(subject, writer, heads, grants))
         /\ EndsWithTag(Whole)
<1>1. subject \in {"acl", "logging"} /\ IsHeads(heads) /\ grants \in Seq(GrantRecords)
  BY DEF Given
<1> QED
  BY <1>1, DocumentTyped DEF Whole

LEMMA Generated ==
  ASSUME Given, pc = "set"
  PROVE  IF Len(Whole) < DocumentSize
         THEN generateXmlDocument(subject, heads, grants) = Written(Whole)
         ELSE generateXmlDocument(subject, heads, grants) \in TooLargeDocuments
<1>1. subject # "error" /\ writer = "libs3"
  BY DEF Given
<1>2. PICK p : p = Pieces(subject, "libs3", heads, grants)
  OBVIOUS
<1>3. AreParts(Units, p) /\ Whole = FlattenSeq(p)
  BY <1>1, <1>2, WholeTyped
<1>4. generateXmlDocument(subject, heads, grants)
        = LET doc[n \in 0 .. Len(p)] ==
                IF n = 0 THEN [text |-> <<>>, len |-> 0, status |-> "OK"]
                ELSE append(doc[n - 1], p[n])
          IN  doc[Len(p)]
  BY <1>2 DEF generateXmlDocument
<1> QED
  BY <1>3, <1>4, AllWritten

LEMMA SentWhole ==
  ASSUME NEW units, EndsWithTag(units), Len(units) < DocumentSize
  PROVE  Sent(Written(units)) = units <=> Len(units) < DocumentSize - 1
<1>1. PICK n \in Nat \ {0}, D \in Nat \ {0, 1} : n = Len(units) /\ D = DocumentSize
  BY EmptySeq, AccessControlAssumption DEF EndsWithTag
<1>2. units \in Seq(Units) /\ n < D /\ units[n].tag = "end"
  BY <1>1 DEF EndsWithTag
<1>3. PICK sent : sent = Sent(Written(units))
  OBVIOUS
<1>4. CASE n < D - 1
  <2>1. n <= D - 2 /\ Shorter(n, D - 2) = n
    BY <1>4 DEF Shorter
  <2>2. SubSeq(units, 1, n) = units
    BY <1>1, <1>2, SubSeqFull
  <2>3. Written(units) = [text |-> units, len |-> n, status |-> "OK"]
    BY <1>1, <2>1, <2>2 DEF Written
  <2>4. DOMAIN units = 1 .. n
    BY <1>1, <1>2, LenProperties
  <2>5. sent = [i \in 1 .. n |-> units[i]]
    BY <1>3, <2>3, <2>4 DEF Sent
  <2>6. sent = units
    BY <1>2, <2>4, <2>5
  <2> QED
    BY <1>1, <1>3, <1>4, <2>6
<1>5. CASE ~(n < D - 1)
  <2>1. n = D - 1 /\ Shorter(n, D - 2) = n - 1 /\ D - 2 = n - 1 /\ n - 1 \in Nat /\ n - 1 <= n
    BY <1>2, <1>5 DEF Shorter
  <2>2. PICK m \in Nat : m = n - 1
    BY <2>1
  <2>3. PICK t : t = SubSeq(units, 1, m)
    OBVIOUS
  <2>4. t \in Seq(Units) /\ Len(t) = m
    BY <1>1, <1>2, <2>1, <2>2, <2>3, Beginning
  <2>5. DOMAIN t = 1 .. m
    BY <2>4, LenProperties
  <2>6. Written(units) = [text |-> t, len |-> n, status |-> "OK"]
    BY <1>1, <2>1, <2>2, <2>3 DEF Written
  <2>7. n \notin 1 .. m /\ n \in 1 .. n
    BY <2>2
  <2>8. sent[n] = [tag |-> "char", what |-> Null]
    BY <1>3, <2>5, <2>6, <2>7 DEF Sent
  <2>9. sent[n].tag = "char"
    BY <2>8
  <2>10. sent # units
    BY <1>2, <2>9
  <2> QED
    BY <1>1, <1>3, <1>5, <2>10
<1> QED
  BY <1>4, <1>5

\* S3_set_acl and S3_set_server_access_logging.
LEMMA SetStep ==
  ASSUME Given, pc = "set", Set
  PROVE  /\ status' = "OK" <=> Len(Whole) < DocumentSize - 1
         /\ status' = "OK" => document' = Whole
         /\ status' = "XmlDocumentTooLarge" <=> Len(Whole) >= DocumentSize
<1>1. EndsWithTag(Whole)
  BY WholeTyped DEF Given
<1>2. PICK n \in Nat, D \in Nat \ {0, 1} : n = Len(Whole) /\ D = DocumentSize
  BY <1>1, AccessControlAssumption DEF EndsWithTag
<1>3. PICK doc : doc = generateXmlDocument(subject, heads, grants)
  OBVIOUS
<1>4. status' = IF doc.status # "OK" THEN doc.status
                ELSE IF Sent(doc) # Whole THEN "ErrorMalformedXML" ELSE "OK"
  BY <1>3 DEF Set, Report
<1>5. document' = Sent(doc)
  BY <1>3 DEF Set
<1>6. CASE n < D
  <2>1. doc = Written(Whole)
    BY <1>2, <1>3, <1>6, Generated
  <2>2. doc.status = "OK"
    BY <2>1 DEF Written
  <2>3. Sent(doc) = Whole <=> n < D - 1
    BY <1>1, <1>2, <1>6, <2>1, SentWhole
  <2> QED
    BY <1>2, <1>4, <1>6, <1>5, <2>2, <2>3
<1>7. CASE ~(n < D)
  <2>1. doc \in TooLargeDocuments
    BY <1>2, <1>3, <1>7, Generated
  <2>2. doc.status = "XmlDocumentTooLarge"
    BY <2>1 DEF TooLargeDocuments
  <2> QED
    BY <1>2, <1>4, <1>7, <2>2
<1> QED
  BY <1>6, <1>7

\* A document that leaves two places of its buffer free, or more, is set, one
\* that does not fit with its null is reported to be too large, and one that is
\* set was sent whole.  Of a document with just room for its null, which loses
\* its last character in append, it says only the last of these and that it is
\* not too large.  It holds for documents and buffers of every length.
THEOREM DocumentsSentWhole == Spec => SetSendsWhole
<1>1. ASSUME Given, [Next]_vars, pc = "set", Len(grants) <= S3_MAX_ACL_GRANT_COUNT, vars' # vars
      PROVE  /\ Len(Whole) < DocumentSize - 1 => status' = "OK"
             /\ status' = "OK" => document' = Whole
             /\ status' = "XmlDocumentTooLarge" <=> Len(Whole) >= DocumentSize
  <2>1. Next
    BY <1>1
  <2>2. ~SetTooMany
    <3>1. Len(grants) \in Nat
      BY <1>1 DEF Given
    <3> QED
      BY <1>1, <3>1, AccessControlAssumption DEF SetTooMany
  <2>3. subject # "error"
    BY <1>1 DEF Given
  <2>4. Set
    BY <1>1, <2>1, <2>2, <2>3 DEF Next, Get, ParseDocument, ParseError, DataEnds, Finished,
       saxStartElement, saxEndElement, saxCharacters, Parsing
  <2> QED
    BY <1>1, <2>4, SetStep
<1>2. Given /\ [Next]_vars =>
        [pc = "set" /\ Len(grants) <= S3_MAX_ACL_GRANT_COUNT =>
           /\ Len(Whole) < DocumentSize - 1 => status' = "OK"
           /\ status' = "OK" => document' = Whole
           /\ status' = "XmlDocumentTooLarge" <=> Len(Whole) >= DocumentSize]_vars
  BY <1>1
<1> QED
  BY <1>2, GivenAlways, PTL DEF Spec, SetSendsWhole

-----------------------------------------------------------------------------
(* Reading unit by unit                                                    *)

\* f[i] is the reader after i of these units.
Reading(s, r, units, f) ==
  f[0] = r /\ \A i \in 1 .. Len(units) : f[i] = AfterUnit(s, f[i - 1], units[i])

Leads(s, r, units, q) == \E f : Reading(s, r, units, f) /\ f[Len(units)] = q

LEMMA LeadsNone ==
  ASSUME NEW s, NEW r
  PROVE  Leads(s, r, <<>>, r)
<1>1. PICK f : f = [i \in {0} |-> r]
  OBVIOUS
<1>2. f[0] = r /\ Len(<<>>) = 0
  BY <1>1
<1>3. Reading(s, r, <<>>, f)
  BY <1>2 DEF Reading
<1> QED
  BY <1>2, <1>3 DEF Leads

LEMMA LeadsOne ==
  ASSUME NEW s, NEW r, NEW unit, NEW q, q = AfterUnit(s, r, unit)
  PROVE  Leads(s, r, <<unit>>, q)
<1>1. PICK f : f = [i \in 0 .. 1 |-> IF i = 0 THEN r ELSE q]
  OBVIOUS
<1>2. f[0] = r /\ f[1] = q /\ Len(<<unit>>) = 1 /\ <<unit>>[1] = unit
  BY <1>1
<1>3. Reading(s, r, <<unit>>, f)
  <2>1. ASSUME NEW i \in 1 .. 1 PROVE f[i] = AfterUnit(s, f[i - 1], <<unit>>[i])
    <3>1. i = 1 /\ i - 1 = 0
      OBVIOUS
    <3> QED
      BY <1>2, <3>1
  <2> QED
    BY <1>2, <2>1 DEF Reading
<1> QED
  BY <1>2, <1>3 DEF Leads

LEMMA LeadsJoined ==
  ASSUME NEW s, NEW r, NEW q, NEW t, NEW a \in Seq(Units), NEW b \in Seq(Units),
         Leads(s, r, a, q), Leads(s, q, b, t)
  PROVE  Leads(s, r, a \o b, t)
<1>1. PICK m \in Nat, n \in Nat : m = Len(a) /\ n = Len(b)
  OBVIOUS
<1>2. PICK f : Reading(s, r, a, f) /\ f[m] = q
  BY <1>1 DEF Leads
<1>3. PICK g : Reading(s, q, b, g) /\ g[n] = t
  BY <1>1 DEF Leads
<1>4. PICK both : both = a \o b
  OBVIOUS
<1>5. /\ both \in Seq(Units) /\ Len(both) = m + n
      /\ \A i \in 1 .. m + n : both[i] = IF i <= m THEN a[i] ELSE b[i - m]
  BY <1>1, <1>4, ConcatProperties
<1>6. PICK h : h = [i \in 0 .. m + n |-> IF i <= m THEN f[i] ELSE g[i - m]]
  OBVIOUS
<1>7. h[0] = r
  <2>1. h[0] = f[0]
    BY <1>6
  <2> QED
    BY <1>2, <2>1 DEF Reading
<1>8. h[m + n] = t
  <2>1. CASE n = 0
    <3>1. h[m + n] = f[m]
      BY <1>6, <2>1
    <3>2. g[0] = q
      BY <1>3 DEF Reading
    <3> QED
      BY <1>2, <1>3, <2>1, <3>1, <3>2
  <2>2. CASE n # 0
    <3>1. ~(m + n <= m) /\ m + n - m = n /\ m + n \in 0 .. m + n
      BY <2>2
    <3>2. PICK j : j = m + n
      OBVIOUS
    <3>3. h[j] = g[j - m]
      BY <1>6, <3>1, <3>2
    <3> QED
      BY <1>3, <3>1, <3>2, <3>3
  <2> QED
    BY <2>1, <2>2
<1>9. ASSUME NEW i \in 1 .. m + n PROVE h[i] = AfterUnit(s, h[i - 1], both[i])
  <2>1. CASE i <= m
    <3>1. i \in 1 .. m /\ i \in 0 .. m + n /\ i - 1 \in 0 .. m + n /\ i - 1 <= m
      BY <2>1
    <3>2. h[i] = f[i] /\ h[i - 1] = f[i - 1] /\ both[i] = a[i]
      BY <1>5, <1>6, <2>1, <3>1
    <3>3. f[i] = AfterUnit(s, f[i - 1], a[i])
      BY <1>1, <1>2, <3>1 DEF Reading
    <3> QED
      BY <3>2, <3>3
  <2>2. CASE ~(i <= m)
    <3>1. PICK j \in 1 .. n : j = i - m
      BY <2>2
    <3>2. i \in 0 .. m + n /\ i - 1 \in 0 .. m + n /\ i - 1 - m = j - 1
      BY <3>1
    <3>3. h[i] = g[j] /\ both[i] = b[j]
      BY <1>5, <1>6, <2>2, <3>1, <3>2
    <3>4. h[i - 1] = g[j - 1]
      <4>1. CASE i - 1 <= m
        <5>1. i - 1 = m /\ j - 1 = 0
          BY <2>2, <3>1, <4>1
        <5>2. h[i - 1] = f[m] /\ g[0] = q
          BY <1>3, <1>6, <3>2, <5>1 DEF Reading
        <5> QED
          BY <1>2, <5>1, <5>2
      <4>2. CASE ~(i - 1 <= m)
        BY <1>6, <3>2, <4>2
      <4> QED
        BY <4>1, <4>2
    <3>5. g[j] = AfterUnit(s, g[j - 1], b[j])
      BY <1>1, <1>3, <3>1 DEF Reading
    <3> QED
      BY <3>3, <3>4, <3>5
  <2> QED
    BY <2>1, <2>2
<1>10. Reading(s, r, both, h)
  BY <1>5, <1>7, <1>9 DEF Reading
<1> QED
  BY <1>4, <1>5, <1>8, <1>10 DEF Leads

LEMMA ReadingUnique ==
  ASSUME NEW s, NEW r, NEW units \in Seq(Units), NEW f, NEW g,
         Reading(s, r, units, f), Reading(s, r, units, g)
  PROVE  \A i \in 0 .. Len(units) : f[i] = g[i]
<1>1. PICK n \in Nat : n = Len(units)
  OBVIOUS
<1>2. f[0] = g[0]
  BY DEF Reading
<1>3. SameSteps(f, g, n)
  <2>1. ASSUME NEW i \in 1 .. n, f[i - 1] = g[i - 1] PROVE f[i] = g[i]
    BY <1>1, <2>1 DEF Reading
  <2> QED
    BY <2>1 DEF SameSteps
<1> QED
  BY <1>1, <1>2, <1>3, StayTheSame

\* A reader that has failed takes no notice of the rest.
Fails(s, r, units) == \E q : Leads(s, r, units, q) /\ q.status = "failed" /\ q.grants = r.grants

LEMMA FailedStays ==
  ASSUME NEW s, NEW r, r.status # "OK", NEW units \in Seq(Units)
  PROVE  Leads(s, r, units, r)
<1>1. PICK n \in Nat : n = Len(units)
  OBVIOUS
<1>2. PICK f : f = [i \in 0 .. n |-> r]
  OBVIOUS
<1>3. \A i \in 0 .. n : f[i] = r
  BY <1>2
<1>4. ASSUME NEW i \in 1 .. n PROVE f[i] = AfterUnit(s, f[i - 1], units[i])
  <2>1. f[i] = r /\ f[i - 1] = r
    BY <1>3
  <2> QED
    BY <2>1 DEF AfterUnit
<1>5. Reading(s, r, units, f)
  BY <1>1, <1>3, <1>4 DEF Reading
<1> QED
  BY <1>1, <1>3, <1>5 DEF Leads

LEMMA FailsBehind ==
  ASSUME NEW s, NEW r, NEW a \in Seq(Units), NEW b \in Seq(Units), Fails(s, r, a)
  PROVE  Fails(s, r, a \o b)
<1>1. PICK q : Leads(s, r, a, q) /\ q.status = "failed" /\ q.grants = r.grants
  BY DEF Fails
<1>2. Leads(s, q, b, q)
  BY <1>1, FailedStays
<1>3. Leads(s, r, a \o b, q)
  BY <1>1, <1>2, LeadsJoined
<1> QED
  BY <1>1, <1>3 DEF Fails

LEMMA FailsAfter ==
  ASSUME NEW s, NEW r, NEW q, NEW a \in Seq(Units), NEW b \in Seq(Units),
         Leads(s, r, a, q), q.grants = r.grants, Fails(s, q, b)
  PROVE  Fails(s, r, a \o b)
<1>1. PICK t : Leads(s, q, b, t) /\ t.status = "failed" /\ t.grants = q.grants
  BY DEF Fails
<1>2. Leads(s, r, a \o b, t)
  BY <1>1, LeadsJoined
<1> QED
  BY <1>1, <1>2 DEF Fails

-----------------------------------------------------------------------------
(* The places of the texts, and that no two elements share one             *)

\* Where the grants are.
ListPath(s) ==
  IF s = "acl" THEN Append(Append(<<>>, "AccessControlPolicy"), "AccessControlList")
  ELSE Append(Append(Append(<<>>, "BucketLoggingStatus"), "LoggingEnabled"), "TargetGrants")

GranteePath(s) == Append(Append(ListPath(s), "Grant"), "Grantee")

HeadPath(s) ==
  IF s = "acl" THEN Append(Append(<<>>, "AccessControlPolicy"), "Owner")
  ELSE Append(Append(<<>>, "BucketLoggingStatus"), "LoggingEnabled")

LEMMA TupleAppended ==
  ASSUME NEW S, NEW a \in S, NEW b \in S, NEW c \in S, NEW d \in S, NEW p \in Seq(S)
  PROVE  /\ <<a>> = Append(<<>>, a)
         /\ <<a, b>> = Append(Append(<<>>, a), b)
         /\ <<a, b, c>> = Append(Append(Append(<<>>, a), b), c)
         /\ <<a, b, c, d>> = Append(Append(Append(Append(<<>>, a), b), c), d)
         /\ p \o <<a>> = Append(p, a)
         /\ p \o <<a, b>> = Append(Append(p, a), b)
<1>1. <<a>> = Append(<<>>, a)
  OBVIOUS
<1>2. <<a, b>> = Append(<<a>>, b)
  OBVIOUS
<1>3. <<a, b, c>> = Append(<<a, b>>, c)
  OBVIOUS
<1>4. <<a, b, c, d>> = Append(<<a, b, c>>, d)
  OBVIOUS
<1>5. p \o <<a>> = Append(p, a)
  OBVIOUS
<1>6. p \o <<a, b>> = Append(Append(p, a), b)
  OBVIOUS
<1> QED
  BY <1>1, <1>2, <1>3, <1>4, <1>5, <1>6

LEMMA ListPathTyped ==
  ASSUME NEW s
  PROVE  /\ ListPath(s) \in Seq(Signs) /\ GranteePath(s) \in Seq(Signs) /\ HeadPath(s) \in Seq(Signs)
         /\ Len(ListPath(s)) <= 3 /\ Len(GranteePath(s)) <= 5 /\ Len(HeadPath(s)) = 2
  BY NamesAreSigns DEF ListPath, GranteePath, HeadPath, DocumentNames

LEMMA GrantPathIs ==
  ASSUME NEW s \in {"acl", "logging"}
  PROVE  GrantPath(s) = Append(ListPath(s), "Grant")
<1>1. CASE s = "acl"
  <2>1. <<"AccessControlPolicy", "AccessControlList", "Grant">>
          = Append(Append(Append(<<>>, "AccessControlPolicy"), "AccessControlList"), "Grant")
    BY NamesAreSigns, TupleAppended DEF DocumentNames
  <2> QED
    BY <1>1, <2>1 DEF GrantPath, ListPath
<1>2. CASE s = "logging"
  <2>1. <<"BucketLoggingStatus", "LoggingEnabled", "TargetGrants", "Grant">>
          = Append(Append(Append(Append(<<>>, "BucketLoggingStatus"), "LoggingEnabled"),
                          "TargetGrants"), "Grant")
    BY NamesAreSigns, TupleAppended DEF DocumentNames
  <2> QED
    BY <1>2, <2>1 DEF GrantPath, ListPath
<1> QED
  BY <1>1, <1>2

LEMMA PlacePathIs ==
  ASSUME NEW s \in {"acl", "logging"}
  PROVE  /\ PlacePath(s, "head1")
              = Append(HeadPath(s), IF s = "acl" THEN "ID" ELSE "TargetBucket")
         /\ PlacePath(s, "head2")
              = Append(HeadPath(s), IF s = "acl" THEN "DisplayName" ELSE "TargetPrefix")
         /\ PlacePath(s, "emailAddress") = Append(GranteePath(s), "EmailAddress")
         /\ PlacePath(s, "userId") = Append(GranteePath("acl"), "ID")
         /\ PlacePath(s, "userDisplayName") = Append(GranteePath(s), "DisplayName")
         /\ PlacePath(s, "groupUri") = Append(GranteePath(s), "URI")
         /\ PlacePath(s, "permission") = Append(Append(ListPath(s), "Grant"), "Permission")
<1>1. /\ PlacePath(s, "head1") = Append(HeadPath(s), IF s = "acl" THEN "ID" ELSE "TargetBucket")
      /\ PlacePath(s, "head2") = Append(HeadPath(s), IF s = "acl" THEN "DisplayName" ELSE "TargetPrefix")
  <2>1. CASE s = "acl"
    <3>1. \A name \in {"ID", "DisplayName"} :
            <<"AccessControlPolicy", "Owner", name>>
              = Append(Append(Append(<<>>, "AccessControlPolicy"), "Owner"), name)
      BY NamesAreSigns, TupleAppended DEF DocumentNames
    <3> QED
      BY <2>1, <3>1 DEF PlacePath, HeadPaths, HeadPath
  <2>2. CASE s = "logging"
    <3>1. \A name \in {"TargetBucket", "TargetPrefix"} :
            <<"BucketLoggingStatus", "LoggingEnabled", name>>
              = Append(Append(Append(<<>>, "BucketLoggingStatus"), "LoggingEnabled"), name)
      BY NamesAreSigns, TupleAppended DEF DocumentNames
    <3> QED
      BY <2>2, <3>1 DEF PlacePath, HeadPaths, HeadPath
  <2> QED
    BY <2>1, <2>2
<1>2. ASSUME NEW t \in {"acl", "logging"}, NEW name \in {"EmailAddress", "ID", "DisplayName", "URI"}
      PROVE  GrantPath(t) \o <<"Grantee", name>> = Append(GranteePath(t), name)
  <2>0. Append(ListPath(t), "Grant") \in Seq(Signs)
    BY ListPathTyped, NamesAreSigns DEF DocumentNames
  <2>1. PICK p \in Seq(Signs) : p = Append(ListPath(t), "Grant")
    BY <2>0
  <2>2. p \o <<"Grantee", name>> = Append(Append(p, "Grantee"), name)
    BY NamesAreSigns, TupleAppended DEF DocumentNames
  <2> QED
    BY <2>1, <2>2, GrantPathIs DEF GranteePath
<1>3. GrantPath(s) \o <<"Permission">> = Append(Append(ListPath(s), "Grant"), "Permission")
  <2>0. Append(ListPath(s), "Grant") \in Seq(Signs)
    BY ListPathTyped, NamesAreSigns DEF DocumentNames
  <2>1. PICK p \in Seq(Signs) : p = Append(ListPath(s), "Grant")
    BY <2>0
  <2>2. p \o <<"Permission">> = Append(p, "Permission")
    BY NamesAreSigns, TupleAppended DEF DocumentNames
  <2> QED
    BY <2>1, <2>2, GrantPathIs
<1> QED
  BY <1>1, <1>2, <1>3 DEF PlacePath, FieldPath

\* Each place has an element of its own.
LEMMA PlacesDiffer ==
  ASSUME NEW s \in {"acl", "logging"}, NEW p \in Places, NEW q \in Places,
         PlacePath(s, p) = PlacePath(s, q)
  PROVE  p = q
<1>1. PICK c \in Seq(Signs), h \in Seq(Signs), l \in Seq(Signs), g \in Seq(Signs), a \in Seq(Signs) :
        /\ c = Append(ListPath(s), "Grant") /\ h = HeadPath(s) /\ l = ListPath(s)
        /\ g = GranteePath(s) /\ a = GranteePath("acl")
        /\ Len(h) = 2 /\ Len(a) = 4 /\ (s = "acl" => g = a) /\ (s = "acl" => Len(c) = 3)
        /\ (s = "logging" => Len(g) = 5 /\ Len(c) = 4)
  <2>1. Append(ListPath(s), "Grant") \in Seq(Signs)
    BY ListPathTyped, NamesAreSigns DEF DocumentNames
  <2>2. /\ Len(HeadPath(s)) = 2 /\ Len(GranteePath("acl")) = 4
        /\ (s = "acl" => Len(Append(ListPath(s), "Grant")) = 3)
        /\ (s = "logging" => Len(GranteePath(s)) = 5 /\ Len(Append(ListPath(s), "Grant")) = 4)
    BY NamesAreSigns DEF ListPath, GranteePath, HeadPath, DocumentNames
  <2> QED
    BY <2>1, <2>2, ListPathTyped
<1>2. PICK x \in Signs, y \in Signs :
        /\ x = (IF s = "acl" THEN "ID" ELSE "TargetBucket")
        /\ y = (IF s = "acl" THEN "DisplayName" ELSE "TargetPrefix") /\ x # y
  BY NamesAreSigns DEF DocumentNames
<1>3. /\ PlacePath(s, "head1") = Append(h, x) /\ PlacePath(s, "head2") = Append(h, y)
      /\ PlacePath(s, "emailAddress") = Append(g, "EmailAddress")
      /\ PlacePath(s, "userId") = Append(a, "ID")
      /\ PlacePath(s, "userDisplayName") = Append(g, "DisplayName")
      /\ PlacePath(s, "groupUri") = Append(g, "URI")
      /\ PlacePath(s, "permission") = Append(c, "Permission")
  BY <1>1, <1>2, PlacePathIs
<1>4. {"EmailAddress", "ID", "DisplayName", "URI", "Permission"} \subseteq Signs
  BY NamesAreSigns DEF DocumentNames
<1>5. ASSUME NEW u \in Seq(Signs), NEW v \in Seq(Signs), NEW m \in Signs, NEW n \in Signs,
             Append(u, m) = Append(v, n)
      PROVE  u = v /\ m = n /\ Len(u) = Len(v)
  BY <1>5, AppendInjective
<1>6. PICK parent : parent = [place \in Places |->
          CASE place \in {"head1", "head2"} -> h
            [] place = "userId" -> a
            [] place = "permission" -> c
            [] OTHER -> g]
  OBVIOUS
<1>7. PICK name : name = [place \in Places |->
          CASE place = "head1" -> x
            [] place = "head2" -> y
            [] place = "emailAddress" -> "EmailAddress"
            [] place = "userId" -> "ID"
            [] place = "userDisplayName" -> "DisplayName"
            [] place = "groupUri" -> "URI"
            [] OTHER -> "Permission"]
  OBVIOUS
<1>8. ASSUME NEW place \in Places
      PROVE  /\ parent[place] \in Seq(Signs) /\ name[place] \in Signs
             /\ PlacePath(s, place) = Append(parent[place], name[place])
  BY <1>3, <1>4, <1>6, <1>7 DEF Places, Fields
<1>9. Len(parent[p]) = Len(parent[q]) /\ name[p] = name[q]
  <2>1. Append(parent[p], name[p]) = Append(parent[q], name[q])
    BY <1>8
  <2> QED
    BY <1>5, <1>8, <2>1
<1>10. PICK length : length = [place \in Places |-> Len(parent[place])]
  OBVIOUS
<1>11. /\ length["head1"] = 2 /\ length["head2"] = 2 /\ length["userId"] = 4
       /\ length["permission"] = Len(c) /\ length["emailAddress"] = Len(g)
       /\ length["userDisplayName"] = Len(g) /\ length["groupUri"] = Len(g)
  BY <1>1, <1>6, <1>10 DEF Places, Fields
<1>12. Len(g) # 2 /\ Len(c) # 2
  BY <1>1
<1>13. length[p] = length[q]
  BY <1>9, <1>10
<1>14. /\ name["head1"] = x /\ name["head2"] = y
       /\ name["emailAddress"] = "EmailAddress" /\ name["userId"] = "ID"
       /\ name["userDisplayName"] = "DisplayName" /\ name["groupUri"] = "URI"
       /\ name["permission"] = "Permission"
  BY <1>7 DEF Places, Fields
<1>15. x \in {"ID", "TargetBucket"} /\ y \in {"DisplayName", "TargetPrefix"}
  BY <1>2
<1>16. ASSUME NEW u \in Places, NEW v \in Places, name[u] = name[v], length[u] = length[v],
              u \in {"head1", "head2"}
       PROVE  u = v
  <2>1. length[u] = 2 /\ length["userId"] # 2 /\ length["userDisplayName"] # 2
    BY <1>11, <1>12, <1>16
  <2>2. v \notin {"userId", "userDisplayName"}
    BY <1>16, <2>1
  <2>3. v \in {"head1", "head2", "emailAddress", "groupUri", "permission"}
    BY <2>2 DEF Places, Fields
  <2>4. CASE u = "head1"
    BY <1>14, <1>15, <1>16, <2>3, <2>4
  <2>5. CASE u = "head2"
    BY <1>14, <1>15, <1>16, <2>3, <2>5
  <2> QED
    BY <1>16, <2>4, <2>5
<1>17. ASSUME p \notin {"head1", "head2"}, q \notin {"head1", "head2"} PROVE p = q
  BY <1>9, <1>14, <1>17 DEF Places, Fields
<1> QED
  BY <1>9, <1>13, <1>16, <1>17

-----------------------------------------------------------------------------
(* One tag and one sign                                                    *)

LEMMA FrontAppended ==
  ASSUME NEW S, NEW p \in Seq(S), NEW x \in S
  PROVE  Front(Append(p, x)) = p
<1>1. PICK n \in Nat : n = Len(p)
  OBVIOUS
<1>2. PICK q : q = Append(p, x)
  OBVIOUS
<1>3. q \in Seq(S) /\ Len(q) = n + 1 /\ \A i \in 1 .. n : q[i] = p[i]
  BY <1>1, <1>2, AppendProperties
<1>4. /\ Front(q) \in Seq(S) /\ Len(Front(q)) = n
      /\ \A i \in 1 .. n : Front(q)[i] = q[i]
  <2>1. q \in Seq(S) /\ Len(q) > 0 /\ Len(q) - 1 = n
    BY <1>3
  <2>2. /\ Front(q) \in Seq(S) /\ Len(Front(q)) = Len(q) - 1
        /\ \A i \in 1 .. Len(q) - 1 : Front(q)[i] = q[i]
    BY <2>1, FrontFacts
  <2> QED
    BY <2>1, <2>2
<1>5. Front(q) = p
  BY <1>1, <1>3, <1>4, SeqEqual
<1> QED
  BY <1>2, <1>5

LEMMA NotGrantPath ==
  ASSUME NEW s \in {"acl", "logging"}, NEW p \in Seq(Signs), NEW name \in Signs, name # "Grant"
  PROVE  Append(p, name) # GrantPath(s)
<1>1. GrantPath(s) = Append(ListPath(s), "Grant") /\ ListPath(s) \in Seq(Signs) /\ "Grant" \in Signs
  BY GrantPathIs, ListPathTyped, NamesAreSigns DEF DocumentNames
<1> QED
  BY <1>1, AppendInjective

LEMMA StartRead ==
  ASSUME NEW s, NEW path \in Seq(Signs), Len(path) <= 5, NEW texts, NEW gs, NEW name
  PROVE  Leads(s, Reader(path, texts, gs, "OK"), Start(name), Reader(Append(path, name), texts, gs, "OK"))
<1>1. PICK r : r = Reader(path, texts, gs, "OK")
  OBVIOUS
<1>2. r.path = path /\ r.texts = texts /\ r.grants = gs /\ r.status = "OK"
  BY <1>1 DEF Reader
<1>3. ~TooDeep(path)
  <2>1. PICK n \in Nat : n = Len(path) /\ n <= 5
    OBVIOUS
  <2>2. ~((IF path = <<>> THEN 0 ELSE 2 * n - 1) + 2 >= 2 * 6)
    BY <2>1
  <2>3. PathSize \in Nat /\ PathSize >= 2 * 6
    BY DocumentsAssumption, GrantsAssumption
  <2> QED
    BY <2>1, <2>2, <2>3 DEF TooDeep
<1>4. PICK unit : unit = [tag |-> "start", what |-> name]
  OBVIOUS
<1>5. AfterUnit(s, r, unit) = Reader(Append(path, name), texts, gs, "OK")
  BY <1>2, <1>3, <1>4 DEF AfterUnit, AfterStart
<1> QED
  BY <1>1, <1>4, <1>5, LeadsOne DEF Start

LEMMA EndRead ==
  ASSUME NEW s \in {"acl", "logging"}, NEW path \in Seq(Signs), NEW texts, NEW gs,
         NEW name \in Signs, name # "Grant"
  PROVE  Leads(s, Reader(Append(path, name), texts, gs, "OK"), End(name), Reader(path, texts, gs, "OK"))
<1>1. PICK r : r = Reader(Append(path, name), texts, gs, "OK")
  OBVIOUS
<1>2. /\ r.path = Append(path, name) /\ r.texts = texts /\ r.grants = gs /\ r.status = "OK"
  BY <1>1 DEF Reader
<1>3. r.path # GrantPath(s) /\ Front(r.path) = path
  BY <1>2, NotGrantPath, FrontAppended
<1>4. PICK unit : unit = [tag |-> "end", what |-> name]
  OBVIOUS
<1>5. AfterUnit(s, r, unit) = Reader(path, texts, gs, "OK")
  BY <1>2, <1>3, <1>4 DEF AfterUnit
<1> QED
  BY <1>1, <1>4, <1>5, LeadsOne DEF End

LEMMA AddedTyped ==
  ASSUME NEW texts \in [Places -> Seq(Signs)], NEW place \in Places, NEW str \in Seq(Signs)
  PROVE  /\ TextAdded(texts, place, str) \in [Places -> Seq(Signs)]
         /\ TextAdded(texts, place, str)[place] = texts[place] \o str
         /\ Len(TextAdded(texts, place, str)[place]) = Len(texts[place]) + Len(str)
<1>1. texts[place] \o str \in Seq(Signs) /\ Len(texts[place] \o str) = Len(texts[place]) + Len(str)
  BY ConcatProperties
<1> QED
  BY <1>1 DEF TextAdded

LEMMA NothingIsAdded ==
  ASSUME NEW texts \in [Places -> Seq(Signs)], NEW place \in Places
  PROVE  TextAdded(texts, place, <<>>) = texts
<1>1. texts[place] \o <<>> = texts[place]
  BY ConcatEmptySeq
<1>2. \A p \in Places : (IF p = place THEN texts[p] \o <<>> ELSE texts[p]) = texts[p]
  BY <1>1
<1> QED
  BY <1>2 DEF TextAdded

LEMMA OneLonger ==
  ASSUME NEW S, NEW str \in Seq(S), NEW i \in 1 .. Len(str)
  PROVE  SubSeq(str, 1, i) = SubSeq(str, 1, i - 1) \o <<str[i]>>
<1>1. 1 \in 1 .. Len(str) /\ i \in 1 .. Len(str)
  OBVIOUS
<1> QED
  BY <1>1, SubSeqRecursiveSecond

LEMMA Regrouped ==
  ASSUME NEW S, NEW a \in Seq(S), NEW b \in Seq(S), NEW c \in Seq(S), NEW d, Together(b, c, d)
  PROVE  \A e : Together(a, b, e) => Together(e, c, a \o d)
<1>1. (a \o b) \o c = a \o (b \o c)
  BY ConcatAssociative
<1> QED
  BY <1>1 DEF Together

LEMMA OneSignMore ==
  ASSUME NEW texts \in [Places -> Seq(Signs)], NEW place \in Places,
         NEW str \in Seq(Signs), NEW i \in 1 .. Len(str)
  PROVE  TextAdded(TextAdded(texts, place, SubSeq(str, 1, i - 1)), place, <<str[i]>>)
           = TextAdded(texts, place, SubSeq(str, 1, i))
<1>1. PICK m \in Nat : m = i - 1 /\ m <= Len(str)
  OBVIOUS
<1>2. PICK a, b, c : a = SubSeq(str, 1, m) /\ b = SubSeq(str, 1, i) /\ c = <<str[i]>>
  OBVIOUS
<1>3. a \in Seq(Signs)
  BY <1>1, <1>2, Beginning
<1>4. c \in Seq(Signs)
  <2>1. str[i] \in Signs
    BY ElementOfSeq
  <2> QED
    BY <1>2, <2>1
<1>5. Together(a, c, b)
  BY <1>1, <1>2, OneLonger DEF Together
<1>6. (texts[place] \o a) \o c = texts[place] \o b
  <2>0. PICK t \in Seq(Signs) : t = texts[place]
    OBVIOUS
  <2>1. PICK e : e = t \o a
    OBVIOUS
  <2>2. Together(t, a, e)
    BY <2>1 DEF Together
  <2>3. Together(e, c, t \o b)
    BY <1>3, <1>4, <1>5, <2>2, Regrouped
  <2> QED
    BY <2>0, <2>1, <2>3 DEF Together
<1>7. TextAdded(TextAdded(texts, place, a), place, c) = TextAdded(texts, place, b)
  BY <1>6 DEF TextAdded
<1> QED
  BY <1>1, <1>2, <1>7

\* One sign of a text, at a place that has one.
SignIsRead(s, place, texts, gs, r, sign) ==
  AfterUnit(s, r, [tag |-> "char", what |-> sign])
    = IF Len(texts[place]) + 1 <= Longest(place)
      THEN Reader(PlacePath(s, place), TextAdded(texts, place, <<sign>>), gs, "OK")
      ELSE Failed(r)

LEMMA SignRead ==
  ASSUME NEW s \in {"acl", "logging"}, NEW place \in Places,
         NEW texts \in [Places -> Seq(Signs)], NEW gs, NEW sign, NEW r,
         r = Reader(PlacePath(s, place), texts, gs, "OK")
  PROVE  SignIsRead(s, place, texts, gs, r, sign)
<1>1. /\ r.path = PlacePath(s, place) /\ r.texts = texts /\ r.grants = gs /\ r.status = "OK"
  BY DEF Reader
<1>2. (CHOOSE p \in Places : r.path = PlacePath(s, p)) = place
  <2>1. PICK q : q = CHOOSE p \in Places : r.path = PlacePath(s, p)
    OBVIOUS
  <2>2. q \in Places /\ r.path = PlacePath(s, q)
    BY <1>1, <2>1
  <2>3. q = place
    BY <1>1, <2>2, PlacesDiffer
  <2> QED
    BY <2>1, <2>3
<1>3. \E p \in Places : r.path = PlacePath(s, p)
  BY <1>1
<1> QED
  BY <1>1, <1>2, <1>3 DEF SignIsRead, AfterUnit, AfterSign

-----------------------------------------------------------------------------
(* A text, and an element with its text                                    *)

\* The reader behind the first i signs of a text.
ReaderBehind(path, texts, gs, place, str, i) ==
  LET fit == Longest(place) - Len(texts[place])
  IN  IF i <= fit
      THEN Reader(path, TextAdded(texts, place, SubSeq(str, 1, i)), gs, "OK")
      ELSE Reader(path, TextAdded(texts, place, SubSeq(str, 1, fit)), gs, "failed")

LEMMA LongestIs ==
  ASSUME NEW place
  PROVE  Longest(place) \in Nat /\ Longest(place) >= 1
  BY AccessControlAssumption DEF Longest

LEMMA BehindFirst ==
  ASSUME NEW path, NEW texts \in [Places -> Seq(Signs)], NEW gs, NEW place \in Places,
         NEW str \in Seq(Signs), Len(texts[place]) <= Longest(place)
  PROVE  ReaderBehind(path, texts, gs, place, str, 0) = Reader(path, texts, gs, "OK")
<1>1. 0 <= Longest(place) - Len(texts[place])
  BY LongestIs
<1>2. SubSeq(str, 1, 0) = <<>>
  BY SubSeqEmpty
<1>3. TextAdded(texts, place, <<>>) = texts
  BY NothingIsAdded
<1> QED
  BY <1>1, <1>2, <1>3 DEF ReaderBehind

LEMMA BehindNext ==
  ASSUME NEW s \in {"acl", "logging"}, NEW place \in Places,
         NEW texts \in [Places -> Seq(Signs)], NEW gs,
         NEW str \in Seq(Signs), NEW i \in 1 .. Len(str), Len(texts[place]) <= Longest(place)
  PROVE  ReaderBehind(PlacePath(s, place), texts, gs, place, str, i)
           = AfterUnit(s, ReaderBehind(PlacePath(s, place), texts, gs, place, str, i - 1),
                       [tag |-> "char", what |-> str[i]])
<1>1. PICK fit \in Nat : fit = Longest(place) - Len(texts[place])
  BY LongestIs
<1>2. PICK path : path = PlacePath(s, place)
  OBVIOUS
<1>3. PICK m \in Nat : m = i - 1 /\ m <= Len(str)
  OBVIOUS
<1>4. PICK r : r = ReaderBehind(path, texts, gs, place, str, m)
  OBVIOUS
<1>5. CASE m <= fit
  <2>1. PICK a : a = SubSeq(str, 1, m)
    OBVIOUS
  <2>2. a \in Seq(Signs) /\ Len(a) = m
    BY <1>3, <2>1, Beginning
  <2>3. PICK more : more = TextAdded(texts, place, a)
    OBVIOUS
  <2>4. more \in [Places -> Seq(Signs)] /\ Len(more[place]) = Len(texts[place]) + m
    BY <2>2, <2>3, AddedTyped
  <2>5. r = Reader(path, more, gs, "OK")
    BY <1>1, <1>4, <1>5, <2>1, <2>3 DEF ReaderBehind
  <2>6. AfterUnit(s, r, [tag |-> "char", what |-> str[i]])
          = IF Len(more[place]) + 1 <= Longest(place)
            THEN Reader(path, TextAdded(more, place, <<str[i]>>), gs, "OK")
            ELSE Failed(r)
    <3>1. PICK sign : sign = str[i]
      OBVIOUS
    <3>2. r = Reader(PlacePath(s, place), more, gs, "OK") /\ more \in [Places -> Seq(Signs)]
      BY <1>2, <2>4, <2>5
    <3>3. SignIsRead(s, place, more, gs, r, sign)
      BY <3>2, SignRead
    <3> QED
      BY <1>2, <3>1, <3>3 DEF SignIsRead
  <2>7. Len(more[place]) + 1 <= Longest(place) <=> i <= fit
    BY <1>1, <1>3, <2>4, LongestIs
  <2>8. TextAdded(more, place, <<str[i]>>) = TextAdded(texts, place, SubSeq(str, 1, i))
    BY <1>3, <2>1, <2>3, OneSignMore
  <2>9. CASE i <= fit
    BY <1>1, <1>2, <1>3, <1>4, <2>6, <2>7, <2>8, <2>9 DEF ReaderBehind
  <2>10. CASE ~(i <= fit)
    <3>1. m = fit
      BY <1>3, <1>5, <2>10
    <3>2. Failed(r) = Reader(path, more, gs, "failed")
      BY <2>5 DEF Failed, Reader
    <3>3. ReaderBehind(path, texts, gs, place, str, i) = Failed(r)
      BY <1>1, <2>1, <2>3, <2>10, <3>1, <3>2 DEF ReaderBehind
    <3> QED
      BY <1>2, <1>3, <1>4, <2>6, <2>7, <2>10, <3>3
  <2> QED
    BY <2>9, <2>10
<1>6. CASE ~(m <= fit)
  <2>1. ~(i <= fit)
    BY <1>1, <1>3, <1>6
  <2>2. ReaderBehind(path, texts, gs, place, str, i) = r /\ r.status = "failed"
    BY <1>1, <1>4, <1>6, <2>1 DEF ReaderBehind, Reader
  <2>3. AfterUnit(s, r, [tag |-> "char", what |-> str[i]]) = r
    BY <2>2 DEF AfterUnit
  <2> QED
    BY <1>2, <1>3, <1>4, <2>2, <2>3
<1> QED
  BY <1>5, <1>6

LEMMA TextLeads ==
  ASSUME NEW s \in {"acl", "logging"}, NEW place \in Places,
         NEW texts \in [Places -> Seq(Signs)], NEW gs,
         NEW str \in Seq(Signs), Len(texts[place]) <= Longest(place)
  PROVE  Leads(s, Reader(PlacePath(s, place), texts, gs, "OK"), Text(str),
               ReaderBehind(PlacePath(s, place), texts, gs, place, str, Len(str)))
<1>1. PICK path : path = PlacePath(s, place)
  OBVIOUS
<1>2. PICK n \in Nat : n = Len(str)
  OBVIOUS
<1>3. PICK f : f = [i \in 0 .. n |-> ReaderBehind(path, texts, gs, place, str, i)]
  OBVIOUS
<1>4. f[0] = Reader(path, texts, gs, "OK") /\ f[n] = ReaderBehind(path, texts, gs, place, str, n)
  BY <1>3, BehindFirst
<1>5. Len(Text(str)) = n /\ \A i \in 1 .. n : Text(str)[i] = [tag |-> "char", what |-> str[i]]
  BY <1>2, TextTyped
<1>6. ASSUME NEW i \in 1 .. n PROVE f[i] = AfterUnit(s, f[i - 1], Text(str)[i])
  <2>1. i \in 0 .. n /\ i - 1 \in 0 .. n /\ i \in 1 .. Len(str)
    BY <1>2
  <2>2. f[i] = ReaderBehind(path, texts, gs, place, str, i)
        /\ f[i - 1] = ReaderBehind(path, texts, gs, place, str, i - 1)
    BY <1>3, <2>1
  <2>3. ReaderBehind(path, texts, gs, place, str, i)
          = AfterUnit(s, ReaderBehind(path, texts, gs, place, str, i - 1), [tag |-> "char", what |-> str[i]])
    BY <1>1, <2>1, BehindNext
  <2>4. Text(str)[i] = [tag |-> "char", what |-> str[i]]
    BY <1>5
  <2> QED
    BY <2>2, <2>3, <2>4
<1>7. Reading(s, Reader(path, texts, gs, "OK"), Text(str), f)
  BY <1>4, <1>5, <1>6 DEF Reading
<1>8. f[Len(Text(str))] = ReaderBehind(path, texts, gs, place, str, n)
  BY <1>4, <1>5
<1>9. Leads(s, Reader(path, texts, gs, "OK"), Text(str), ReaderBehind(path, texts, gs, place, str, n))
  BY <1>7, <1>8 DEF Leads
<1> QED
  BY <1>1, <1>2, <1>9

LEMMA BehindAll ==
  ASSUME NEW path, NEW texts \in [Places -> Seq(Signs)], NEW gs, NEW place \in Places,
         NEW str \in Seq(Signs), Len(texts[place]) <= Longest(place)
  PROVE  IF Len(texts[place]) + Len(str) <= Longest(place)
         THEN ReaderBehind(path, texts, gs, place, str, Len(str))
                = Reader(path, TextAdded(texts, place, str), gs, "OK")
         ELSE /\ ReaderBehind(path, texts, gs, place, str, Len(str)).status = "failed"
              /\ ReaderBehind(path, texts, gs, place, str, Len(str)).grants = gs
<1>1. Len(str) \in Nat /\ Len(texts[place]) \in Nat /\ Longest(place) \in Nat
  BY LongestIs
<1>2. SubSeq(str, 1, Len(str)) = str
  BY SubSeqFull
<1>3. Len(str) <= Longest(place) - Len(texts[place])
        <=> Len(texts[place]) + Len(str) <= Longest(place)
  BY <1>1
<1> QED
  BY <1>2, <1>3 DEF ReaderBehind, Reader

\* A text of an element that nobody reads.
LEMMA TextIgnored ==
  ASSUME NEW s, NEW path, \A place \in Places : path # PlacePath(s, place),
         NEW texts, NEW gs, NEW str \in Seq(Signs)
  PROVE  Leads(s, Reader(path, texts, gs, "OK"), Text(str), Reader(path, texts, gs, "OK"))
<1>1. PICK r : r = Reader(path, texts, gs, "OK")
  OBVIOUS
<1>2. r.path = path /\ r.status = "OK"
  BY <1>1 DEF Reader
<1>3. PICK n \in Nat : n = Len(str)
  OBVIOUS
<1>4. PICK f : f = [i \in 0 .. n |-> r]
  OBVIOUS
<1>5. Len(Text(str)) = n /\ \A i \in 1 .. n : Text(str)[i] = [tag |-> "char", what |-> str[i]]
  BY <1>3, TextTyped
<1>6. ASSUME NEW i \in 1 .. n PROVE f[i] = AfterUnit(s, f[i - 1], Text(str)[i])
  <2>1. f[i] = r /\ f[i - 1] = r
    BY <1>4
  <2>2. AfterUnit(s, r, [tag |-> "char", what |-> str[i]]) = r
    BY <1>2 DEF AfterUnit, AfterSign
  <2> QED
    BY <1>5, <2>1, <2>2
<1>7. Reading(s, r, Text(str), f)
  BY <1>4, <1>5, <1>6 DEF Reading
<1>8. f[Len(Text(str))] = r
  BY <1>4, <1>5
<1> QED
  BY <1>1, <1>7, <1>8 DEF Leads

LEMMA ElementIgnored ==
  ASSUME NEW s \in {"acl", "logging"}, NEW path \in Seq(Signs), Len(path) <= 5,
         NEW name \in Signs, name # "Grant",
         \A place \in Places : Append(path, name) # PlacePath(s, place),
         NEW texts, NEW gs, NEW str \in Seq(Signs), NEW r, r = Reader(path, texts, gs, "OK")
  PROVE  Leads(s, r, Element(name, str), r)
<1>1. PICK q : q = Reader(Append(path, name), texts, gs, "OK")
  OBVIOUS
<1>2. Leads(s, r, Start(name), q)
  BY <1>1, StartRead
<1>3. Leads(s, q, Text(str), q)
  BY <1>1, TextIgnored
<1>4. Leads(s, q, End(name), r)
  BY <1>1, EndRead
<1>5. Start(name) \in Seq(Units) /\ Text(str) \in Seq(Units) /\ End(name) \in Seq(Units)
  BY TagsTyped, TextTyped
<1>6. Leads(s, r, Start(name) \o Text(str), q) /\ Start(name) \o Text(str) \in Seq(Units)
  BY <1>2, <1>3, <1>5, LeadsJoined, ConcatProperties
<1> QED
  BY <1>4, <1>5, <1>6, LeadsJoined DEF Element

LEMMA ElementRead ==
  ASSUME NEW s \in {"acl", "logging"}, NEW path \in Seq(Signs), Len(path) <= 5,
         NEW name \in Signs, name # "Grant",
         NEW place \in Places, Append(path, name) = PlacePath(s, place),
         NEW texts \in [Places -> Seq(Signs)], NEW gs, NEW str \in Seq(Signs),
         Len(texts[place]) <= Longest(place), NEW r, r = Reader(path, texts, gs, "OK")
  PROVE  IF Len(texts[place]) + Len(str) <= Longest(place)
         THEN Leads(s, r, Element(name, str), Reader(path, TextAdded(texts, place, str), gs, "OK"))
         ELSE Fails(s, r, Element(name, str))
<1>1. PICK q : q = Reader(Append(path, name), texts, gs, "OK")
  OBVIOUS
<1>2. Leads(s, r, Start(name), q)
  BY <1>1, StartRead
<1>3. PICK t : t = ReaderBehind(Append(path, name), texts, gs, place, str, Len(str))
  OBVIOUS
<1>4. Leads(s, q, Text(str), t)
  BY <1>1, <1>3, TextLeads
<1>5. Start(name) \in Seq(Units) /\ Text(str) \in Seq(Units) /\ End(name) \in Seq(Units)
  BY TagsTyped, TextTyped
<1>6. Leads(s, r, Start(name) \o Text(str), t)
  BY <1>2, <1>4, <1>5, LeadsJoined
<1>7. Start(name) \o Text(str) \in Seq(Units)
  BY <1>5, ConcatProperties
<1>8. CASE Len(texts[place]) + Len(str) <= Longest(place)
  <2>1. PICK more : more = TextAdded(texts, place, str)
    OBVIOUS
  <2>2. t = Reader(Append(path, name), more, gs, "OK")
    BY <1>3, <1>8, <2>1, BehindAll
  <2>3. Leads(s, t, End(name), Reader(path, more, gs, "OK"))
    BY <2>2, EndRead
  <2>4. Leads(s, r, (Start(name) \o Text(str)) \o End(name), Reader(path, more, gs, "OK"))
    BY <1>5, <1>6, <1>7, <2>3, LeadsJoined
  <2> QED
    BY <1>8, <2>1, <2>4 DEF Element
<1>9. CASE ~(Len(texts[place]) + Len(str) <= Longest(place))
  <2>1. t.status = "failed" /\ t.grants = gs /\ r.grants = gs
    BY <1>3, <1>9, BehindAll DEF Reader
  <2>2. Fails(s, r, Start(name) \o Text(str))
    BY <1>6, <2>1 DEF Fails
  <2>3. Fails(s, r, (Start(name) \o Text(str)) \o End(name))
    BY <1>5, <1>7, <2>2, FailsBehind
  <2> QED
    BY <1>9, <2>3 DEF Element
<1> QED
  BY <1>8, <1>9

-----------------------------------------------------------------------------
(* The elements of a grantee                                               *)

\* What the elements of a grant say, by the fields that they are read into.
GrantSaid(s, by, g) ==
  [f \in Fields |->
     CASE f = "emailAddress" -> IF g.granteeType = "AmazonCustomerByEmail" THEN g.id ELSE <<>>
       [] f = "userId" -> IF g.granteeType = "CanonicalUser" /\ s = "acl" THEN g.id ELSE <<>>
       [] f = "userDisplayName" -> IF g.granteeType = "CanonicalUser" THEN g.name ELSE <<>>
       [] f = "groupUri" -> IF g.granteeType \in {"AmazonCustomerByEmail", "CanonicalUser"} THEN <<>>
                            ELSE <<GroupUri(by, g.granteeType)>>
       [] OTHER -> <<>>]

Grantees == Fields \ {"permission"}

\* The places when these fields have been read, and none before.
WithFields(texts, said) == [p \in Places |-> IF p \in Fields THEN said[p] ELSE texts[p]]

NoFieldsIn(texts) ==
  texts \in [Places -> Seq(Signs)] /\ \A f \in Fields : texts[f] = <<>>

LEMMA FieldsArePlaces ==
  /\ Fields \subseteq Places /\ Fields = Grantees \cup {"permission"}
  /\ \A f \in Fields : Longest(f) = GranteeSize
  BY DEF Places, Fields, Grantees, Longest

LEMMA SaidTyped ==
  ASSUME NEW s, NEW by, NEW g \in GrantRecords
  PROVE  /\ GrantSaid(s, by, g) \in [Fields -> Seq(Signs)]
         /\ GroupUri(by, g.granteeType) \in Signs
<1>1. g.granteeType \in Signs /\ g.id \in Seq(Signs) /\ g.name \in Seq(Signs)
  BY DEF GrantRecords
<1>2. GroupUri(by, g.granteeType) \in Signs
  BY <1>1, NamesAreSigns DEF GroupUri, DocumentNames
<1>3. <<GroupUri(by, g.granteeType)>> \in Seq(Signs) /\ <<>> \in Seq(Signs)
  BY <1>2
<1> QED
  BY <1>1, <1>2, <1>3 DEF GrantSaid

LEMMA AddedToEmpty ==
  ASSUME NEW texts \in [Places -> Seq(Signs)], NEW place \in Places, texts[place] = <<>>,
         NEW str \in Seq(Signs)
  PROVE  /\ TextAdded(texts, place, str) \in [Places -> Seq(Signs)]
         /\ TextAdded(texts, place, str) = [p \in Places |-> IF p = place THEN str ELSE texts[p]]
         /\ Len(texts[place]) + Len(str) = Len(str)
         /\ Len(texts[place]) <= Longest(place)
<1>1. <<>> \o str = str
  BY ConcatEmptySeq
<1>2. TextAdded(texts, place, str) \in [Places -> Seq(Signs)]
  BY AddedTyped
<1>3. Len(<<>>) = 0
  OBVIOUS
<1>4. Len(texts[place]) + Len(str) = Len(str) /\ Len(texts[place]) <= Longest(place)
  BY <1>3, LongestIs
<1> QED
  BY <1>1, <1>2, <1>4 DEF TextAdded

LEMMA OneElement ==
  ASSUME NEW s \in {"acl", "logging"}, NEW texts, NEW gs, NEW name \in Signs, name # "Grant",
         NEW place \in Fields, Append(GranteePath(s), name) = PlacePath(s, place),
         texts \in [Places -> Seq(Signs)], texts[place] = <<>>,
         NEW str \in Seq(Signs), NEW r, r = Reader(GranteePath(s), texts, gs, "OK"),
         NEW q, q = Reader(GranteePath(s), [p \in Places |-> IF p = place THEN str ELSE texts[p]], gs, "OK")
  PROVE  IF Len(str) <= GranteeSize THEN Leads(s, r, Element(name, str), q)
         ELSE Fails(s, r, Element(name, str))
<1>1. place \in Places /\ Longest(place) = GranteeSize
  BY FieldsArePlaces
<1>2. GranteePath(s) \in Seq(Signs) /\ Len(GranteePath(s)) <= 5
  BY ListPathTyped
<1>3. /\ TextAdded(texts, place, str) = [p \in Places |-> IF p = place THEN str ELSE texts[p]]
      /\ Len(texts[place]) + Len(str) = Len(str)
      /\ Len(texts[place]) <= Longest(place)
  BY <1>1, AddedToEmpty
<1>4. IF Len(texts[place]) + Len(str) <= Longest(place)
      THEN Leads(s, r, Element(name, str), Reader(GranteePath(s), TextAdded(texts, place, str), gs, "OK"))
      ELSE Fails(s, r, Element(name, str))
  BY <1>1, <1>2, <1>3, ElementRead
<1> QED
  BY <1>1, <1>3, <1>4

GranteeFits(s, g) ==
  /\ g.granteeType = "AmazonCustomerByEmail" => Len(g.id) <= GranteeSize
  /\ g.granteeType = "CanonicalUser" =>
       Len(g.name) <= GranteeSize /\ (s = "acl" => Len(g.id) <= GranteeSize)

LEMMA GranteePlaces ==
  ASSUME NEW s \in {"acl", "logging"}
  PROVE  /\ Append(GranteePath(s), "EmailAddress") = PlacePath(s, "emailAddress")
         /\ s = "acl" => Append(GranteePath(s), "ID") = PlacePath(s, "userId")
         /\ s = "logging" => \A place \in Places : Append(GranteePath(s), "ID") # PlacePath(s, place)
         /\ Append(GranteePath(s), "DisplayName") = PlacePath(s, "userDisplayName")
         /\ Append(GranteePath(s), "URI") = PlacePath(s, "groupUri")
<1>1. ASSUME s = "logging", NEW place \in Places PROVE Append(GranteePath(s), "ID") # PlacePath(s, place)
  <2>1. PICK g \in Seq(Signs), a \in Seq(Signs), h \in Seq(Signs), c \in Seq(Signs) :
          /\ g = GranteePath(s) /\ a = GranteePath("acl") /\ h = HeadPath(s)
          /\ c = Append(ListPath(s), "Grant") /\ Len(g) = 5 /\ Len(a) = 4
    <3>1. Append(ListPath(s), "Grant") \in Seq(Signs)
      BY ListPathTyped, NamesAreSigns DEF DocumentNames
    <3>2. Len(GranteePath("acl")) = 4 /\ Len(GranteePath(s)) = 5
      BY <1>1, NamesAreSigns DEF ListPath, GranteePath, DocumentNames
    <3> QED
      BY <3>1, <3>2, ListPathTyped
  <2>2. {"EmailAddress", "ID", "DisplayName", "URI", "Permission", "TargetBucket", "TargetPrefix"} \subseteq Signs
    BY NamesAreSigns DEF DocumentNames
  <2>3. ASSUME NEW u \in Seq(Signs), NEW v \in Seq(Signs), NEW m \in Signs, NEW n \in Signs,
               Append(u, m) = Append(v, n)
        PROVE  Len(u) = Len(v) /\ m = n
    BY <2>3, AppendInjective
  <2>4. PICK parent \in Seq(Signs), name \in Signs :
          PlacePath(s, place) = Append(parent, name) /\ (Len(parent) # 5 \/ name # "ID")
    <3>1. CASE place = "userId"
      <4>0. PlacePath(s, "userId") = Append(GranteePath("acl"), "ID")
        BY PlacePathIs
      <4>1. PlacePath(s, place) = Append(a, "ID")
        <5>1. a = GranteePath("acl")
          BY <2>1
        <5> QED
          BY <3>1, <4>0, <5>1, Zenon
      <4>2. "ID" \in Signs
        BY <2>2
      <4>3. Len(a) # 5
        <5>1. Len(a) = 4
          BY <2>1, Zenon
        <5> QED
          BY <5>1
      <4> QED
        BY <4>1, <4>2, <4>3
    <3>2. CASE place = "permission"
      <4>1. PlacePath(s, place) = Append(c, "Permission")
        BY <2>1, <3>2, PlacePathIs
      <4> QED
        BY <2>1, <2>2, <4>1
    <3>3. CASE place \in {"head1", "head2"}
      <4>1. \E name \in {"TargetBucket", "TargetPrefix"} : PlacePath(s, place) = Append(h, name)
        BY <1>1, <2>1, <3>3, PlacePathIs
      <4> QED
        BY <2>1, <2>2, <4>1
    <3>4. CASE place \in {"emailAddress", "userDisplayName", "groupUri"}
      <4>1. \E name \in {"EmailAddress", "DisplayName", "URI"} : PlacePath(s, place) = Append(g, name)
        BY <2>1, <3>4, PlacePathIs
      <4> QED
        BY <2>1, <2>2, <4>1
    <3> QED
      BY <3>1, <3>2, <3>3, <3>4 DEF Places, Fields
  <2> QED
    BY <2>1, <2>2, <2>3, <2>4
<1> QED
  BY <1>1, PlacePathIs

LEMMA GranteeIsRead ==
  ASSUME NEW s \in {"acl", "logging"}, NEW by, NEW g \in GrantRecords,
         NEW texts, NoFieldsIn(texts), NEW gs,
         NEW r, r = Reader(GranteePath(s), texts, gs, "OK"),
         NEW q, q = Reader(GranteePath(s), WithFields(texts, GrantSaid(s, by, g)), gs, "OK")
  PROVE  IF GranteeFits(s, g) THEN Leads(s, r, GranteePiece(by, g), q)
         ELSE Fails(s, r, GranteePiece(by, g))
<1>1. /\ g.granteeType \in Signs /\ g.id \in Seq(Signs) /\ g.name \in Seq(Signs)
      /\ GroupUri(by, g.granteeType) \in Signs
  BY SaidTyped DEF GrantRecords
<1>2. texts \in [Places -> Seq(Signs)] /\ \A f \in Fields : texts[f] = <<>>
  BY DEF NoFieldsIn
<1>3. /\ "emailAddress" \in Fields /\ "userId" \in Fields /\ "userDisplayName" \in Fields
      /\ "groupUri" \in Fields
  BY DEF Fields
<1>4. "EmailAddress" \in Signs /\ "ID" \in Signs /\ "DisplayName" \in Signs /\ "URI" \in Signs
  BY NamesAreSigns DEF DocumentNames
<1>5. CASE g.granteeType = "AmazonCustomerByEmail"
  <2>1. WithFields(texts, GrantSaid(s, by, g))
          = [p \in Places |-> IF p = "emailAddress" THEN g.id ELSE texts[p]]
    BY <1>2, <1>3, <1>5 DEF WithFields, GrantSaid, Fields
  <2>2. GranteePiece(by, g) = Element("EmailAddress", g.id)
    BY <1>5 DEF GranteePiece
  <2>3. IF Len(g.id) <= GranteeSize THEN Leads(s, r, Element("EmailAddress", g.id), q)
        ELSE Fails(s, r, Element("EmailAddress", g.id))
    <3>1. PICK place, name, str : place = "emailAddress" /\ name = "EmailAddress" /\ str = g.id
      OBVIOUS
    <3>2. /\ place \in Fields /\ name \in Signs /\ name # "Grant" /\ str \in Seq(Signs)
          /\ texts[place] = <<>> /\ Append(GranteePath(s), name) = PlacePath(s, place)
      BY <1>1, <1>2, <1>3, <1>4, <3>1, GranteePlaces
    <3>3. q = Reader(GranteePath(s), [p \in Places |-> IF p = place THEN str ELSE texts[p]], gs, "OK")
      BY <2>1, <3>1
    <3>4. IF Len(str) <= GranteeSize THEN Leads(s, r, Element(name, str), q)
          ELSE Fails(s, r, Element(name, str))
      BY <1>2, <3>2, <3>3, OneElement
    <3> QED
      BY <3>1, <3>4
  <2>4. GranteeFits(s, g) <=> Len(g.id) <= GranteeSize
    BY <1>5 DEF GranteeFits
  <2> QED
    BY <2>2, <2>3, <2>4
<1>6. CASE g.granteeType = "CanonicalUser"
  <2>1. GranteePiece(by, g) = Element("ID", g.id) \o Element("DisplayName", g.name)
    BY <1>6 DEF GranteePiece
  <2>2. Element("ID", g.id) \in Seq(Units) /\ Element("DisplayName", g.name) \in Seq(Units)
    BY <1>1, <1>4, ElementTyped
  <2>3. PICK middle : middle = [p \in Places |->
            IF p = "userId" THEN IF s = "acl" THEN g.id ELSE <<>> ELSE texts[p]]
    OBVIOUS
  <2>4. middle \in [Places -> Seq(Signs)] /\ middle["userDisplayName"] = <<>>
    BY <1>1, <1>2, <1>3, <2>3, FieldsArePlaces
  <2>5. PICK t : t = Reader(GranteePath(s), middle, gs, "OK")
    OBVIOUS
  <2>6. IF s = "acl" => Len(g.id) <= GranteeSize THEN Leads(s, r, Element("ID", g.id), t)
        ELSE Fails(s, r, Element("ID", g.id))
    <3>1. CASE s = "acl"
      <4>1. PICK place, name, str : place = "userId" /\ name = "ID" /\ str = g.id
        OBVIOUS
      <4>2. /\ place \in Fields /\ name \in Signs /\ name # "Grant" /\ str \in Seq(Signs)
            /\ texts[place] = <<>> /\ Append(GranteePath(s), name) = PlacePath(s, place)
        BY <1>1, <1>2, <1>3, <1>4, <3>1, <4>1, GranteePlaces
      <4>3. t = Reader(GranteePath(s), [p \in Places |-> IF p = place THEN str ELSE texts[p]], gs, "OK")
        BY <2>3, <2>5, <3>1, <4>1
      <4>4. IF Len(str) <= GranteeSize THEN Leads(s, r, Element(name, str), t)
            ELSE Fails(s, r, Element(name, str))
        BY <1>2, <4>2, <4>3, OneElement
      <4> QED
        BY <3>1, <4>1, <4>4
    <3>2. CASE s = "logging"
      <4>1. middle = texts
        <5>1. \A p \in Places : (IF p = "userId" THEN IF s = "acl" THEN g.id ELSE <<>> ELSE texts[p]) = texts[p]
          BY <1>2, <1>3, <3>2
        <5> QED
          BY <1>2, <2>3, <5>1
      <4>2. /\ GranteePath(s) \in Seq(Signs) /\ Len(GranteePath(s)) <= 5
            /\ \A place \in Places : Append(GranteePath(s), "ID") # PlacePath(s, place)
        BY <3>2, ListPathTyped, GranteePlaces
      <4>3. Leads(s, r, Element("ID", g.id), r)
        BY <1>1, <1>4, <4>2, ElementIgnored
      <4> QED
        BY <2>5, <3>2, <4>1, <4>3
    <3> QED
      BY <3>1, <3>2
  <2>7. IF Len(g.name) <= GranteeSize THEN Leads(s, t, Element("DisplayName", g.name), q)
        ELSE Fails(s, t, Element("DisplayName", g.name))
    <3>1. PICK place, name, str : place = "userDisplayName" /\ name = "DisplayName" /\ str = g.name
      OBVIOUS
    <3>2. /\ place \in Fields /\ name \in Signs /\ name # "Grant" /\ str \in Seq(Signs)
          /\ middle[place] = <<>> /\ Append(GranteePath(s), name) = PlacePath(s, place)
      BY <1>1, <1>3, <1>4, <2>4, <3>1, GranteePlaces
    <3>3. q = Reader(GranteePath(s), [p \in Places |-> IF p = place THEN str ELSE middle[p]], gs, "OK")
      <4>1. WithFields(texts, GrantSaid(s, by, g))
              = [p \in Places |-> IF p = place THEN str ELSE middle[p]]
        BY <1>2, <1>6, <2>3, <3>1 DEF WithFields, GrantSaid, Fields
      <4> QED
        BY <4>1
    <3>4. IF Len(str) <= GranteeSize THEN Leads(s, t, Element(name, str), q)
          ELSE Fails(s, t, Element(name, str))
      BY <2>4, <2>5, <3>2, <3>3, OneElement
    <3> QED
      BY <3>1, <3>4
  <2>8. GranteeFits(s, g) <=> Len(g.name) <= GranteeSize /\ (s = "acl" => Len(g.id) <= GranteeSize)
    BY <1>6 DEF GranteeFits
  <2>9. t.grants = r.grants
    BY <2>5 DEF Reader
  <2> QED
    BY <2>1, <2>2, <2>6, <2>7, <2>8, <2>9, LeadsJoined, FailsBehind, FailsAfter
<1>7. CASE g.granteeType \notin {"AmazonCustomerByEmail", "CanonicalUser"}
  <2>1. PICK uri \in Signs : uri = GroupUri(by, g.granteeType)
    BY <1>1
  <2>2. WithFields(texts, GrantSaid(s, by, g))
          = [p \in Places |-> IF p = "groupUri" THEN <<uri>> ELSE texts[p]]
    BY <1>2, <1>3, <1>7, <2>1 DEF WithFields, GrantSaid, Fields
  <2>3. GranteePiece(by, g) = Element("URI", <<uri>>)
    BY <1>7, <2>1 DEF GranteePiece
  <2>4. PICK place, name, str : place = "groupUri" /\ name = "URI" /\ str = <<uri>>
    OBVIOUS
  <2>5. /\ place \in Fields /\ name \in Signs /\ name # "Grant" /\ str \in Seq(Signs)
        /\ texts[place] = <<>> /\ Append(GranteePath(s), name) = PlacePath(s, place)
    BY <1>1, <1>2, <1>3, <1>4, <2>4, GranteePlaces
  <2>6. q = Reader(GranteePath(s), [p \in Places |-> IF p = place THEN str ELSE texts[p]], gs, "OK")
    BY <2>2, <2>4
  <2>7. IF Len(str) <= GranteeSize THEN Leads(s, r, Element(name, str), q)
        ELSE Fails(s, r, Element(name, str))
    BY <1>2, <2>5, <2>6, OneElement
  <2>8. Len(str) <= GranteeSize
    BY <2>4, AccessControlAssumption
  <2>9. GranteeFits(s, g)
    BY <1>7 DEF GranteeFits
  <2> QED
    BY <2>3, <2>4, <2>7, <2>8, <2>9
<1> QED
  BY <1>5, <1>6, <1>7

-----------------------------------------------------------------------------
(* What is kept of a grant                                                 *)

LEMMA CutIs ==
  ASSUME NEW S, NEW str \in Seq(S)
  PROVE  /\ Cut(str, Held(GranteeSize)) \in Seq(S)
         /\ Cut(str, Held(GranteeSize)) = <<>> <=> str = <<>>
         /\ Len(str) = 1 => Cut(str, Held(GranteeSize)) = str
<1>1. PICK n \in Nat, h \in Nat \ {0} : n = Len(str) /\ h = Held(GranteeSize)
  BY AccessControlAssumption DEF Held
<1>2. PICK m \in Nat : m = Shorter(n, h) /\ m <= n
  BY DEF Shorter
<1>3. PICK c : c = SubSeq(str, 1, m) /\ c = Cut(str, h)
  BY <1>1, <1>2 DEF Cut
<1>4. c \in Seq(S) /\ Len(c) = m
  BY <1>1, <1>2, <1>3, Beginning
<1>5. m = 0 <=> n = 0
  BY <1>2 DEF Shorter
<1>6. c = <<>> <=> str = <<>>
  <2>1. c = <<>> <=> m = 0
    BY <1>4, EmptySeq
  <2>2. str = <<>> <=> n = 0
    BY <1>1, EmptySeq
  <2> QED
    BY <1>5, <2>1, <2>2
<1>7. n = 1 => c = str
  <2>1. n = 1 => m = n
    BY <1>2 DEF Shorter
  <2>2. SubSeq(str, 1, n) = str
    BY <1>1, SubSeqFull
  <2> QED
    BY <1>3, <2>1, <2>2
<1> QED
  BY <1>1, <1>3, <1>4, <1>6, <1>7

\* A grant with its texts cut, and the group that libs3 writes for it.
GrantKept(s, by, g) ==
  Grant(IF s = "logging" /\ by = "libs3" /\ g.granteeType = "LogDelivery" THEN "AllUsers"
        ELSE g.granteeType,
        Cut(g.id, Held(GranteeSize)), Cut(g.name, Held(GranteeSize)), g.permission)

CanRead(s, by, g) ==
  /\ g.permission \in Permissions
  /\ Len(g.id) <= GranteeSize /\ Len(g.name) <= GranteeSize
  /\ g.granteeType = "CanonicalUser" => s = "acl" /\ g.id # <<>> /\ g.name # <<>>
  /\ g.granteeType = "AmazonCustomerByEmail" => g.id # <<>>
  /\ g.granteeType \in GranteeTypes
  /\ g.granteeType = "LogDelivery" => s = "acl" \/ by = "libs3"

\* The grants that are written.
IsWritten(s, by, g) ==
  /\ g \in GrantRecords /\ IsGrant(g)
  /\ s = "acl" => by = "any"
  /\ by = "libs3" => g.granteeType \in GranteeTypes

\* The fields when a grant has been read.
GrantTexts(s, by, g) ==
  [f \in Fields |-> IF f = "permission" THEN <<g.permission>> ELSE GrantSaid(s, by, g)[f]]

GroupKnown(s, by, g) ==
  /\ g.granteeType \in GranteeTypes
  /\ g.granteeType = "LogDelivery" => s = "acl" \/ by = "libs3"

LEMMA GrantReadIs ==
  ASSUME NEW s, NEW fields, NEW e, NEW u, NEW d, NEW uri, NEW p, NEW sign,
         e = fields["emailAddress"].text, u = fields["userId"].text,
         d = fields["userDisplayName"].text, uri = fields["groupUri"].text,
         p = fields["permission"].text, p = <<sign>>
  PROVE  GrantRead(s, fields)
           = IF e # <<>> THEN {Grant("AmazonCustomerByEmail", e, <<>>, sign)}
             ELSE IF u # <<>> /\ d # <<>> THEN {Grant("CanonicalUser", u, d, sign)}
             ELSE {Grant(kind, <<>>, <<>>, sign) : kind \in {k \in Groups(s) : uri = <<k>>}}
<1>1. Len(p) = 1 /\ p[1] = sign
  OBVIOUS
<1> QED
  BY <1>1 DEF GrantRead

LEMMA FieldsHeldIs ==
  ASSUME NEW texts, NEW said \in [Fields -> Seq(Signs)],
         NEW f \in Fields
  PROVE  FieldsHeld(WithFields(texts, said))[f].text = Cut(said[f], Held(GranteeSize))
<1>1. f \in Places /\ WithFields(texts, said)[f] = said[f]
  BY FieldsArePlaces DEF WithFields
<1> QED
  BY <1>1 DEF FieldsHeld

LEMMA GrantTextsTyped ==
  ASSUME NEW s, NEW by, NEW g \in GrantRecords
  PROVE  GrantTexts(s, by, g) \in [Fields -> Seq(Signs)]
<1>1. GrantSaid(s, by, g) \in [Fields -> Seq(Signs)]
  BY SaidTyped
<1>2. <<g.permission>> \in Seq(Signs)
  BY DEF GrantRecords
<1> QED
  BY <1>1, <1>2 DEF GrantTexts

\* What is found when the grant's own texts are in the fields.
LEMMA GrantFound ==
  ASSUME NEW s \in {"acl", "logging"}, NEW by, NEW g, IsWritten(s, by, g), NEW texts,
         NEW found, found = GrantRead(s, FieldsHeld(WithFields(texts, GrantTexts(s, by, g))))
  PROVE  CASE g.granteeType = "AmazonCustomerByEmail" ->
                found = IF g.id # <<>> THEN {GrantKept(s, by, g)} ELSE {}
           [] g.granteeType = "CanonicalUser" ->
                found = IF s = "acl" /\ g.id # <<>> /\ g.name # <<>> THEN {GrantKept(s, by, g)} ELSE {}
           [] OTHER ->
                found = IF GroupKnown(s, by, g) THEN {GrantKept(s, by, g)} ELSE {}
<1>1. /\ g \in GrantRecords /\ g.granteeType \in Signs /\ g.id \in Seq(Signs) /\ g.name \in Seq(Signs)
      /\ g.permission \in Signs /\ GroupUri(by, g.granteeType) \in Signs
  BY SaidTyped DEF IsWritten, GrantRecords
<1>2. /\ "emailAddress" \in Fields /\ "userId" \in Fields /\ "userDisplayName" \in Fields
      /\ "groupUri" \in Fields /\ "permission" \in Fields
  BY DEF Fields
<1>3. PICK h : h = Held(GranteeSize)
  OBVIOUS
<1>4. PICK fields, said : /\ said = GrantTexts(s, by, g)
                          /\ fields = FieldsHeld(WithFields(texts, said))
  OBVIOUS
<1>5. \A f \in Fields : fields[f].text = Cut(said[f], h)
  BY <1>1, <1>3, <1>4, GrantTextsTyped, FieldsHeldIs
<1>6. PICK uri : uri = GroupUri(by, g.granteeType)
  OBVIOUS
<1>7. PICK perm : perm = g.permission
  OBVIOUS
<1>8. Cut(<<>>, h) = <<>>
  <2>1. <<>> \in Seq(Signs)
    OBVIOUS
  <2> QED
    BY <1>3, <2>1, CutIs
<1>9. Cut(<<uri>>, h) = <<uri>> /\ Cut(<<perm>>, h) = <<perm>>
  <2>1. \A sign \in Signs : <<sign>> \in Seq(Signs) /\ Len(<<sign>>) = 1
    OBVIOUS
  <2> QED
    BY <1>1, <1>3, <1>6, <1>7, <2>1, CutIs
<1>10. fields["permission"].text = <<perm>>
  BY <1>2, <1>4, <1>5, <1>7, <1>9 DEF GrantTexts
<1>11. PICK e, u, d, group :
         /\ e = fields["emailAddress"].text /\ u = fields["userId"].text
         /\ d = fields["userDisplayName"].text /\ group = fields["groupUri"].text
  OBVIOUS
<1>12. found = IF e # <<>> THEN {Grant("AmazonCustomerByEmail", e, <<>>, perm)}
               ELSE IF u # <<>> /\ d # <<>> THEN {Grant("CanonicalUser", u, d, perm)}
               ELSE {Grant(kind, <<>>, <<>>, perm) : kind \in {k \in Groups(s) : group = <<k>>}}
  <2>1. found = GrantRead(s, fields)
    BY <1>4
  <2>2. PICK p : p = <<perm>>
    OBVIOUS
  <2>3. p = fields["permission"].text
    BY <1>10, <2>2
  <2>4. GrantRead(s, fields)
          = IF e # <<>> THEN {Grant("AmazonCustomerByEmail", e, <<>>, perm)}
            ELSE IF u # <<>> /\ d # <<>> THEN {Grant("CanonicalUser", u, d, perm)}
            ELSE {Grant(kind, <<>>, <<>>, perm) : kind \in {k \in Groups(s) : group = <<k>>}}
    BY <1>11, <2>2, <2>3, GrantReadIs
  <2> QED
    BY <2>1, <2>4
<1>13. /\ e = IF g.granteeType = "AmazonCustomerByEmail" THEN Cut(g.id, h) ELSE <<>>
       /\ u = IF g.granteeType = "CanonicalUser" /\ s = "acl" THEN Cut(g.id, h) ELSE <<>>
       /\ d = IF g.granteeType = "CanonicalUser" THEN Cut(g.name, h) ELSE <<>>
       /\ group = IF g.granteeType \in {"AmazonCustomerByEmail", "CanonicalUser"} THEN <<>> ELSE <<uri>>
  <2>1. /\ e = Cut(said["emailAddress"], h) /\ u = Cut(said["userId"], h)
        /\ d = Cut(said["userDisplayName"], h) /\ group = Cut(said["groupUri"], h)
    BY <1>2, <1>5, <1>11
  <2>2. /\ said["emailAddress"] = IF g.granteeType = "AmazonCustomerByEmail" THEN g.id ELSE <<>>
        /\ said["userId"] = IF g.granteeType = "CanonicalUser" /\ s = "acl" THEN g.id ELSE <<>>
        /\ said["userDisplayName"] = IF g.granteeType = "CanonicalUser" THEN g.name ELSE <<>>
        /\ said["groupUri"] = IF g.granteeType \in {"AmazonCustomerByEmail", "CanonicalUser"} THEN <<>>
                              ELSE <<uri>>
    BY <1>2, <1>4, <1>6 DEF GrantTexts, GrantSaid
  <2> QED
    BY <1>8, <1>9, <2>1, <2>2
<1>14. PICK id, name : id = Cut(g.id, h) /\ name = Cut(g.name, h)
  OBVIOUS
<1>15. (id = <<>> <=> g.id = <<>>) /\ (name = <<>> <=> g.name = <<>>)
  BY <1>1, <1>3, <1>14, CutIs
<1>16. IsGrant(g)
  BY DEF IsWritten
<1>17. \A k : <<>> # <<k>>
  OBVIOUS
<1>18. CASE g.granteeType = "AmazonCustomerByEmail"
  <2>1. e = id /\ u = <<>> /\ group = <<>>
    BY <1>13, <1>14, <1>18
  <2>2. name = <<>>
    BY <1>15, <1>16, <1>18 DEF IsGrant
  <2>3. GrantKept(s, by, g) = Grant("AmazonCustomerByEmail", id, <<>>, perm)
    BY <1>3, <1>7, <1>14, <1>18, <2>2 DEF GrantKept
  <2>4. {Grant(kind, <<>>, <<>>, perm) : kind \in {k \in Groups(s) : group = <<k>>}} = {}
    BY <1>17, <2>1
  <2> QED
    BY <1>12, <1>15, <1>18, <2>1, <2>3, <2>4
<1>19. CASE g.granteeType = "CanonicalUser"
  <2>1. e = <<>> /\ d = name /\ group = <<>> /\ (s = "acl" => u = id) /\ (s # "acl" => u = <<>>)
    BY <1>13, <1>14, <1>19
  <2>2. GrantKept(s, by, g) = Grant("CanonicalUser", id, name, perm)
    BY <1>3, <1>7, <1>14, <1>19 DEF GrantKept
  <2>3. {Grant(kind, <<>>, <<>>, perm) : kind \in {k \in Groups(s) : group = <<k>>}} = {}
    BY <1>17, <2>1
  <2> QED
    BY <1>12, <1>15, <1>19, <2>1, <2>2, <2>3
<1>20. CASE g.granteeType \notin {"AmazonCustomerByEmail", "CanonicalUser"}
  <2>1. e = <<>> /\ u = <<>> /\ group = <<uri>>
    BY <1>13, <1>20
  <2>2. id = <<>> /\ name = <<>>
    BY <1>15, <1>16, <1>20 DEF IsGrant
  <2>3. {k \in Groups(s) : group = <<k>>} = IF uri \in Groups(s) THEN {uri} ELSE {}
    <3>1. \A k : <<uri>> = <<k>> <=> k = uri
      OBVIOUS
    <3> QED
      BY <2>1, <3>1
  <2>4. found = IF uri \in Groups(s) THEN {Grant(uri, <<>>, <<>>, perm)} ELSE {}
    BY <1>12, <2>1, <2>3
  <2>5. uri \in Groups(s) <=> GroupKnown(s, by, g)
    <3>1. s = "acl" => uri = g.granteeType
      BY <1>6 DEF GroupUri, IsWritten
    <3>2. s = "logging" => uri = IF by = "libs3" /\ g.granteeType # "AllAwsUsers" THEN "AllUsers"
                                ELSE g.granteeType
      BY <1>6 DEF GroupUri
    <3>3. by = "libs3" => g.granteeType \in GranteeTypes
      BY DEF IsWritten
    <3>4. CASE s = "acl"
      BY <1>20, <3>1, <3>4 DEF Groups, GranteeTypes, GroupKnown
    <3>5. CASE s = "logging" /\ by = "libs3"
      BY <1>20, <3>2, <3>3, <3>5 DEF Groups, GranteeTypes, GroupKnown
    <3>6. CASE s = "logging" /\ by # "libs3"
      <4>1. uri = g.granteeType /\ s # "acl"
        BY <3>2, <3>6
      <4>2. uri \in {"AllAwsUsers", "AllUsers"} \cup {}
              <=> uri \in GranteeTypes /\ uri # "LogDelivery"
        BY <1>20, <4>1 DEF GranteeTypes
      <4>3. Groups(s) = {"AllAwsUsers", "AllUsers"} \cup {}
        BY <4>1 DEF Groups
      <4>4. GroupKnown(s, by, g) <=> uri \in GranteeTypes /\ uri # "LogDelivery"
        BY <3>6, <4>1 DEF GroupKnown
      <4> QED
        BY <4>2, <4>3, <4>4
    <3> QED
      BY <3>4, <3>5, <3>6
  <2>6. uri \in Groups(s) => GrantKept(s, by, g) = Grant(uri, <<>>, <<>>, perm)
    <3>1. s = "acl" => uri = g.granteeType
      BY <1>6 DEF GroupUri, IsWritten
    <3>2. s = "logging" => uri = IF by = "libs3" /\ g.granteeType # "AllAwsUsers" THEN "AllUsers"
                                ELSE g.granteeType
      BY <1>6 DEF GroupUri
    <3>3. by = "libs3" => g.granteeType \in GranteeTypes
      BY DEF IsWritten
    <3>4. uri = IF s = "logging" /\ by = "libs3" /\ g.granteeType = "LogDelivery" THEN "AllUsers"
                ELSE g.granteeType
      BY <1>20, <3>1, <3>2, <3>3 DEF GranteeTypes
    <3> QED
      BY <1>3, <1>7, <1>14, <2>2, <3>4 DEF GrantKept
  <2>7. found = IF GroupKnown(s, by, g) THEN {GrantKept(s, by, g)} ELSE {}
    <3>1. CASE uri \in Groups(s)
      BY <2>4, <2>5, <2>6, <3>1
    <3>2. CASE uri \notin Groups(s)
      BY <2>4, <2>5, <3>2
    <3> QED
      BY <3>1, <3>2
  <2> QED
    BY <1>20, <2>7
<1> QED
  BY <1>18, <1>19, <1>20

-----------------------------------------------------------------------------
(* One grant, from its first tag to its last                               *)

LEMMA FieldsCleared ==
  ASSUME NEW texts, NoFieldsIn(texts), NEW said
  PROVE  Cleared(WithFields(texts, said)) = texts
<1>1. texts \in [Places -> Seq(Signs)] /\ \A f \in Fields : texts[f] = <<>>
  BY DEF NoFieldsIn
<1>2. PICK w : w = [p \in Places |-> IF p \in Fields THEN said[p] ELSE texts[p]]
  OBVIOUS
<1>3. \A p \in Places : (IF p \in Fields THEN <<>> ELSE w[p]) = texts[p]
  BY <1>1, <1>2
<1>4. Cleared(w) = texts
  BY <1>1, <1>3 DEF Cleared
<1> QED
  BY <1>2, <1>4 DEF WithFields

LEMMA PermissionAdded ==
  ASSUME NEW s, NEW by, NEW g \in GrantRecords, NEW texts, NoFieldsIn(texts),
         NEW w, w = WithFields(texts, GrantSaid(s, by, g))
  PROVE  /\ w \in [Places -> Seq(Signs)] /\ w["permission"] = <<>>
         /\ TextAdded(w, "permission", <<g.permission>>) = WithFields(texts, GrantTexts(s, by, g))
<1>1. texts \in [Places -> Seq(Signs)]
  BY DEF NoFieldsIn
<1>2. PICK said : said = GrantSaid(s, by, g) /\ said \in [Fields -> Seq(Signs)]
  BY SaidTyped
<1>3. w = [p \in Places |-> IF p \in Fields THEN said[p] ELSE texts[p]]
  BY <1>2 DEF WithFields
<1>4. "permission" \in Fields /\ "permission" \in Places
  BY DEF Fields, Places
<1>5. w \in [Places -> Seq(Signs)]
  BY <1>1, <1>2, <1>3, FieldsArePlaces
<1>6. said["permission"] = <<>>
  BY <1>2, <1>4 DEF GrantSaid
<1>7. w["permission"] = <<>>
  BY <1>3, <1>4, <1>6
<1>8. PICK perm : perm = <<g.permission>> /\ perm \in Seq(Signs)
  <2>1. g.permission \in Signs
    BY DEF GrantRecords
  <2>2. <<g.permission>> \in Seq(Signs)
    BY <2>1
  <2> QED
    BY <2>2
<1>9. <<>> \o perm = perm
  BY <1>8, ConcatEmptySeq
<1>10. ASSUME NEW p \in Places
       PROVE  (IF p = "permission" THEN w[p] \o perm ELSE w[p])
                = IF p \in Fields THEN GrantTexts(s, by, g)[p] ELSE texts[p]
  <2>1. CASE p = "permission"
    <3>1. GrantTexts(s, by, g)[p] = perm
      BY <1>4, <1>8, <2>1 DEF GrantTexts
    <3> QED
      BY <1>4, <1>7, <1>9, <2>1, <3>1
  <2>2. CASE p # "permission" /\ p \in Fields
    <3>1. GrantTexts(s, by, g)[p] = said[p]
      BY <1>2, <2>2 DEF GrantTexts
    <3>2. w[p] = said[p]
      BY <1>3, <2>2
    <3> QED
      BY <2>2, <3>1, <3>2
  <2>3. CASE p \notin Fields
    BY <1>3, <1>4, <2>3
  <2> QED
    BY <2>1, <2>2, <2>3
<1>11. TextAdded(w, "permission", perm) = WithFields(texts, GrantTexts(s, by, g))
  BY <1>10 DEF TextAdded, WithFields
<1> QED
  BY <1>5, <1>7, <1>8, <1>11

\* The end of a grant whose texts have been read.
LEMMA GrantEnds ==
  ASSUME NEW s \in {"acl", "logging"}, NEW by, NEW g, IsWritten(s, by, g), GranteeFits(s, g),
         NEW texts, NoFieldsIn(texts), NEW gs,
         NEW r, r = Reader(Append(ListPath(s), "Grant"), WithFields(texts, GrantTexts(s, by, g)), gs, "OK"),
         NEW q, q = Reader(ListPath(s), texts, Append(gs, GrantKept(s, by, g)), "OK")
  PROVE  IF Len(gs) # S3_MAX_ACL_GRANT_COUNT /\ CanRead(s, by, g)
         THEN Leads(s, r, End("Grant"), q) ELSE Fails(s, r, End("Grant"))
<1>1. PICK found : found = GrantRead(s, FieldsHeld(WithFields(texts, GrantTexts(s, by, g))))
  OBVIOUS
<1>2. /\ r.path = GrantPath(s) /\ r.texts = WithFields(texts, GrantTexts(s, by, g))
      /\ r.grants = gs /\ r.status = "OK"
  BY GrantPathIs DEF Reader
<1>3. PICK unit : unit = [tag |-> "end", what |-> "Grant"]
  OBVIOUS
<1>4. AfterUnit(s, r, unit) = AfterGrant(s, r)
  BY <1>2, <1>3 DEF AfterUnit
<1>5. found = {} \/ found = {GrantKept(s, by, g)}
  BY <1>1, GrantFound
<1>6. GrantKept(s, by, g).permission = g.permission
  BY DEF GrantKept, Grant
<1>7. CanRead(s, by, g) <=> found # {} /\ g.permission \in Permissions
  <2>1. CASE g.granteeType = "AmazonCustomerByEmail"
    <3>1. found = IF g.id # <<>> THEN {GrantKept(s, by, g)} ELSE {}
      BY <1>1, <2>1, GrantFound
    <3>2. g.name = <<>> /\ Len(g.id) <= GranteeSize
      BY <2>1 DEF IsWritten, IsGrant, GranteeFits
    <3>3. Len(g.name) <= GranteeSize
      BY <3>2, AccessControlAssumption
    <3> QED
      BY <2>1, <3>1, <3>2, <3>3 DEF CanRead, GranteeTypes
  <2>2. CASE g.granteeType = "CanonicalUser"
    <3>1. found = IF s = "acl" /\ g.id # <<>> /\ g.name # <<>> THEN {GrantKept(s, by, g)} ELSE {}
      BY <1>1, <2>2, GrantFound
    <3>2. Len(g.name) <= GranteeSize /\ (s = "acl" => Len(g.id) <= GranteeSize)
      BY <2>2 DEF GranteeFits
    <3> QED
      BY <2>2, <3>1, <3>2 DEF CanRead, GranteeTypes
  <2>3. CASE g.granteeType \notin {"AmazonCustomerByEmail", "CanonicalUser"}
    <3>1. found = IF GroupKnown(s, by, g) THEN {GrantKept(s, by, g)} ELSE {}
      BY <1>1, <2>3, GrantFound
    <3>2. g.name = <<>> /\ g.id = <<>>
      BY <2>3 DEF IsWritten, IsGrant
    <3>3. Len(g.name) <= GranteeSize /\ Len(g.id) <= GranteeSize
      BY <3>2, AccessControlAssumption
    <3> QED
      BY <2>3, <3>1, <3>3 DEF CanRead, GroupKnown
  <2> QED
    BY <2>1, <2>2, <2>3
<1>8. CASE Len(gs) # S3_MAX_ACL_GRANT_COUNT /\ CanRead(s, by, g)
  <2>1. found = {GrantKept(s, by, g)}
    BY <1>5, <1>7, <1>8
  <2>2. (CHOOSE k \in found : TRUE) = GrantKept(s, by, g)
    BY <2>1
  <2>3. AfterGrant(s, r) = Reader(Front(r.path), Cleared(r.texts), Append(r.grants, CHOOSE k \in found : TRUE), "OK")
    BY <1>1, <1>2, <1>6, <1>7, <1>8, <2>1 DEF AfterGrant
  <2>4. Front(r.path) = ListPath(s)
    BY ListPathTyped, NamesAreSigns, FrontAppended DEF DocumentNames, Reader
  <2>5. Cleared(r.texts) = texts
    BY <1>2, FieldsCleared
  <2>6. AfterUnit(s, r, unit) = q
    BY <1>2, <1>4, <2>2, <2>3, <2>4, <2>5
  <2>7. Leads(s, r, End("Grant"), q)
    BY <1>3, <2>6, LeadsOne DEF End
  <2> QED
    BY <1>8, <2>7
<1>9. CASE ~(Len(gs) # S3_MAX_ACL_GRANT_COUNT /\ CanRead(s, by, g))
  <2>1. AfterGrant(s, r) = Failed(r)
    BY <1>1, <1>2, <1>5, <1>6, <1>7, <1>9 DEF AfterGrant
  <2>2. PICK t : t = Failed(r)
    OBVIOUS
  <2>3. t.status = "failed" /\ t.grants = r.grants
    BY <2>2 DEF Failed, Reader
  <2>4. Leads(s, r, End("Grant"), t)
    BY <1>3, <1>4, <2>1, <2>2, LeadsOne DEF End
  <2>5. Fails(s, r, End("Grant"))
    BY <2>3, <2>4 DEF Fails
  <2> QED
    BY <1>9, <2>5
<1> QED
  BY <1>8, <1>9

\* One grant, read from its first tag to its last.
LEMMA GrantBlock ==
  ASSUME NEW s \in {"acl", "logging"}, NEW by, NEW g, IsWritten(s, by, g),
         NEW texts, NoFieldsIn(texts), NEW gs,
         NEW r, r = Reader(ListPath(s), texts, gs, "OK"),
         NEW q, q = Reader(ListPath(s), texts, Append(gs, GrantKept(s, by, g)), "OK")
  PROVE  IF Len(gs) # S3_MAX_ACL_GRANT_COUNT /\ CanRead(s, by, g)
         THEN Leads(s, r, GrantUnits(by, g), q) ELSE Fails(s, r, GrantUnits(by, g))
<1>1. /\ g \in GrantRecords /\ g.permission \in Signs /\ <<g.permission>> \in Seq(Signs)
  <2>1. g \in GrantRecords /\ g.permission \in Signs
    BY DEF IsWritten, GrantRecords
  <2> QED
    BY <2>1
<1>2. "Grant" \in Signs /\ "Grantee" \in Signs /\ "Permission" \in Signs
  BY NamesAreSigns DEF DocumentNames
<1>3. PICK a, b, c, d, e :
        /\ a = Start("Grant") \o Start("Grantee") /\ b = GranteePiece(by, g)
        /\ c = End("Grantee") /\ d = Element("Permission", <<g.permission>>) /\ e = End("Grant")
  OBVIOUS
<1>4. Start("Grant") \in Seq(Units) /\ Start("Grantee") \in Seq(Units)
  BY <1>2, TagsTyped
<1>5. /\ a \in Seq(Units) /\ b \in Seq(Units) /\ c \in Seq(Units) /\ d \in Seq(Units)
      /\ e \in Seq(Units)
  <2>1. a \in Seq(Units)
    BY <1>3, <1>4, ConcatProperties
  <2>2. b \in Seq(Units)
    BY <1>1, <1>3, GranteeTyped
  <2>3. c \in Seq(Units) /\ e \in Seq(Units)
    BY <1>2, <1>3, TagsTyped
  <2>4. d \in Seq(Units)
    BY <1>1, <1>2, <1>3, ElementTyped
  <2> QED
    BY <2>1, <2>2, <2>3, <2>4
<1>6. PICK ab, cd, cde : ab = a \o b /\ cd = c \o d /\ cde = cd \o e
  OBVIOUS
<1>7. ab \in Seq(Units) /\ cd \in Seq(Units) /\ cde \in Seq(Units)
  <2>1. ab \in Seq(Units) /\ cd \in Seq(Units)
    BY <1>5, <1>6, ConcatProperties
  <2> QED
    BY <1>5, <1>6, <2>1, ConcatProperties
<1>8. GrantUnits(by, g) = ab \o cde
  BY <1>3, <1>6 DEF GrantUnits
<1>9. PICK path : path = Append(ListPath(s), "Grant")
  OBVIOUS
<1>10. path \in Seq(Signs) /\ Len(path) <= 4 /\ Append(path, "Grantee") = GranteePath(s)
  <2>1. ListPath(s) \in Seq(Signs) /\ Len(ListPath(s)) <= 3
    BY ListPathTyped
  <2> QED
    BY <1>2, <1>9, <2>1 DEF GranteePath
<1>11. PICK r2 : r2 = Reader(GranteePath(s), texts, gs, "OK")
  OBVIOUS
<1>12. r2.grants = gs /\ r.grants = gs
  BY <1>11 DEF Reader
<1>13. Leads(s, r, a, r2)
  <2>1. PICK r1 : r1 = Reader(path, texts, gs, "OK")
    OBVIOUS
  <2>2. ListPath(s) \in Seq(Signs) /\ Len(ListPath(s)) <= 5
    BY ListPathTyped
  <2>3. Leads(s, r, Start("Grant"), r1)
    BY <1>9, <2>1, <2>2, StartRead
  <2>4. path \in Seq(Signs) /\ Len(path) <= 5
    BY <1>10
  <2>5. Leads(s, r1, Start("Grantee"), r2)
    BY <1>10, <1>11, <2>1, <2>4, StartRead
  <2> QED
    BY <1>3, <1>4, <2>3, <2>5, LeadsJoined
<1>14. PICK w, r3 : w = WithFields(texts, GrantSaid(s, by, g)) /\ r3 = Reader(GranteePath(s), w, gs, "OK")
  OBVIOUS
<1>15. IF GranteeFits(s, g) THEN Leads(s, r2, b, r3) ELSE Fails(s, r2, b)
  BY <1>1, <1>3, <1>11, <1>14, GranteeIsRead
<1>16. CASE GranteeFits(s, g)
  <2>1. Leads(s, r, ab, r3)
    BY <1>5, <1>6, <1>13, <1>15, <1>16, LeadsJoined
  <2>2. PICK r4 : r4 = Reader(path, w, gs, "OK")
    OBVIOUS
  <2>3. Leads(s, r3, c, r4)
    BY <1>2, <1>3, <1>10, <1>14, <2>2, EndRead
  <2>4. PICK r5 : r5 = Reader(path, WithFields(texts, GrantTexts(s, by, g)), gs, "OK")
    OBVIOUS
  <2>5. Leads(s, r4, d, r5)
    <3>1. /\ w \in [Places -> Seq(Signs)] /\ w["permission"] = <<>>
          /\ TextAdded(w, "permission", <<g.permission>>) = WithFields(texts, GrantTexts(s, by, g))
      BY <1>1, <1>14, PermissionAdded
    <3>2. "permission" \in Places /\ Longest("permission") = GranteeSize
      BY FieldsArePlaces DEF Fields
    <3>3. Append(path, "Permission") = PlacePath(s, "permission")
      BY <1>9, PlacePathIs
    <3>4. PICK place, name, str :
            place = "permission" /\ name = "Permission" /\ str = <<g.permission>>
      OBVIOUS
    <3>5. str \in Seq(Signs) /\ Len(str) = 1 /\ Len(w[place]) = 0
      BY <1>1, <3>1, <3>4
    <3>6. Len(w[place]) <= Longest(place) /\ Len(w[place]) + Len(str) <= Longest(place)
      BY <3>2, <3>4, <3>5, AccessControlAssumption
    <3>7. name \in Signs /\ name # "Grant" /\ place \in Places /\ Append(path, name) = PlacePath(s, place)
      BY <1>2, <3>2, <3>3, <3>4
    <3>8. path \in Seq(Signs) /\ Len(path) <= 5
      BY <1>10
    <3>9. Leads(s, r4, Element(name, str), Reader(path, TextAdded(w, place, str), gs, "OK"))
      BY <2>2, <3>1, <3>5, <3>6, <3>7, <3>8, ElementRead
    <3> QED
      BY <1>3, <2>4, <3>1, <3>4, <3>9
  <2>6. IF Len(gs) # S3_MAX_ACL_GRANT_COUNT /\ CanRead(s, by, g)
        THEN Leads(s, r5, e, q) ELSE Fails(s, r5, e)
    BY <1>3, <1>9, <1>16, <2>4, GrantEnds
  <2>7. Leads(s, r3, cd, r5)
    BY <1>5, <1>6, <2>3, <2>5, LeadsJoined
  <2>8. r5.grants = gs /\ r3.grants = gs
    BY <1>14, <2>4 DEF Reader
  <2>9. CASE Len(gs) # S3_MAX_ACL_GRANT_COUNT /\ CanRead(s, by, g)
    <3>1. Leads(s, r5, e, q)
      BY <2>6, <2>9
    <3>2. cde = cd \o e
      BY <1>6
    <3>3. Leads(s, r3, cde, q)
      BY <1>5, <1>7, <2>7, <3>1, <3>2, LeadsJoined
    <3> QED
      BY <1>7, <1>8, <2>1, <2>9, <3>3, LeadsJoined
  <2>10. CASE ~(Len(gs) # S3_MAX_ACL_GRANT_COUNT /\ CanRead(s, by, g))
    <3>1. Fails(s, r3, cde)
      BY <1>5, <1>6, <1>7, <2>6, <2>7, <2>8, <2>10, FailsAfter
    <3>2. Fails(s, r, GrantUnits(by, g))
      BY <1>7, <1>8, <1>12, <2>1, <2>8, <3>1, FailsAfter
    <3> QED
      BY <2>10, <3>2
  <2> QED
    BY <2>9, <2>10
<1>17. CASE ~GranteeFits(s, g)
  <2>1. ~CanRead(s, by, g)
    BY <1>17 DEF CanRead, GranteeFits
  <2>2. Fails(s, r, ab)
    BY <1>5, <1>6, <1>12, <1>13, <1>15, <1>17, FailsAfter
  <2>3. Fails(s, r, GrantUnits(by, g))
    BY <1>7, <1>8, <2>2, FailsBehind
  <2> QED
    BY <2>1, <2>3
<1> QED
  BY <1>16, <1>17

-----------------------------------------------------------------------------
(* All grants, one after the other                                         *)

AllKept(s, by, gs) == [i \in 1 .. Len(gs) |-> GrantKept(s, by, gs[i])]

AllWrittenBy(s, by, gs) == gs \in Seq(GrantRecords) /\ \A i \in 1 .. Len(gs) : IsWritten(s, by, gs[i])

\* The first n grants can all be read.
FirstCanBeRead(s, by, gs, n) ==
  n <= S3_MAX_ACL_GRANT_COUNT /\ \A i \in 1 .. n : CanRead(s, by, gs[i])

\* What reading the first n grants comes to.
FirstAreRead(s, by, gs, texts, n) ==
  LET r     == Reader(ListPath(s), texts, <<>>, "OK")
      units == AllGrantUnits(by, SubSeq(gs, 1, n))
      kept(m) == SubSeq(AllKept(s, by, gs), 1, m)
  IN  IF FirstCanBeRead(s, by, gs, n)
      THEN Leads(s, r, units, Reader(ListPath(s), texts, kept(n), "OK"))
      ELSE \E m \in 0 .. n : \E q :
             Leads(s, r, units, q) /\ q.status = "failed" /\ q.grants = kept(m)

LEMMA UnitsAppended ==
  ASSUME NEW by, NEW gs \in Seq(GrantRecords), NEW g \in GrantRecords
  PROVE  /\ AllGrantUnits(by, Append(gs, g)) = AllGrantUnits(by, gs) \o GrantUnits(by, g)
         /\ AllGrantUnits(by, gs) \in Seq(Units) /\ GrantUnits(by, g) \in Seq(Units)
<1>1. PICK p, q, both :
        /\ p = AllGrantPieces(by, gs) /\ q = GrantPieces(by, g)
        /\ both = AllGrantPieces(by, Append(gs, g))
  OBVIOUS
<1>2. AreParts(Units, p) /\ AreParts(Units, q)
  BY <1>1, GrantsTyped, GrantTyped
<1>3. Together(p, q, both)
  BY <1>1, OneGrantMore DEF Together
<1>4. Together(FlattenSeq(p), FlattenSeq(q), FlattenSeq(both))
  BY <1>2, <1>3, FlattenJoined
<1>5. FlattenSeq(q) = GrantUnits(by, g)
  BY <1>1, GrantTyped
<1>6. GrantUnits(by, g) \in Seq(Units)
  BY <1>2, <1>5, FlattenIsSeq
<1> QED
  BY <1>1, <1>4, <1>5, <1>6, AllGrantsTyped DEF Together, AllGrantUnits

LEMMA AllKeptTyped ==
  ASSUME NEW s, NEW by, NEW gs \in Seq(GrantRecords)
  PROVE  /\ AllKept(s, by, gs) \in Seq(GrantRecords) /\ Len(AllKept(s, by, gs)) = Len(gs)
         /\ \A i \in 1 .. Len(gs) : AllKept(s, by, gs)[i] = GrantKept(s, by, gs[i])
<1>1. PICK n \in Nat : n = Len(gs)
  OBVIOUS
<1>2. ASSUME NEW i \in 1 .. n PROVE GrantKept(s, by, gs[i]) \in GrantRecords
  <2>1. PICK g \in GrantRecords : g = gs[i]
    BY <1>1
  <2>2. /\ g.granteeType \in Signs /\ g.id \in Seq(Signs) /\ g.name \in Seq(Signs)
        /\ g.permission \in Signs /\ "AllUsers" \in Signs
    BY NamesAreSigns DEF GrantRecords, DocumentNames
  <2>3. Cut(g.id, Held(GranteeSize)) \in Seq(Signs) /\ Cut(g.name, Held(GranteeSize)) \in Seq(Signs)
    BY <2>2, CutIs
  <2>4. GrantKept(s, by, g) \in GrantRecords
    BY <2>2, <2>3 DEF GrantKept, Grant, GrantRecords
  <2> QED
    BY <2>1, <2>4
<1>3. PICK k : k = AllKept(s, by, gs)
  OBVIOUS
<1>4. k \in [1 .. n -> GrantRecords] /\ \A i \in 1 .. n : k[i] = GrantKept(s, by, gs[i])
  BY <1>1, <1>2, <1>3 DEF AllKept
<1>5. k \in Seq(GrantRecords) /\ Len(k) = n
  BY <1>4
<1> QED
  BY <1>1, <1>3, <1>4, <1>5

LEMMA OneLongerAppended ==
  ASSUME NEW S, NEW str \in Seq(S), NEW n \in Nat, n < Len(str)
  PROVE  /\ SubSeq(str, 1, n + 1) = Append(SubSeq(str, 1, n), str[n + 1])
         /\ SubSeq(str, 1, n) \in Seq(S) /\ Len(SubSeq(str, 1, n)) = n /\ str[n + 1] \in S
<1>1. PICK i \in 1 .. Len(str) : i = n + 1
  OBVIOUS
<1>2. i - 1 = n
  BY <1>1
<1>3. SubSeq(str, 1, i) = SubSeq(str, 1, i - 1) \o <<str[i]>>
  BY OneLonger
<1>4. SubSeq(str, 1, n) \in Seq(S) /\ Len(SubSeq(str, 1, n)) = n
  BY Beginning
<1>5. str[i] \in S
  BY ElementOfSeq
<1>6. PICK p, x : p = SubSeq(str, 1, n) /\ x = str[i] /\ p \in Seq(S) /\ x \in S
  BY <1>4, <1>5
<1>7. p \o <<x>> = Append(p, x)
  BY <1>6
<1> QED
  BY <1>1, <1>2, <1>3, <1>4, <1>5, <1>6, <1>7

LEMMA NoneRead ==
  ASSUME NEW s \in {"acl", "logging"}, NEW by, NEW gs, AllWrittenBy(s, by, gs), NEW texts
  PROVE  FirstAreRead(s, by, gs, texts, 0)
<1>1. gs \in Seq(GrantRecords) /\ AllKept(s, by, gs) \in Seq(GrantRecords)
  BY AllKeptTyped DEF AllWrittenBy
<1>2. SubSeq(gs, 1, 0) = <<>> /\ SubSeq(AllKept(s, by, gs), 1, 0) = <<>>
  BY <1>1, SubSeqEmpty
<1>3. AllGrantUnits(by, <<>>) = <<>>
  <2>1. [i \in DOMAIN <<>> |-> GrantPieces(by, <<>>[i])] = <<>>
    OBVIOUS
  <2>2. AllGrantPieces(by, <<>>) = <<>>
    BY <2>1, FlattenNone DEF AllGrantPieces
  <2> QED
    BY <2>2, FlattenNone DEF AllGrantUnits
<1>4. FirstCanBeRead(s, by, gs, 0)
  BY AccessControlAssumption DEF FirstCanBeRead
<1> QED
  BY <1>2, <1>3, <1>4, LeadsNone DEF FirstAreRead

LEMMA OneMoreRead ==
  ASSUME NEW s \in {"acl", "logging"}, NEW by, NEW gs, AllWrittenBy(s, by, gs), NEW texts,
         NoFieldsIn(texts), NEW n \in Nat, n < Len(gs), FirstAreRead(s, by, gs, texts, n)
  PROVE  FirstAreRead(s, by, gs, texts, n + 1)
<1>1. PICK r, p, g, k :
        /\ r = Reader(ListPath(s), texts, <<>>, "OK") /\ p = SubSeq(gs, 1, n) /\ g = gs[n + 1]
        /\ k = AllKept(s, by, gs)
  OBVIOUS
<1>2. gs \in Seq(GrantRecords) /\ k \in Seq(GrantRecords) /\ Len(k) = Len(gs)
  BY <1>1, AllKeptTyped DEF AllWrittenBy
<1>3. SubSeq(gs, 1, n + 1) = Append(p, g) /\ p \in Seq(GrantRecords) /\ g \in GrantRecords
  BY <1>1, <1>2, OneLongerAppended
<1>4. /\ SubSeq(k, 1, n + 1) = Append(SubSeq(k, 1, n), k[n + 1])
      /\ SubSeq(k, 1, n) \in Seq(GrantRecords) /\ Len(SubSeq(k, 1, n)) = n
  BY <1>2, OneLongerAppended
<1>5. k[n + 1] = GrantKept(s, by, g) /\ IsWritten(s, by, g)
  <2>1. n + 1 \in 1 .. Len(gs)
    BY <1>2
  <2> QED
    BY <1>1, <1>2, <2>1, AllKeptTyped DEF AllWrittenBy
<1>6. PICK a, b : a = AllGrantUnits(by, p) /\ b = GrantUnits(by, g)
  OBVIOUS
<1>7. AllGrantUnits(by, SubSeq(gs, 1, n + 1)) = a \o b /\ a \in Seq(Units) /\ b \in Seq(Units)
  BY <1>3, <1>6, UnitsAppended
<1>8. PICK units : units = AllGrantUnits(by, SubSeq(gs, 1, n + 1))
  OBVIOUS
<1>9. PICK t : t = SubSeq(k, 1, n)
  OBVIOUS
<1>10. CASE FirstCanBeRead(s, by, gs, n)
  <2>1. PICK q : q = Reader(ListPath(s), texts, t, "OK")
    OBVIOUS
  <2>2. Leads(s, r, a, q)
    BY <1>1, <1>6, <1>9, <1>10, <2>1 DEF FirstAreRead
  <2>3. PICK q2 : q2 = Reader(ListPath(s), texts, Append(t, GrantKept(s, by, g)), "OK")
    OBVIOUS
  <2>4. IF n # S3_MAX_ACL_GRANT_COUNT /\ CanRead(s, by, g)
        THEN Leads(s, q, b, q2) ELSE Fails(s, q, b)
    <3>1. Len(t) = n
      BY <1>4, <1>9
    <3>2. IF Len(t) # S3_MAX_ACL_GRANT_COUNT /\ CanRead(s, by, g)
          THEN Leads(s, q, b, q2) ELSE Fails(s, q, b)
      BY <1>5, <1>6, <2>1, <2>3, GrantBlock
    <3> QED
      BY <3>1, <3>2
  <2>5. FirstCanBeRead(s, by, gs, n + 1) <=> n # S3_MAX_ACL_GRANT_COUNT /\ CanRead(s, by, g)
    <3>1. n <= S3_MAX_ACL_GRANT_COUNT /\ S3_MAX_ACL_GRANT_COUNT \in Nat
      BY <1>10, AccessControlAssumption DEF FirstCanBeRead
    <3>2. 1 .. n + 1 = (1 .. n) \cup {n + 1}
      OBVIOUS
    <3>3. n + 1 <= S3_MAX_ACL_GRANT_COUNT <=> n # S3_MAX_ACL_GRANT_COUNT
      BY <3>1
    <3>4. (\A i \in 1 .. n + 1 : CanRead(s, by, gs[i])) <=> CanRead(s, by, g)
      BY <1>1, <1>10, <3>2 DEF FirstCanBeRead
    <3> QED
      BY <3>3, <3>4 DEF FirstCanBeRead
  <2>6. CASE FirstCanBeRead(s, by, gs, n + 1)
    <3>1. Leads(s, q, b, q2)
      BY <2>4, <2>5, <2>6
    <3>2. Leads(s, r, units, q2)
      BY <1>7, <1>8, <2>2, <3>1, LeadsJoined
    <3>3. q2 = Reader(ListPath(s), texts, SubSeq(k, 1, n + 1), "OK")
      BY <1>4, <1>5, <1>9, <2>3
    <3> QED
      BY <1>1, <1>8, <2>6, <3>2, <3>3 DEF FirstAreRead
  <2>7. CASE ~FirstCanBeRead(s, by, gs, n + 1)
    <3>1. PICK q3 : Leads(s, q, b, q3) /\ q3.status = "failed" /\ q3.grants = q.grants
      BY <2>4, <2>5, <2>7 DEF Fails
    <3>2. Leads(s, r, units, q3)
      BY <1>7, <1>8, <2>2, <3>1, LeadsJoined
    <3>3. q3.grants = SubSeq(k, 1, n) /\ n \in 0 .. n + 1
      BY <1>9, <2>1, <3>1 DEF Reader
    <3> QED
      BY <1>1, <1>8, <2>7, <3>1, <3>2, <3>3 DEF FirstAreRead
  <2> QED
    BY <2>6, <2>7
<1>11. CASE ~FirstCanBeRead(s, by, gs, n)
  <2>1. PICK m \in 0 .. n : \E q : Leads(s, r, a, q) /\ q.status = "failed" /\ q.grants = SubSeq(k, 1, m)
    BY <1>1, <1>6, <1>11 DEF FirstAreRead
  <2>2. PICK q : Leads(s, r, a, q) /\ q.status = "failed" /\ q.grants = SubSeq(k, 1, m)
    BY <2>1
  <2>3. Leads(s, q, b, q)
    BY <1>7, <2>2, FailedStays
  <2>4. Leads(s, r, units, q)
    BY <1>7, <1>8, <2>2, <2>3, LeadsJoined
  <2>5. ~FirstCanBeRead(s, by, gs, n + 1)
    <3>1. S3_MAX_ACL_GRANT_COUNT \in Nat /\ \A i \in 1 .. n : i \in 1 .. n + 1
      BY AccessControlAssumption
    <3> QED
      BY <1>11, <3>1 DEF FirstCanBeRead
  <2>6. m \in 0 .. n + 1
    OBVIOUS
  <2> QED
    BY <1>1, <1>8, <2>2, <2>4, <2>5, <2>6 DEF FirstAreRead
<1> QED
  BY <1>10, <1>11

\* All grants, whatever follows them.
LEMMA AllAreRead ==
  ASSUME NEW s \in {"acl", "logging"}, NEW by, NEW gs, AllWrittenBy(s, by, gs), NEW texts,
         NoFieldsIn(texts)
  PROVE  FirstAreRead(s, by, gs, texts, Len(gs))
<1>1. PICK len \in Nat : len = Len(gs)
  BY DEF AllWrittenBy
<1>2. PICK Good : Good = {n \in Nat : n <= len => FirstAreRead(s, by, gs, texts, n)}
  OBVIOUS
<1>3. 0 \in Good
  BY <1>2, NoneRead
<1>4. ASSUME NEW n \in Good PROVE n + 1 \in Good
  BY <1>1, <1>2, OneMoreRead
<1>5. Good = Nat
  BY <1>2, <1>3, <1>4, AllNumbers
<1> QED
  BY <1>1, <1>2, <1>5

-----------------------------------------------------------------------------
(* The heads of a document                                                 *)

HeadTexts(a, b) ==
  [p \in Places |-> IF p = "head1" THEN a ELSE IF p = "head2" THEN b ELSE <<>>]

\* Units that lead to q if they are fine; else it fails with some of these grants.
ReadsTo(s, r, units, fine, q, taken) ==
  /\ fine => Leads(s, r, units, q)
  /\ ~fine => \E t : Leads(s, r, units, t) /\ t.status = "failed" /\ t.grants \in taken

LEMMA ReadsOn ==
  ASSUME NEW s, NEW r, NEW q, NEW t, NEW a \in Seq(Units), NEW b \in Seq(Units),
         NEW fine, NEW taken, ReadsTo(s, r, a, fine, q, taken), Leads(s, q, b, t)
  PROVE  ReadsTo(s, r, a \o b, fine, t, taken)
<1>1. CASE fine
  <2>1. Leads(s, r, a, q)
    BY <1>1 DEF ReadsTo
  <2>2. Leads(s, r, a \o b, t)
    BY <2>1, LeadsJoined
  <2> QED
    BY <1>1, <2>2 DEF ReadsTo
<1>2. CASE ~fine
  <2>1. PICK u : Leads(s, r, a, u) /\ u.status = "failed" /\ u.grants \in taken
    BY <1>2 DEF ReadsTo
  <2>2. Leads(s, u, b, u)
    BY <2>1, FailedStays
  <2>3. Leads(s, r, a \o b, u)
    BY <2>1, <2>2, LeadsJoined
  <2> QED
    BY <1>2, <2>1, <2>3 DEF ReadsTo
<1> QED
  BY <1>1, <1>2

LEMMA BothRead ==
  ASSUME NEW s, NEW r, NEW q, NEW t, NEW a \in Seq(Units), NEW b \in Seq(Units),
         NEW fine, NEW well, NEW taken, NEW both, both <=> fine /\ well,
         ReadsTo(s, r, a, fine, q, taken), ReadsTo(s, q, b, well, t, taken)
  PROVE  ReadsTo(s, r, a \o b, both, t, taken)
<1>1. CASE fine /\ well
  <2>1. Leads(s, r, a, q) /\ Leads(s, q, b, t)
    BY <1>1 DEF ReadsTo
  <2>2. Leads(s, r, a \o b, t)
    BY <2>1, LeadsJoined
  <2> QED
    BY <1>1, <2>2 DEF ReadsTo
<1>2. CASE fine /\ ~well
  <2>1. Leads(s, r, a, q)
    BY <1>2 DEF ReadsTo
  <2>2. PICK u : Leads(s, q, b, u) /\ u.status = "failed" /\ u.grants \in taken
    BY <1>2 DEF ReadsTo
  <2>3. Leads(s, r, a \o b, u)
    BY <2>1, <2>2, LeadsJoined
  <2> QED
    BY <1>2, <2>2, <2>3 DEF ReadsTo
<1>3. CASE ~fine
  <2>1. PICK u : Leads(s, r, a, u) /\ u.status = "failed" /\ u.grants \in taken
    BY <1>3 DEF ReadsTo
  <2>2. Leads(s, u, b, u)
    BY <2>1, FailedStays
  <2>3. Leads(s, r, a \o b, u)
    BY <2>1, <2>2, LeadsJoined
  <2> QED
    BY <1>3, <2>1, <2>3 DEF ReadsTo
<1> QED
  BY <1>1, <1>2, <1>3

LEMMA TextsTyped ==
  ASSUME NEW a \in Seq(Signs), NEW b \in Seq(Signs)
  PROVE  /\ HeadTexts(a, b) \in [Places -> Seq(Signs)] /\ NoFieldsIn(HeadTexts(a, b))
         /\ NoTexts = HeadTexts(<<>>, <<>>) /\ NoTexts \in [Places -> Seq(Signs)]
         /\ TextAdded(HeadTexts(<<>>, <<>>), "head1", a) = HeadTexts(a, <<>>)
         /\ TextAdded(HeadTexts(a, <<>>), "head2", b) = HeadTexts(a, b)
         /\ HeadTexts(a, <<>>)["head2"] = <<>> /\ HeadTexts(<<>>, <<>>)["head1"] = <<>>
<1>1. <<>> \in Seq(Signs) /\ <<>> \o a = a /\ <<>> \o b = b
  BY ConcatEmptySeq
<1>2. /\ "head1" \in Places /\ "head2" \in Places /\ "head1" # "head2"
      /\ \A f \in Fields : f \in Places /\ f # "head1" /\ f # "head2"
  BY DEF Places, Fields
<1>3. HeadTexts(a, b) \in [Places -> Seq(Signs)] /\ NoFieldsIn(HeadTexts(a, b))
  BY <1>1, <1>2 DEF HeadTexts, NoFieldsIn
<1>4. NoTexts = HeadTexts(<<>>, <<>>) /\ NoTexts \in [Places -> Seq(Signs)]
  BY <1>1 DEF NoTexts, HeadTexts
<1>5. TextAdded(HeadTexts(<<>>, <<>>), "head1", a) = HeadTexts(a, <<>>)
  <2>1. \A p \in Places : HeadTexts(<<>>, <<>>)[p] = <<>>
    BY DEF HeadTexts
  <2> QED
    BY <1>1, <1>2, <2>1 DEF HeadTexts, TextAdded
<1>6. TextAdded(HeadTexts(a, <<>>), "head2", b) = HeadTexts(a, b)
  <2>1. \A p \in Places : HeadTexts(a, <<>>)[p] = IF p = "head1" THEN a ELSE <<>>
    BY DEF HeadTexts
  <2> QED
    BY <1>1, <1>2, <2>1 DEF HeadTexts, TextAdded
<1>7. HeadTexts(a, <<>>)["head2"] = <<>> /\ HeadTexts(<<>>, <<>>)["head1"] = <<>>
  BY <1>2 DEF HeadTexts
<1> QED
  BY <1>3, <1>4, <1>5, <1>6, <1>7

HeadName(s, n) ==
  IF s = "acl" THEN IF n = 1 THEN "ID" ELSE "DisplayName"
  ELSE IF n = 1 THEN "TargetBucket" ELSE "TargetPrefix"

HeadFits(str) == Len(str) < GranteeSize

LEMMA HeadElement ==
  ASSUME NEW s \in {"acl", "logging"}, NEW n \in {1, 2}, NEW place, NEW texts, NEW str \in Seq(Signs),
         place = IF n = 1 THEN "head1" ELSE "head2", texts \in [Places -> Seq(Signs)],
         texts[place] = <<>>, NEW taken, <<>> \in taken
  PROVE  /\ ReadsTo(s, Reader(HeadPath(s), texts, <<>>, "OK"), Element(HeadName(s, n), str),
                    HeadFits(str), Reader(HeadPath(s), TextAdded(texts, place, str), <<>>, "OK"), taken)
         /\ Element(HeadName(s, n), str) \in Seq(Units)
<1>1. PICK name, r : name = HeadName(s, n) /\ r = Reader(HeadPath(s), texts, <<>>, "OK")
  OBVIOUS
<1>2. name \in Signs /\ name # "Grant"
  BY <1>1, NamesAreSigns DEF HeadName, DocumentNames
<1>3. Append(HeadPath(s), name) = PlacePath(s, place)
  BY <1>1, PlacePathIs DEF HeadName
<1>4. place \in Places /\ Longest(place) = GranteeSize - 1
  BY DEF Places, Fields, Longest
<1>5. HeadPath(s) \in Seq(Signs) /\ Len(HeadPath(s)) <= 5
  <2>1. HeadPath(s) \in Seq(Signs) /\ Len(HeadPath(s)) = 2
    BY ListPathTyped, Zenon
  <2> QED
    BY <2>1
<1>6. Len(texts[place]) = 0 /\ Len(texts[place]) <= Longest(place)
  BY LongestIs
<1>7. HeadFits(str) <=> Len(texts[place]) + Len(str) <= Longest(place)
  BY <1>4, <1>6, AccessControlAssumption DEF HeadFits
<1>8. IF Len(texts[place]) + Len(str) <= Longest(place)
      THEN Leads(s, r, Element(name, str), Reader(HeadPath(s), TextAdded(texts, place, str), <<>>, "OK"))
      ELSE Fails(s, r, Element(name, str))
  BY <1>1, <1>2, <1>3, <1>4, <1>5, <1>6, ElementRead
<1>9. r.grants = <<>>
  BY <1>1 DEF Reader
<1>10. Element(name, str) \in Seq(Units)
  BY <1>2, ElementTyped
<1> QED
  BY <1>1, <1>7, <1>8, <1>9, <1>10 DEF ReadsTo, Fails

\* Beginnings of the grants.
Takeable(s, by, gs) == {SubSeq(AllKept(s, by, gs), 1, m) : m \in 0 .. Len(gs)}

LEMMA GrantsBlock ==
  ASSUME NEW s \in {"acl", "logging"}, NEW by, NEW gs, AllWrittenBy(s, by, gs), NEW texts,
         NoFieldsIn(texts)
  PROVE  /\ ReadsTo(s, Reader(ListPath(s), texts, <<>>, "OK"), AllGrantUnits(by, gs),
                    FirstCanBeRead(s, by, gs, Len(gs)),
                    Reader(ListPath(s), texts, AllKept(s, by, gs), "OK"), Takeable(s, by, gs))
         /\ <<>> \in Takeable(s, by, gs) /\ AllGrantUnits(by, gs) \in Seq(Units)
<1>0. PICK n \in Nat : n = Len(gs)
  BY DEF AllWrittenBy
<1>1. PICK k : n = Len(gs) /\ k = AllKept(s, by, gs)
  BY <1>0
<1>2. gs \in Seq(GrantRecords) /\ k \in Seq(GrantRecords) /\ Len(k) = n
  BY <1>1, AllKeptTyped DEF AllWrittenBy
<1>3. SubSeq(gs, 1, n) = gs /\ SubSeq(k, 1, n) = k /\ SubSeq(k, 1, 0) = <<>>
  BY <1>1, <1>2, SubSeqFull, SubSeqEmpty
<1>4. FirstAreRead(s, by, gs, texts, n)
  BY <1>1, AllAreRead
<1>5. <<>> \in Takeable(s, by, gs)
  <2>1. 0 \in 0 .. n
    OBVIOUS
  <2> QED
    BY <1>1, <1>3, <2>1 DEF Takeable
<1>6. AllGrantUnits(by, gs) \in Seq(Units)
  BY <1>2, AllGrantsTyped
<1>7. PICK r : r = Reader(ListPath(s), texts, <<>>, "OK")
  OBVIOUS
<1>8. CASE FirstCanBeRead(s, by, gs, n)
  <2>1. Leads(s, r, AllGrantUnits(by, gs), Reader(ListPath(s), texts, k, "OK"))
    BY <1>1, <1>3, <1>4, <1>7, <1>8 DEF FirstAreRead
  <2> QED
    BY <1>1, <1>5, <1>6, <1>7, <1>8, <2>1 DEF ReadsTo
<1>9. CASE ~FirstCanBeRead(s, by, gs, n)
  <2>1. \E m \in 0 .. n : \E q :
          Leads(s, r, AllGrantUnits(by, gs), q) /\ q.status = "failed" /\ q.grants = SubSeq(k, 1, m)
    BY <1>1, <1>3, <1>4, <1>7, <1>9 DEF FirstAreRead
  <2>2. \E q : Leads(s, r, AllGrantUnits(by, gs), q) /\ q.status = "failed"
               /\ q.grants \in Takeable(s, by, gs)
    BY <1>1, <2>1 DEF Takeable
  <2> QED
    BY <1>1, <1>5, <1>6, <1>7, <1>9, <2>2 DEF ReadsTo
<1> QED
  BY <1>1, <1>8, <1>9

-----------------------------------------------------------------------------
(* Reading a whole ACL                                                     *)

LEMMA TagRead ==
  ASSUME NEW s \in {"acl", "logging"}, NEW path \in Seq(Signs), Len(path) <= 5, NEW texts, NEW gs,
         NEW name \in Signs, name # "Grant", NEW longer, longer = Append(path, name)
  PROVE  /\ Leads(s, Reader(path, texts, gs, "OK"), Start(name), Reader(longer, texts, gs, "OK"))
         /\ Leads(s, Reader(longer, texts, gs, "OK"), End(name), Reader(path, texts, gs, "OK"))
         /\ Start(name) \in Seq(Units) /\ End(name) \in Seq(Units)
  BY StartRead, EndRead, TagsTyped

LEMMA ReadsAfter ==
  ASSUME NEW s, NEW r, NEW q, NEW t, NEW a \in Seq(Units), NEW b \in Seq(Units),
         NEW fine, NEW taken, Leads(s, r, a, q), ReadsTo(s, q, b, fine, t, taken)
  PROVE  ReadsTo(s, r, a \o b, fine, t, taken)
<1>1. CASE fine
  <2>1. Leads(s, r, a \o b, t)
    BY <1>1, LeadsJoined DEF ReadsTo
  <2> QED
    BY <1>1, <2>1 DEF ReadsTo
<1>2. CASE ~fine
  <2>1. PICK u : Leads(s, q, b, u) /\ u.status = "failed" /\ u.grants \in taken
    BY <1>2 DEF ReadsTo
  <2>2. Leads(s, r, a \o b, u)
    BY <2>1, LeadsJoined
  <2> QED
    BY <1>2, <2>1, <2>2 DEF ReadsTo
<1> QED
  BY <1>1, <1>2

\* What ListPath and HeadPath are made of.
LEMMA PathsOfAcl ==
  /\ <<>> \in Seq(Signs) /\ Len(<<>>) <= 5
  /\ Append(<<>>, "AccessControlPolicy") \in Seq(Signs)
  /\ Len(Append(<<>>, "AccessControlPolicy")) <= 5
  /\ HeadPath("acl") = Append(Append(<<>>, "AccessControlPolicy"), "Owner")
  /\ ListPath("acl") = Append(Append(<<>>, "AccessControlPolicy"), "AccessControlList")
<1>1. "AccessControlPolicy" \in Signs
  BY NamesAreSigns DEF DocumentNames
<1>2. /\ <<>> \in Seq(Signs) /\ Len(<<>>) <= 5
      /\ Append(<<>>, "AccessControlPolicy") \in Seq(Signs)
      /\ Len(Append(<<>>, "AccessControlPolicy")) <= 5
  BY <1>1
<1>3. HeadPath("acl") = Append(Append(<<>>, "AccessControlPolicy"), "Owner")
  BY DEF HeadPath
<1>4. ListPath("acl") = Append(Append(<<>>, "AccessControlPolicy"), "AccessControlList")
  BY DEF ListPath
<1> QED
  BY <1>2, <1>3, <1>4

\* The end of a whole document.
ReadWhole(s, by, a, b, gs) == Reader(<<>>, HeadTexts(a, b), AllKept(s, by, gs), "OK")

CanReadAll(s, by, a, b, gs) ==
  HeadFits(a) /\ HeadFits(b) /\ FirstCanBeRead(s, by, gs, Len(gs))

LEMMA OpeningRead ==
  ASSUME NEW a \in Seq(Signs), NEW b \in Seq(Signs), NEW taken, <<>> \in taken
  PROVE  /\ ReadsTo("acl", Fresh, AclOpening(a, b), HeadFits(a) /\ HeadFits(b),
                    Reader(ListPath("acl"), HeadTexts(a, b), <<>>, "OK"), taken)
         /\ AclOpening(a, b) \in Seq(Units)
<1>1. /\ "AccessControlPolicy" \in Signs /\ "Owner" \in Signs /\ "AccessControlList" \in Signs
      /\ "AccessControlPolicy" # "Grant" /\ "Owner" # "Grant" /\ "AccessControlList" # "Grant"
  BY NamesAreSigns DEF DocumentNames
<1>2. PICK path, s : path = Append(<<>>, "AccessControlPolicy") /\ s = "acl"
  OBVIOUS
<1>3. /\ <<>> \in Seq(Signs) /\ Len(<<>>) <= 5 /\ path \in Seq(Signs) /\ Len(path) <= 5
      /\ HeadPath(s) = Append(path, "Owner") /\ ListPath(s) = Append(path, "AccessControlList")
      /\ s \in {"acl", "logging"}
  BY <1>2, PathsOfAcl
<1>4. PICK r1, r2, r3, r4, r5, r6 :
        /\ r1 = Reader(path, NoTexts, <<>>, "OK") /\ r2 = Reader(HeadPath(s), NoTexts, <<>>, "OK")
        /\ r3 = Reader(HeadPath(s), HeadTexts(a, <<>>), <<>>, "OK")
        /\ r4 = Reader(HeadPath(s), HeadTexts(a, b), <<>>, "OK")
        /\ r5 = Reader(path, HeadTexts(a, b), <<>>, "OK")
        /\ r6 = Reader(ListPath(s), HeadTexts(a, b), <<>>, "OK")
  OBVIOUS
<1>5. PICK t1, t2, e1, e2, t3, t4 :
        /\ t1 = Start("AccessControlPolicy") /\ t2 = Start("Owner")
        /\ e1 = Element("ID", a) /\ e2 = Element("DisplayName", b)
        /\ t3 = End("Owner") /\ t4 = Start("AccessControlList")
  OBVIOUS
<1>6. Leads(s, Fresh, t1, r1) /\ t1 \in Seq(Units)
  BY <1>1, <1>2, <1>3, <1>4, <1>5, TagRead DEF Fresh
<1>7. Leads(s, r1, t2, r2) /\ t2 \in Seq(Units)
  BY <1>1, <1>3, <1>4, <1>5, TagRead
<1>8. ReadsTo(s, r2, e1, HeadFits(a), r3, taken) /\ e1 \in Seq(Units)
  <2>1. HeadName(s, 1) = "ID"
    BY <1>2 DEF HeadName
  <2>2. PICK place, texts : place = "head1" /\ texts = HeadTexts(<<>>, <<>>)
    OBVIOUS
  <2>3. /\ texts \in [Places -> Seq(Signs)] /\ texts[place] = <<>> /\ texts = NoTexts
        /\ TextAdded(texts, place, a) = HeadTexts(a, <<>>)
    BY <1>3, <2>2, TextsTyped
  <2>4. 1 \in {1, 2} /\ place = IF 1 = 1 THEN "head1" ELSE "head2"
    BY <2>2
  <2>5. /\ ReadsTo(s, Reader(HeadPath(s), texts, <<>>, "OK"), Element(HeadName(s, 1), a),
                   HeadFits(a), Reader(HeadPath(s), TextAdded(texts, place, a), <<>>, "OK"), taken)
        /\ Element(HeadName(s, 1), a) \in Seq(Units)
    BY <1>3, <2>3, <2>4, HeadElement
  <2> QED
    BY <1>4, <1>5, <2>1, <2>3, <2>5
<1>9. ReadsTo(s, r3, e2, HeadFits(b), r4, taken) /\ e2 \in Seq(Units)
  <2>1. HeadName(s, 2) = "DisplayName"
    BY <1>2 DEF HeadName
  <2>2. PICK place, texts : place = "head2" /\ texts = HeadTexts(a, <<>>)
    OBVIOUS
  <2>3. /\ texts \in [Places -> Seq(Signs)] /\ texts[place] = <<>>
        /\ TextAdded(texts, place, b) = HeadTexts(a, b)
    BY <1>3, <2>2, TextsTyped
  <2>4. 2 \in {1, 2} /\ place = IF 2 = 1 THEN "head1" ELSE "head2"
    BY <2>2
  <2>5. /\ ReadsTo(s, Reader(HeadPath(s), texts, <<>>, "OK"), Element(HeadName(s, 2), b),
                   HeadFits(b), Reader(HeadPath(s), TextAdded(texts, place, b), <<>>, "OK"), taken)
        /\ Element(HeadName(s, 2), b) \in Seq(Units)
    BY <1>3, <2>3, <2>4, HeadElement
  <2> QED
    BY <1>4, <1>5, <2>1, <2>2, <2>3, <2>5
<1>10. Leads(s, r4, t3, r5) /\ t3 \in Seq(Units)
  BY <1>1, <1>3, <1>4, <1>5, TagRead
<1>11. Leads(s, r5, t4, r6) /\ t4 \in Seq(Units)
  BY <1>1, <1>3, <1>4, <1>5, TagRead
<1>12. PICK u1 : u1 = t1 \o t2
  OBVIOUS
<1>13. Leads(s, Fresh, u1, r2) /\ u1 \in Seq(Units)
  BY <1>6, <1>7, <1>12, LeadsJoined, ConcatProperties
<1>14. PICK u2 : u2 = u1 \o e1
  OBVIOUS
<1>15. ReadsTo(s, Fresh, u2, HeadFits(a), r3, taken) /\ u2 \in Seq(Units)
  BY <1>8, <1>13, <1>14, ReadsAfter, ConcatProperties
<1>16. PICK u3 : u3 = u2 \o e2
  OBVIOUS
<1>17. ReadsTo(s, Fresh, u3, HeadFits(a) /\ HeadFits(b), r4, taken) /\ u3 \in Seq(Units)
  BY <1>9, <1>15, <1>16, BothRead, ConcatProperties
<1>18. PICK u4 : u4 = u3 \o t3
  OBVIOUS
<1>19. ReadsTo(s, Fresh, u4, HeadFits(a) /\ HeadFits(b), r5, taken) /\ u4 \in Seq(Units)
  BY <1>10, <1>17, <1>18, ReadsOn, ConcatProperties
<1>20. PICK u5 : u5 = u4 \o t4
  OBVIOUS
<1>21. ReadsTo(s, Fresh, u5, HeadFits(a) /\ HeadFits(b), r6, taken) /\ u5 \in Seq(Units)
  BY <1>11, <1>19, <1>20, ReadsOn, ConcatProperties
<1>22. u5 = AclOpening(a, b)
  BY <1>5, <1>12, <1>14, <1>16, <1>18, <1>20 DEF AclOpening
<1> QED
  BY <1>2, <1>4, <1>21, <1>22

LEMMA AclRead ==
  ASSUME NEW a \in Seq(Signs), NEW b \in Seq(Signs), NEW gs, AllWrittenBy("acl", "any", gs)
  PROVE  ReadsTo("acl", Fresh, FlattenSeq(AclPieces(a, b, gs)), CanReadAll("acl", "any", a, b, gs),
                 ReadWhole("acl", "any", a, b, gs), Takeable("acl", "any", gs))
<1>1. gs \in Seq(GrantRecords)
  BY DEF AllWrittenBy
<1>2. "AccessControlPolicy" \in Signs /\ "AccessControlList" \in Signs
  BY NamesAreSigns DEF DocumentNames
<1>3. PICK path, s, by : path = Append(<<>>, "AccessControlPolicy") /\ s = "acl" /\ by = "any"
  OBVIOUS
<1>4. /\ <<>> \in Seq(Signs) /\ Len(<<>>) <= 5 /\ path \in Seq(Signs) /\ Len(path) <= 5
      /\ ListPath(s) = Append(path, "AccessControlList") /\ s \in {"acl", "logging"}
  BY <1>3, PathsOfAcl
<1>5. PICK texts, taken, kept :
        texts = HeadTexts(a, b) /\ taken = Takeable(s, by, gs) /\ kept = AllKept(s, by, gs)
  OBVIOUS
<1>6. PICK r1, r2, r3, r4 :
        /\ r1 = Reader(ListPath(s), texts, <<>>, "OK") /\ r2 = Reader(ListPath(s), texts, kept, "OK")
        /\ r3 = Reader(path, texts, kept, "OK") /\ r4 = Reader(<<>>, texts, kept, "OK")
  OBVIOUS
<1>7. PICK u1, u2, t1, t2 :
        /\ u1 = AclOpening(a, b) /\ u2 = AllGrantUnits(by, gs)
        /\ t1 = End("AccessControlList") /\ t2 = End("AccessControlPolicy")
  OBVIOUS
<1>8. PICK well, fine : /\ well <=> HeadFits(a) /\ HeadFits(b)
                        /\ fine <=> FirstCanBeRead(s, by, gs, Len(gs))
  OBVIOUS
<1>9. ReadsTo(s, r1, u2, fine, r2, taken) /\ <<>> \in taken /\ u2 \in Seq(Units)
  <2>1. AllWrittenBy(s, by, gs) /\ NoFieldsIn(texts)
    BY <1>3, <1>5, TextsTyped
  <2>2. /\ ReadsTo(s, Reader(ListPath(s), texts, <<>>, "OK"), AllGrantUnits(by, gs),
                   FirstCanBeRead(s, by, gs, Len(gs)),
                   Reader(ListPath(s), texts, AllKept(s, by, gs), "OK"), Takeable(s, by, gs))
        /\ <<>> \in Takeable(s, by, gs) /\ AllGrantUnits(by, gs) \in Seq(Units)
    BY <1>4, <2>1, GrantsBlock
  <2> QED
    BY <1>5, <1>6, <1>7, <1>8, <2>2 DEF ReadsTo
<1>10. ReadsTo(s, Fresh, u1, well, r1, taken) /\ u1 \in Seq(Units)
  <2>1. /\ ReadsTo("acl", Fresh, AclOpening(a, b), HeadFits(a) /\ HeadFits(b),
                   Reader(ListPath("acl"), HeadTexts(a, b), <<>>, "OK"), taken)
        /\ AclOpening(a, b) \in Seq(Units)
    BY <1>9, OpeningRead
  <2> QED
    BY <1>3, <1>5, <1>6, <1>7, <1>8, <2>1 DEF ReadsTo
<1>11. Leads(s, r2, t1, r3) /\ t1 \in Seq(Units)
  BY <1>2, <1>4, <1>6, <1>7, TagRead
<1>12. Leads(s, r3, t2, r4) /\ t2 \in Seq(Units)
  BY <1>2, <1>3, <1>4, <1>6, <1>7, TagRead
<1>13. PICK u3, closing : u3 = u1 \o u2 /\ closing = t1 \o t2
  OBVIOUS
<1>14. ReadsTo(s, Fresh, u3, well /\ fine, r2, taken) /\ u3 \in Seq(Units)
  BY <1>9, <1>10, <1>13, BothRead, ConcatProperties
<1>15. Leads(s, r2, closing, r4) /\ closing \in Seq(Units)
  BY <1>11, <1>12, <1>13, LeadsJoined, ConcatProperties
<1>16. ReadsTo(s, Fresh, u3 \o closing, well /\ fine, r4, taken)
  BY <1>14, <1>15, ReadsOn
<1>17. FlattenSeq(AclPieces(a, b, gs)) = u3 \o closing
  BY <1>1, <1>3, <1>7, <1>13, AclDocument DEF AclClosing
<1>18. CanReadAll(s, by, a, b, gs) <=> well /\ fine
  BY <1>8 DEF CanReadAll
<1>19. r4 = ReadWhole(s, by, a, b, gs)
  BY <1>5, <1>6 DEF ReadWhole
<1> QED
  BY <1>3, <1>5, <1>16, <1>17, <1>18, <1>19 DEF ReadsTo

-----------------------------------------------------------------------------
(* Reading a whole logging configuration                                   *)

LEMMA PathsOfSal ==
  /\ <<>> \in Seq(Signs) /\ Len(<<>>) <= 5
  /\ Append(<<>>, "BucketLoggingStatus") \in Seq(Signs)
  /\ Len(Append(<<>>, "BucketLoggingStatus")) <= 5
  /\ HeadPath("logging") = Append(Append(<<>>, "BucketLoggingStatus"), "LoggingEnabled")
  /\ HeadPath("logging") \in Seq(Signs) /\ Len(HeadPath("logging")) <= 5
  /\ ListPath("logging") = Append(HeadPath("logging"), "TargetGrants")
<1>1. "BucketLoggingStatus" \in Signs
  BY NamesAreSigns DEF DocumentNames
<1>2. /\ <<>> \in Seq(Signs) /\ Len(<<>>) <= 5
      /\ Append(<<>>, "BucketLoggingStatus") \in Seq(Signs)
      /\ Len(Append(<<>>, "BucketLoggingStatus")) <= 5
  BY <1>1
<1>3. HeadPath("logging") = Append(Append(<<>>, "BucketLoggingStatus"), "LoggingEnabled")
  BY DEF HeadPath
<1>4. ListPath("logging") = Append(HeadPath("logging"), "TargetGrants")
  BY <1>3 DEF ListPath
<1>5. HeadPath("logging") \in Seq(Signs) /\ Len(HeadPath("logging")) <= 5
  <2>1. PICK path : path = HeadPath("logging")
    OBVIOUS
  <2>2. path \in Seq(Signs) /\ Len(path) = 2
    BY <2>1, ListPathTyped, Zenon
  <2>3. Len(path) <= 5
    BY <2>2
  <2> QED
    BY <2>1, <2>2, <2>3
<1> QED
  BY <1>2, <1>3, <1>4, <1>5

TargetGrantUnits(by, gs) ==
  IF gs = <<>> THEN <<>>
  ELSE (Start("TargetGrants") \o AllGrantUnits(by, gs)) \o End("TargetGrants")

LEMMA TargetGrantsRead ==
  ASSUME NEW by, NEW gs, AllWrittenBy("logging", by, gs), NEW texts, NoFieldsIn(texts)
  PROVE  /\ ReadsTo("logging", Reader(HeadPath("logging"), texts, <<>>, "OK"),
                    TargetGrantUnits(by, gs), FirstCanBeRead("logging", by, gs, Len(gs)),
                    Reader(HeadPath("logging"), texts, AllKept("logging", by, gs), "OK"),
                    Takeable("logging", by, gs))
         /\ TargetGrantUnits(by, gs) \in Seq(Units) /\ <<>> \in Takeable("logging", by, gs)
<1>1. PICK s : s = "logging"
  OBVIOUS
<1>2. /\ HeadPath(s) \in Seq(Signs) /\ Len(HeadPath(s)) <= 5
      /\ ListPath(s) = Append(HeadPath(s), "TargetGrants") /\ s \in {"acl", "logging"}
  BY <1>1, PathsOfSal
<1>3. PICK taken, kept, fine :
        /\ taken = Takeable(s, by, gs) /\ kept = AllKept(s, by, gs)
        /\ fine <=> FirstCanBeRead(s, by, gs, Len(gs))
  OBVIOUS
<1>4. PICK r1, r2, r3, r4 :
        /\ r1 = Reader(HeadPath(s), texts, <<>>, "OK") /\ r2 = Reader(ListPath(s), texts, <<>>, "OK")
        /\ r3 = Reader(ListPath(s), texts, kept, "OK") /\ r4 = Reader(HeadPath(s), texts, kept, "OK")
  OBVIOUS
<1>5. PICK units : units = AllGrantUnits(by, gs)
  OBVIOUS
<1>6. ReadsTo(s, r2, units, fine, r3, taken) /\ <<>> \in taken /\ units \in Seq(Units)
  <2>1. /\ ReadsTo(s, Reader(ListPath(s), texts, <<>>, "OK"), AllGrantUnits(by, gs),
                   FirstCanBeRead(s, by, gs, Len(gs)),
                   Reader(ListPath(s), texts, AllKept(s, by, gs), "OK"), Takeable(s, by, gs))
        /\ <<>> \in Takeable(s, by, gs) /\ AllGrantUnits(by, gs) \in Seq(Units)
    BY <1>1, <1>2, GrantsBlock
  <2> QED
    BY <1>3, <1>4, <1>5, <2>1 DEF ReadsTo
<1>7. ReadsTo(s, r1, TargetGrantUnits(by, gs), fine, r4, taken)
      /\ TargetGrantUnits(by, gs) \in Seq(Units)
  <2>1. CASE gs = <<>>
    <3>1. Len(gs) = 0
      BY <2>1
    <3>2. fine
      BY <1>3, <3>1, AccessControlAssumption DEF FirstCanBeRead
    <3>3. kept = <<>>
      <4>1. kept \in Seq(GrantRecords) /\ Len(kept) = 0
        BY <1>3, <3>1, AllKeptTyped DEF AllWrittenBy
      <4> QED
        BY <4>1, EmptySeq
    <3>4. r4 = r1
      BY <1>4, <3>3
    <3>5. TargetGrantUnits(by, gs) = <<>> /\ <<>> \in Seq(Units)
      BY <2>1 DEF TargetGrantUnits
    <3>6. Leads(s, r1, <<>>, r4)
      BY <3>4, LeadsNone
    <3> QED
      BY <3>2, <3>5, <3>6 DEF ReadsTo
  <2>2. CASE gs # <<>>
    <3>1. "TargetGrants" \in Signs /\ "TargetGrants" # "Grant"
      BY NamesAreSigns DEF DocumentNames
    <3>2. PICK a, c : a = Start("TargetGrants") /\ c = End("TargetGrants")
      OBVIOUS
    <3>3. /\ Leads(s, r1, a, r2) /\ Leads(s, r3, c, r4)
          /\ a \in Seq(Units) /\ c \in Seq(Units)
      BY <1>2, <1>4, <3>1, <3>2, TagRead
    <3>4. PICK u : u = a \o units
      OBVIOUS
    <3>5. ReadsTo(s, r1, u, fine, r3, taken) /\ u \in Seq(Units)
      BY <1>6, <3>3, <3>4, ReadsAfter, ConcatProperties
    <3>6. ReadsTo(s, r1, u \o c, fine, r4, taken) /\ u \o c \in Seq(Units)
      BY <3>3, <3>5, ReadsOn, ConcatProperties
    <3>7. TargetGrantUnits(by, gs) = u \o c
      BY <1>5, <2>2, <3>2, <3>4 DEF TargetGrantUnits
    <3> QED
      BY <3>6, <3>7
  <2> QED
    BY <2>1, <2>2
<1> QED
  BY <1>1, <1>3, <1>4, <1>6, <1>7 DEF ReadsTo

LEMMA SalHeadsRead ==
  ASSUME NEW a \in Seq(Signs), NEW b \in Seq(Signs), NEW taken, <<>> \in taken
  PROVE  LET path == Append(<<>>, "BucketLoggingStatus")
             units == (Start("LoggingEnabled") \o Element("TargetBucket", a)) \o Element("TargetPrefix", b)
         IN  /\ ReadsTo("logging", Reader(path, NoTexts, <<>>, "OK"), units, HeadFits(a) /\ HeadFits(b),
                        Reader(HeadPath("logging"), HeadTexts(a, b), <<>>, "OK"), taken)
             /\ units \in Seq(Units)
<1>1. "LoggingEnabled" \in Signs /\ "LoggingEnabled" # "Grant"
  BY NamesAreSigns DEF DocumentNames
<1>2. PICK path, s : path = Append(<<>>, "BucketLoggingStatus") /\ s = "logging"
  OBVIOUS
<1>3. /\ <<>> \in Seq(Signs) /\ path \in Seq(Signs) /\ Len(path) <= 5
      /\ HeadPath(s) = Append(path, "LoggingEnabled") /\ s \in {"acl", "logging"}
  BY <1>2, PathsOfSal
<1>4. PICK r1, r2, r3, r4 :
        /\ r1 = Reader(path, NoTexts, <<>>, "OK") /\ r2 = Reader(HeadPath(s), NoTexts, <<>>, "OK")
        /\ r3 = Reader(HeadPath(s), HeadTexts(a, <<>>), <<>>, "OK")
        /\ r4 = Reader(HeadPath(s), HeadTexts(a, b), <<>>, "OK")
  OBVIOUS
<1>5. PICK t, e1, e2 :
        /\ t = Start("LoggingEnabled") /\ e1 = Element("TargetBucket", a)
        /\ e2 = Element("TargetPrefix", b)
  OBVIOUS
<1>6. Leads(s, r1, t, r2) /\ t \in Seq(Units)
  BY <1>1, <1>3, <1>4, <1>5, TagRead
<1>8. ReadsTo(s, r2, e1, HeadFits(a), r3, taken) /\ e1 \in Seq(Units)
  <2>1. HeadName(s, 1) = "TargetBucket"
    BY <1>2 DEF HeadName
  <2>2. PICK place, texts : place = "head1" /\ texts = HeadTexts(<<>>, <<>>)
    OBVIOUS
  <2>3. /\ texts \in [Places -> Seq(Signs)] /\ texts[place] = <<>> /\ texts = NoTexts
        /\ TextAdded(texts, place, a) = HeadTexts(a, <<>>)
    BY <1>3, <2>2, TextsTyped
  <2>4. 1 \in {1, 2} /\ place = IF 1 = 1 THEN "head1" ELSE "head2"
    BY <2>2
  <2>5. /\ ReadsTo(s, Reader(HeadPath(s), texts, <<>>, "OK"), Element(HeadName(s, 1), a),
                   HeadFits(a), Reader(HeadPath(s), TextAdded(texts, place, a), <<>>, "OK"), taken)
        /\ Element(HeadName(s, 1), a) \in Seq(Units)
    BY <1>3, <2>3, <2>4, HeadElement
  <2> QED
    BY <1>4, <1>5, <2>1, <2>3, <2>5
<1>9. ReadsTo(s, r3, e2, HeadFits(b), r4, taken) /\ e2 \in Seq(Units)
  <2>1. HeadName(s, 2) = "TargetPrefix"
    BY <1>2 DEF HeadName
  <2>2. PICK place, texts : place = "head2" /\ texts = HeadTexts(a, <<>>)
    OBVIOUS
  <2>3. /\ texts \in [Places -> Seq(Signs)] /\ texts[place] = <<>>
        /\ TextAdded(texts, place, b) = HeadTexts(a, b)
    BY <1>3, <2>2, TextsTyped
  <2>4. 2 \in {1, 2} /\ place = IF 2 = 1 THEN "head1" ELSE "head2"
    BY <2>2
  <2>5. /\ ReadsTo(s, Reader(HeadPath(s), texts, <<>>, "OK"), Element(HeadName(s, 2), b),
                   HeadFits(b), Reader(HeadPath(s), TextAdded(texts, place, b), <<>>, "OK"), taken)
        /\ Element(HeadName(s, 2), b) \in Seq(Units)
    BY <1>3, <2>3, <2>4, HeadElement
  <2> QED
    BY <1>4, <1>5, <2>1, <2>2, <2>3, <2>5
<1>10. PICK u : u = t \o e1
  OBVIOUS
<1>11. ReadsTo(s, r1, u, HeadFits(a), r3, taken) /\ u \in Seq(Units)
  BY <1>6, <1>8, <1>10, ReadsAfter, ConcatProperties
<1>12. ReadsTo(s, r1, u \o e2, HeadFits(a) /\ HeadFits(b), r4, taken) /\ u \o e2 \in Seq(Units)
  BY <1>9, <1>11, BothRead, ConcatProperties
<1> QED
  BY <1>2, <1>4, <1>5, <1>10, <1>12

LEMMA SalRead ==
  ASSUME NEW by, NEW a \in Seq(Signs), NEW b \in Seq(Signs), NEW gs, AllWrittenBy("logging", by, gs)
  PROVE  IF a = <<>>
         THEN Leads("logging", Fresh, FlattenSeq(SalPieces(by, a, b, gs)), Fresh)
         ELSE ReadsTo("logging", Fresh, FlattenSeq(SalPieces(by, a, b, gs)),
                      CanReadAll("logging", by, a, b, gs),
                      ReadWhole("logging", by, a, b, gs), Takeable("logging", by, gs))
<1>1. gs \in Seq(GrantRecords)
  BY DEF AllWrittenBy
<1>2. /\ "BucketLoggingStatus" \in Signs /\ "LoggingEnabled" \in Signs
      /\ "BucketLoggingStatus" # "Grant" /\ "LoggingEnabled" # "Grant"
  BY NamesAreSigns DEF DocumentNames
<1>3. PICK path, s : path = Append(<<>>, "BucketLoggingStatus") /\ s = "logging"
  OBVIOUS
<1>4. /\ <<>> \in Seq(Signs) /\ Len(<<>>) <= 5 /\ path \in Seq(Signs) /\ Len(path) <= 5
      /\ HeadPath(s) = Append(path, "LoggingEnabled") /\ s \in {"acl", "logging"}
  BY <1>3, PathsOfSal
<1>5. PICK t1, t2 : t1 = Start("BucketLoggingStatus") /\ t2 = End("BucketLoggingStatus")
  OBVIOUS
<1>6. PICK r1 : r1 = Reader(path, NoTexts, <<>>, "OK")
  OBVIOUS
<1>7. /\ Leads(s, Fresh, t1, r1) /\ Leads(s, r1, t2, Fresh)
      /\ t1 \in Seq(Units) /\ t2 \in Seq(Units)
  BY <1>2, <1>3, <1>4, <1>5, <1>6, TagRead DEF Fresh
<1>8. CASE a = <<>>
  <2>1. Leads(s, Fresh, t1 \o t2, Fresh)
    BY <1>7, LeadsJoined
  <2> QED
    BY <1>1, <1>3, <1>5, <1>8, <2>1, SalDocument
<1>9. CASE a # <<>>
  <2>1. PICK texts, taken, kept :
          texts = HeadTexts(a, b) /\ taken = Takeable(s, by, gs) /\ kept = AllKept(s, by, gs)
    OBVIOUS
  <2>2. PICK r2, r3, r4, r5 :
          /\ r2 = Reader(HeadPath(s), texts, <<>>, "OK") /\ r3 = Reader(HeadPath(s), texts, kept, "OK")
          /\ r4 = Reader(path, texts, kept, "OK") /\ r5 = Reader(<<>>, texts, kept, "OK")
    OBVIOUS
  <2>3. PICK u1, u2, t3 :
          /\ u1 = (Start("LoggingEnabled") \o Element("TargetBucket", a)) \o Element("TargetPrefix", b)
          /\ u2 = TargetGrantUnits(by, gs) /\ t3 = End("LoggingEnabled")
    OBVIOUS
  <2>4. PICK well, fine : /\ well <=> HeadFits(a) /\ HeadFits(b)
                          /\ fine <=> FirstCanBeRead(s, by, gs, Len(gs))
    OBVIOUS
  <2>5. ReadsTo(s, r2, u2, fine, r3, taken) /\ <<>> \in taken /\ u2 \in Seq(Units)
    <3>1. NoFieldsIn(texts)
      BY <2>1, TextsTyped
    <3>2. /\ ReadsTo("logging", Reader(HeadPath("logging"), texts, <<>>, "OK"),
                     TargetGrantUnits(by, gs), FirstCanBeRead("logging", by, gs, Len(gs)),
                     Reader(HeadPath("logging"), texts, AllKept("logging", by, gs), "OK"),
                     Takeable("logging", by, gs))
          /\ TargetGrantUnits(by, gs) \in Seq(Units) /\ <<>> \in Takeable("logging", by, gs)
      BY <3>1, TargetGrantsRead
    <3> QED
      BY <1>3, <2>1, <2>2, <2>3, <2>4, <3>2 DEF ReadsTo
  <2>6. ReadsTo(s, r1, u1, well, r2, taken) /\ u1 \in Seq(Units)
    BY <1>3, <1>6, <2>1, <2>2, <2>3, <2>4, <2>5, SalHeadsRead DEF ReadsTo
  <2>7. Leads(s, r3, t3, r4) /\ t3 \in Seq(Units)
    BY <1>2, <1>4, <2>2, <2>3, TagRead
  <2>8. Leads(s, r4, t2, r5)
    BY <1>2, <1>3, <1>4, <1>5, <2>2, TagRead
  <2>9. PICK u3 : u3 = u1 \o u2
    OBVIOUS
  <2>10. ReadsTo(s, r1, u3, well /\ fine, r3, taken) /\ u3 \in Seq(Units)
    BY <2>5, <2>6, <2>9, BothRead, ConcatProperties
  <2>11. PICK u4 : u4 = u3 \o t3
    OBVIOUS
  <2>12. ReadsTo(s, r1, u4, well /\ fine, r4, taken) /\ u4 \in Seq(Units)
    BY <2>7, <2>10, <2>11, ReadsOn, ConcatProperties
  <2>13. PICK u5 : u5 = t1 \o u4
    OBVIOUS
  <2>14. ReadsTo(s, Fresh, u5, well /\ fine, r4, taken) /\ u5 \in Seq(Units)
    BY <1>7, <2>12, <2>13, ReadsAfter, ConcatProperties
  <2>15. ReadsTo(s, Fresh, u5 \o t2, well /\ fine, r5, taken)
    BY <1>7, <2>8, <2>14, ReadsOn
  <2>16. FlattenSeq(SalPieces(by, a, b, gs)) = u5 \o t2
    BY <1>1, <1>5, <1>9, <2>3, <2>9, <2>11, <2>13, SalDocument DEF TargetGrantUnits
  <2>17. CanReadAll(s, by, a, b, gs) <=> well /\ fine
    BY <2>4 DEF CanReadAll
  <2>18. r5 = ReadWhole(s, by, a, b, gs)
    BY <2>1, <2>2 DEF ReadWhole
  <2> QED
    BY <1>3, <1>9, <2>1, <2>15, <2>16, <2>17, <2>18 DEF ReadsTo
<1> QED
  BY <1>8, <1>9

-----------------------------------------------------------------------------
(* Reading the document of this behaviour                                  *)

\* The grants that were chosen at the start are of S3AclGrant's kind.
GivenGrants ==
  /\ Given
  /\ subject # "error" =>
       /\ \A i \in 1 .. Len(grants) :
            IsGrant(grants[i]) /\ (writer = "libs3" => grants[i].granteeType \in GranteeTypes)

LEMMA GivenGrantsInit == Init => GivenGrants
<1> SUFFICES ASSUME Init PROVE GivenGrants
  OBVIOUS
<1>1. ASSUME NEW G, NEW n, NEW gs \in SeqOf(G, n), NEW i \in 1 .. Len(gs) PROVE gs[i] \in G
  <2>1. PICK m \in Nat : gs \in [1 .. m -> G]
    BY DEF SeqOf
  <2>2. Len(gs) = m
    BY <2>1
  <2> QED
    BY <2>1, <2>2
<1>2. CASE subject = "error"
  BY <1>2, GivenInit DEF GivenGrants
<1>3. CASE subject # "error" /\ pc = "set"
  <2>1. grants \in SeqOf(ProgramGrants, S3_MAX_ACL_GRANT_COUNT + 1)
    BY <1>3 DEF Init
  <2> QED
    BY <1>1, <2>1, GivenInit, GrantsAssumption DEF GivenGrants
<1>4. CASE subject # "error" /\ pc # "set"
  <2>1. grants \in SeqOf(ForeignGrants, S3_MAX_ACL_GRANT_COUNT + 1) /\ writer # "libs3"
    BY <1>4 DEF Init
  <2> QED
    BY <1>1, <2>1, GivenInit, GrantsAssumption DEF GivenGrants
<1> QED
  BY <1>2, <1>3, <1>4

LEMMA GivenGrantsStep == GivenGrants /\ [Next]_vars => GivenGrants'
<1> SUFFICES ASSUME GivenGrants, [Next]_vars PROVE GivenGrants'
  OBVIOUS
<1>1. UNCHANGED given
  BY DEF Next, vars, given, SetTooMany, Set, Get, ParseDocument, ParseError, DataEnds, Finished,
     saxStartElement, saxEndElement, saxCharacters
<1>2. Given'
  BY GivenStep DEF GivenGrants
<1> QED
  BY <1>1, <1>2 DEF GivenGrants, given

\* Who writes the grants, as far as it is told.
By == IF subject = "acl" THEN "any" ELSE writer

WholeGood == LoggingOff \/ CanReadAll(subject, By, heads[1], heads[2], grants)

WholeEnd == IF LoggingOff THEN Fresh ELSE ReadWhole(subject, By, heads[1], heads[2], grants)

WholeTaken == IF LoggingOff THEN {<<>>} ELSE Takeable(subject, By, grants)

LEMMA GivenWritten ==
  ASSUME GivenGrants, subject # "error"
  PROVE  /\ AllWrittenBy(subject, By, grants) /\ IsHeads(heads) /\ subject \in {"acl", "logging"}
         /\ grants \in Seq(GrantRecords)
<1>1. /\ grants \in Seq(GrantRecords) /\ IsHeads(heads) /\ subject \in {"acl", "logging"}
      /\ writer \in {"libs3", "others"}
  BY DEF GivenGrants, Given
<1>2. ASSUME NEW i \in 1 .. Len(grants) PROVE IsWritten(subject, By, grants[i])
  <2>1. grants[i] \in GrantRecords
    BY <1>1
  <2>2. IsGrant(grants[i]) /\ (By = "libs3" => grants[i].granteeType \in GranteeTypes)
    BY DEF GivenGrants, By
  <2> QED
    BY <2>1, <2>2 DEF IsWritten, By
<1> QED
  BY <1>1, <1>2 DEF AllWrittenBy

LEMMA WholeRead ==
  ASSUME GivenGrants, subject # "error"
  PROVE  /\ ReadsTo(subject, Fresh, Whole, WholeGood, WholeEnd, WholeTaken)
         /\ Whole \in Seq(Units) /\ Whole # <<>>
<1>1. PICK s, by, a, b, gs :
        s = subject /\ by = By /\ a = heads[1] /\ b = heads[2] /\ gs = grants
  OBVIOUS
<1>2. AllWrittenBy(s, by, gs) /\ a \in Seq(Signs) /\ b \in Seq(Signs) /\ s \in {"acl", "logging"}
  BY <1>1, GivenWritten DEF IsHeads
<1>3. Whole \in Seq(Units) /\ Whole # <<>>
  BY WholeTyped DEF GivenGrants, EndsWithTag
<1>4. CASE s = "acl"
  <2>1. Whole = FlattenSeq(AclPieces(a, b, gs)) /\ ~LoggingOff /\ by = "any"
    BY <1>1, <1>4 DEF Whole, Pieces, LoggingOff, By
  <2>2. ReadsTo(s, Fresh, Whole, CanReadAll(s, by, a, b, gs), ReadWhole(s, by, a, b, gs),
                Takeable(s, by, gs))
    BY <1>2, <1>4, <2>1, AclRead
  <2> QED
    BY <1>1, <1>3, <2>1, <2>2 DEF WholeGood, WholeEnd, WholeTaken, ReadsTo
<1>5. CASE s = "logging"
  <2>1. Whole = FlattenSeq(SalPieces(by, a, b, gs)) /\ (LoggingOff <=> a = <<>>)
    BY <1>1, <1>5 DEF Whole, Pieces, LoggingOff, By
  <2>2. CASE a = <<>>
    <3>1. Leads(s, Fresh, Whole, Fresh)
      BY <1>2, <1>5, <2>1, <2>2, SalRead
    <3> QED
      BY <1>1, <1>3, <2>1, <2>2, <3>1 DEF WholeGood, WholeEnd, ReadsTo
  <2>3. CASE a # <<>>
    <3>1. ReadsTo(s, Fresh, Whole, CanReadAll(s, by, a, b, gs), ReadWhole(s, by, a, b, gs),
                  Takeable(s, by, gs))
      BY <1>2, <1>5, <2>1, <2>3, SalRead
    <3> QED
      BY <1>1, <1>3, <2>1, <2>3, <3>1 DEF WholeGood, WholeEnd, WholeTaken, ReadsTo
  <2> QED
    BY <2>2, <2>3
<1> QED
  BY <1>2, <1>4, <1>5

\* What GrantsReadBack says, in the reader's terms.
LEMMA AsReadIs ==
  ASSUME GivenGrants, subject # "error"
  PROVE  /\ AsRead = IF LoggingOff THEN <<>> ELSE AllKept(subject, By, grants)
         /\ Readable <=> Fits /\ WholeGood /\ (writer = "libs3" => Len(grants) <= S3_MAX_ACL_GRANT_COUNT)
<1>1. PICK n \in Nat : n = Len(grants) /\ DOMAIN grants = 1 .. n
  BY GivenWritten
<1>2. CASE LoggingOff
  <2>1. Said = <<>>
    BY <1>2 DEF Said
  <2>2. DOMAIN Said = {} /\ Len(Said) = 0
    BY <2>1
  <2>3. AsRead = <<>>
    BY <2>2 DEF AsRead
  <2>4. Readable <=> Fits /\ (writer = "libs3" => Len(grants) <= S3_MAX_ACL_GRANT_COUNT)
    BY <1>2, <2>2, AccessControlAssumption DEF Readable
  <2> QED
    BY <1>2, <2>3, <2>4 DEF WholeGood
<1>3. CASE ~LoggingOff
  <2>1. Said = grants
    BY <1>3 DEF Said
  <2>2. ASSUME NEW i \in 1 .. n
        PROVE  CanBeRead(grants[i]) <=> CanRead(subject, By, grants[i])
    <3>1. subject = "acl" \/ writer = "libs3" <=> subject = "acl" \/ By = "libs3"
      BY DEF By
    <3> QED
      BY <3>1 DEF CanBeRead, CanRead
  <2>3. AsRead = AllKept(subject, By, grants)
    <3>1. subject = "logging" /\ writer = "libs3" <=> subject = "logging" /\ By = "libs3"
      BY DEF By
    <3>2. \A g : (IF subject = "logging" /\ writer = "libs3" /\ g.granteeType = "LogDelivery"
                  THEN "AllUsers" ELSE g.granteeType)
                   = IF subject = "logging" /\ By = "libs3" /\ g.granteeType = "LogDelivery"
                     THEN "AllUsers" ELSE g.granteeType
      BY <3>1
    <3> QED
      BY <1>1, <2>1, <3>2 DEF AsRead, AllKept, GrantKept
  <2>4. (IF writer = "libs3" THEN grants ELSE Said) = grants
    BY <2>1
  <2>5. (LoggingOff \/ \A k \in 1 .. 2 : Len(heads[k]) < GranteeSize)
          <=> HeadFits(heads[1]) /\ HeadFits(heads[2])
    <3>1. 1 .. 2 = {1, 2}
      OBVIOUS
    <3> QED
      BY <1>3, <3>1 DEF HeadFits
  <2>6. (\A i \in DOMAIN Said : CanBeRead(Said[i])) <=> \A i \in 1 .. n : CanRead(subject, By, grants[i])
    BY <1>1, <2>1, <2>2
  <2>7. Readable <=> /\ Fits /\ n <= S3_MAX_ACL_GRANT_COUNT
                     /\ \A i \in 1 .. n : CanRead(subject, By, grants[i])
                     /\ HeadFits(heads[1]) /\ HeadFits(heads[2])
    BY <1>1, <2>4, <2>5, <2>6 DEF Readable
  <2>8. WholeGood <=> /\ n <= S3_MAX_ACL_GRANT_COUNT
                      /\ \A i \in 1 .. n : CanRead(subject, By, grants[i])
                      /\ HeadFits(heads[1]) /\ HeadFits(heads[2])
    BY <1>1, <1>3 DEF WholeGood, CanReadAll, FirstCanBeRead
  <2> QED
    BY <1>1, <1>3, <2>3, <2>7, <2>8
<1> QED
  BY <1>2, <1>3

-----------------------------------------------------------------------------
(* The data of convert_acl and convert_bls                                 *)

\* A piece that fits behind what there is, or is cut with it.
LEMMA SnprintfCut ==
  ASSUME NEW S, NEW t \in Seq(S), NEW str \in Seq(S), NEW h \in Nat, Len(t) + Len(str) <= h + 1
  PROVE  Snprintf(Cut(t, h), Len(t), (h + 1) - Len(t), str) = Cut(t \o str, h)
<1>1. PICK m \in Nat, n \in Nat : m = Len(t) /\ n = Len(str)
  OBVIOUS
<1>2. PICK both : both = t \o str
  OBVIOUS
<1>3. both \in Seq(S) /\ Len(both) = m + n
  BY <1>1, <1>2, ConcatProperties
<1>4. CASE m = h + 1
  <2>1. n = 0
    BY <1>1, <1>4
  <2>2. str = <<>>
    BY <1>1, <2>1, EmptySeq
  <2>3. both = t
    BY <1>2, <2>2, ConcatEmptySeq
  <2>4. (h + 1) - m = 0
    BY <1>4
  <2> QED
    BY <1>1, <1>2, <2>3, <2>4 DEF Snprintf
<1>5. CASE m # h + 1
  <2>1. m <= h /\ (h + 1) - m # 0 /\ ((h + 1) - m) - 1 = h - m /\ h - m \in Nat
    BY <1>1, <1>5
  <2>2. Cut(t, h) = t
    <3>1. Shorter(m, h) = m
      BY <2>1 DEF Shorter
    <3> QED
      BY <1>1, <3>1, SubSeqFull DEF Cut
  <2>3. PICK k \in Nat : k = Shorter(h - m, n) /\ k <= n /\ m + k = Shorter(m + n, h)
    BY <2>1 DEF Shorter
  <2>4. SubSeq(t, 1, m) = t
    BY <1>1, SubSeqFull
  <2>5. t \o SubSeq(str, 1, k) = SubSeq(both, 1, m + k)
    BY <1>1, <1>2, <2>3, CutJoined
  <2>6. Snprintf(t, m, (h + 1) - m, str) = t \o SubSeq(str, 1, k)
    BY <1>1, <2>1, <2>3, <2>4 DEF Snprintf
  <2>7. Cut(both, h) = SubSeq(both, 1, m + k)
    BY <1>3, <2>3 DEF Cut
  <2> QED
    BY <1>1, <1>2, <2>2, <2>5, <2>6, <2>7
<1> QED
  BY <1>4, <1>5

WithHead(d, n, z) == [d EXCEPT !.heads[n] = z]

LEMMA DataParts ==
  ASSUME NEW x, NEW y, NEW fields, NEW gs
  PROVE  /\ ConvertData(x, y, fields, gs).heads = <<x, y>>
         /\ ConvertData(x, y, fields, gs).fields = fields
         /\ ConvertData(x, y, fields, gs).grants = gs
  BY DEF ConvertData

LEMMA OneReplaced ==
  ASSUME NEW x, NEW y, NEW z, NEW fields, NEW gs
  PROVE  /\ WithHead(ConvertData(x, y, fields, gs), 1, z) = ConvertData(z, y, fields, gs)
         /\ WithHead(ConvertData(x, y, fields, gs), 2, z) = ConvertData(x, z, fields, gs)
<1>1. PICK h : h = <<x, y>>
  OBVIOUS
<1>2. PICK d : d = [heads |-> h, fields |-> fields, grants |-> gs]
  OBVIOUS
<1>3. ASSUME NEW n PROVE [d EXCEPT !.heads[n] = z] = [heads |-> [h EXCEPT ![n] = z], fields |-> fields, grants |-> gs]
  <2>1. PICK e : e = [h EXCEPT ![n] = z]
    OBVIOUS
  <2> QED
    BY <1>2, <2>1
<1>4. [<<x, y>> EXCEPT ![1] = z] = <<z, y>>
  OBVIOUS
<1>5. [<<x, y>> EXCEPT ![2] = z] = <<x, z>>
  OBVIOUS
<1>6. PICK e : e = <<z, y>>
  OBVIOUS
<1>7. PICK f : f = <<x, z>>
  OBVIOUS
<1>8. [d EXCEPT !.heads[1] = z] = [heads |-> e, fields |-> fields, grants |-> gs]
  BY <1>1, <1>3, <1>4, <1>6
<1>9. [d EXCEPT !.heads[2] = z] = [heads |-> f, fields |-> fields, grants |-> gs]
  BY <1>1, <1>3, <1>5, <1>7
<1> QED
  BY <1>1, <1>2, <1>6, <1>7, <1>8, <1>9 DEF WithHead, ConvertData

\* A piece of the text of one of the heads.
HeadIsKept(s, n, str, x, y, fields, gs, t) ==
  LET done == HeadText(s, ConvertData(x, y, fields, gs), n, str)
      z    == HeadHeld(t \o str)
  IN  IF Len(t) + Len(str) <= GranteeSize - 1
      THEN done = Unread(IF n = 1 THEN ConvertData(z, y, fields, gs) ELSE ConvertData(x, z, fields, gs))
      ELSE done.status # "OK"

LEMMA HeadTextIs ==
  ASSUME NEW s \in {"acl", "logging"}, NEW n \in {1, 2}, NEW str \in Seq(Signs), NEW x, NEW y,
         NEW fields, NEW gs, NEW t \in Seq(Signs), n = 1 => HeadHeld(t) = x, n = 2 => HeadHeld(t) = y,
         Len(t) <= GranteeSize - 1
  PROVE  HeadIsKept(s, n, str, x, y, fields, gs, t)
<1>0. PICK d, z : d = ConvertData(x, y, fields, gs) /\ z = HeadHeld(t \o str)
  OBVIOUS
<1>1. PICK h \in Nat : h = GranteeSize - 2
  BY AccessControlAssumption
<1>2. Len(t) \in Nat /\ Len(str) \in Nat /\ GranteeSize \in Nat
  BY AccessControlAssumption
<1>3. d.heads[n] = HeadHeld(t)
  <2>1. d.heads = <<x, y>>
    BY <1>0, DataParts
  <2> QED
    BY <2>1
<1>4. PICK added :
        added = [text |-> Snprintf(HeadHeld(t).text, HeadHeld(t).len,
                                   GranteeSize - HeadHeld(t).len - 1, str),
                 len  |-> HeadHeld(t).len + Len(str)]
  OBVIOUS
<1>5. added.len = Len(t) + Len(str)
  BY <1>4 DEF HeadHeld
<1>6. HeadText(s, d, n, str)
        = [status |-> IF added.len >= GranteeSize THEN TooLong(s, n) ELSE "OK",
           data   |-> WithHead(d, n, added)]
  BY <1>3, <1>4 DEF HeadText, WithHead
<1>7. CASE Len(t) + Len(str) <= GranteeSize - 1
  <2>1. ~(added.len >= GranteeSize)
    BY <1>2, <1>5, <1>7
  <2>2. GranteeSize - Len(t) - 1 = (h + 1) - Len(t) /\ Len(t) + Len(str) <= h + 1
    BY <1>1, <1>2, <1>7
  <2>3. Snprintf(Cut(t, h), Len(t), (h + 1) - Len(t), str) = Cut(t \o str, h)
    BY <1>2, <2>2, SnprintfCut
  <2>4. Len(t \o str) = Len(t) + Len(str)
    BY <1>2, ConcatProperties
  <2>5. added = z
    BY <1>0, <1>1, <1>4, <2>2, <2>3, <2>4 DEF HeadHeld
  <2>6. PICK new : new = WithHead(d, n, z)
    OBVIOUS
  <2>7. HeadText(s, d, n, str) = Unread(new)
    BY <1>6, <2>1, <2>5, <2>6 DEF Unread
  <2>8. new = IF n = 1 THEN ConvertData(z, y, fields, gs) ELSE ConvertData(x, z, fields, gs)
    BY <1>0, <2>6, OneReplaced
  <2> QED
    BY <1>0, <1>7, <2>7, <2>8 DEF HeadIsKept
<1>8. CASE ~(Len(t) + Len(str) <= GranteeSize - 1)
  <2>1. added.len >= GranteeSize
    BY <1>2, <1>5, <1>8
  <2>2. TooLong(s, n) # "OK"
    BY DEF TooLong
  <2> QED
    BY <1>0, <1>6, <1>8, <2>1, <2>2 DEF HeadIsKept
<1> QED
  BY <1>7, <1>8

-----------------------------------------------------------------------------
(* The buffers of a grant                                                  *)

WithField(d, f, str) ==
  [d EXCEPT !.fields[f] = string_buffer_append(@, GranteeSize, str)]

FieldAdded(fields, f, str) ==
  [fields EXCEPT ![f] = string_buffer_append(fields[f], GranteeSize, str)]

LEMMA FieldReplaced ==
  ASSUME NEW x, NEW y, NEW fields, NEW gs, NEW f, NEW str
  PROVE  WithField(ConvertData(x, y, fields, gs), f, str)
           = ConvertData(x, y, FieldAdded(fields, f, str), gs)
<1>0. PICK new : new = FieldAdded(fields, f, str)
  OBVIOUS
<1>1. PICK h : h = <<x, y>>
  OBVIOUS
<1>2. PICK d : d = [heads |-> h, fields |-> fields, grants |-> gs]
  OBVIOUS
<1>3. PICK z : z = string_buffer_append(fields[f], GranteeSize, str)
  OBVIOUS
<1>4. [d EXCEPT !.fields[f] = string_buffer_append(@, GranteeSize, str)]
        = [d EXCEPT !.fields[f] = z]
  BY <1>2, <1>3
<1>5. [d EXCEPT !.fields[f] = z] = [heads |-> h, fields |-> new, grants |-> gs]
  BY <1>0, <1>2, <1>3 DEF FieldAdded
<1> QED
  BY <1>0, <1>1, <1>2, <1>4, <1>5 DEF WithField, ConvertData

\* What a string_buffer holds when a piece that fits is appended.
LEMMA FieldAppended ==
  ASSUME NEW t \in Seq(Signs), NEW str \in Seq(Signs), Len(t) + Len(str) <= GranteeSize,
         NEW sb, sb = [text |-> Cut(t, Held(GranteeSize)), len |-> Len(t)]
  PROVE  string_buffer_append(sb, GranteeSize, str)
           = [text |-> Cut(t \o str, Held(GranteeSize)), len |-> Len(t \o str)]
<1>1. PICK h \in Nat : h = GranteeSize - 1
  BY AccessControlAssumption
<1>2. Len(t) \in Nat /\ Len(str) \in Nat /\ GranteeSize \in Nat
  BY AccessControlAssumption
<1>3. Held(GranteeSize) = h /\ GranteeSize - Len(t) = (h + 1) - Len(t) /\ Len(t) + Len(str) <= h + 1
  BY <1>1, <1>2 DEF Held
<1>4. Snprintf(Cut(t, h), Len(t), (h + 1) - Len(t), str) = Cut(t \o str, h)
  BY <1>3, SnprintfCut
<1>5. Len(t \o str) = Len(t) + Len(str)
  BY <1>2, ConcatProperties
<1>6. Shorter(Len(t) + Len(str), GranteeSize) = Len(t \o str)
  BY <1>2, <1>5 DEF Shorter
<1>7. sb.text = Cut(t, h) /\ sb.len = Len(t)
  BY <1>3
<1> QED
  BY <1>3, <1>4, <1>6, <1>7 DEF string_buffer_append

LEMMA FieldTextIs ==
  ASSUME NEW f \in Fields, NEW texts \in [Places -> Seq(Signs)], NEW str \in Seq(Signs),
         Len(texts[f]) <= GranteeSize, NEW x, NEW y, NEW gs,
         NEW d, d = ConvertData(x, y, FieldsHeld(texts), gs)
  PROVE  IF Len(texts[f]) + Len(str) <= GranteeSize
         THEN FieldText(d, f, str) = Unread(ConvertData(x, y, FieldsHeld(TextAdded(texts, f, str)), gs))
         ELSE FieldText(d, f, str).status # "OK"
<1>1. PICK fields : fields = FieldsHeld(texts)
  OBVIOUS
<1>2. d.fields = fields
  BY <1>1, DataParts
<1>3. f \in Places
  BY FieldsArePlaces
<1>4. PICK t \in Seq(Signs) : t = texts[f]
  BY <1>3
<1>5. fields[f] = [text |-> Cut(t, Held(GranteeSize)), len |-> Len(t)]
  BY <1>1, <1>4 DEF FieldsHeld
<1>6. PICK z : z = string_buffer_append(fields[f], GranteeSize, str)
  OBVIOUS
<1>7. FieldText(d, f, str)
        = [status |-> IF Len(t) + Len(str) <= GranteeSize THEN "OK" ELSE FieldTooLong[f],
           data   |-> WithField(d, f, str)]
  BY <1>2, <1>5 DEF FieldText, WithField
<1>8. CASE Len(t) + Len(str) <= GranteeSize
  <2>1. z = [text |-> Cut(t \o str, Held(GranteeSize)), len |-> Len(t \o str)]
    BY <1>5, <1>6, <1>8, FieldAppended
  <2>0. PICK new : new = FieldAdded(fields, f, str)
    OBVIOUS
  <2>2. new = [fields EXCEPT ![f] = z]
    BY <1>6, <2>0 DEF FieldAdded
  <2>3. new = FieldsHeld(TextAdded(texts, f, str))
    <3>1. PICK more : more = TextAdded(texts, f, str)
      OBVIOUS
    <3>2. \A g \in Fields : more[g] = IF g = f THEN t \o str ELSE texts[g]
      BY <1>4, <3>1, FieldsArePlaces DEF TextAdded
    <3>3. new = [g \in Fields |-> IF g = f THEN z ELSE [text |-> Cut(texts[g], Held(GranteeSize)), len |-> Len(texts[g])]]
      BY <1>1, <2>2 DEF FieldsHeld
    <3>4. \A g \in Fields :
            [text |-> Cut(more[g], Held(GranteeSize)), len |-> Len(more[g])]
              = IF g = f THEN z ELSE [text |-> Cut(texts[g], Held(GranteeSize)), len |-> Len(texts[g])]
      BY <2>1, <3>2
    <3> QED
      BY <3>1, <3>3, <3>4 DEF FieldsHeld
  <2>4. WithField(d, f, str) = ConvertData(x, y, new, gs)
    BY <1>1, <2>0, FieldReplaced
  <2>5. FieldText(d, f, str) = Unread(ConvertData(x, y, new, gs))
    BY <1>7, <1>8, <2>4 DEF Unread
  <2> QED
    BY <1>4, <1>8, <2>3, <2>5
<1>9. CASE ~(Len(t) + Len(str) <= GranteeSize)
  <2>1. FieldTooLong[f] # "OK"
    BY DEF FieldTooLong, Fields
  <2> QED
    BY <1>4, <1>7, <1>9, <2>1
<1> QED
  BY <1>8, <1>9

-----------------------------------------------------------------------------
(* convertXml's callback for a text                                        *)

\* The name of the place of a head.
HeadPlace(n) == IF n = 1 THEN "head1" ELSE "head2"

LEMMA PathsOfPlaces ==
  ASSUME NEW s \in {"acl", "logging"}
  PROVE  /\ \A n \in 1 .. 2 : HeadPlace(n) \in Places /\ HeadPlace(n) \notin Fields
                              /\ HeadPaths(s)[n] = PlacePath(s, HeadPlace(n))
         /\ \A f \in Fields : f \in Places /\ FieldPath(s, f) = PlacePath(s, f)
         /\ HeadPlace(1) # HeadPlace(2)
         /\ \A place \in Places : place \in Fields \/ \E n \in 1 .. 2 : place = HeadPlace(n)
  BY DEF HeadPlace, Places, Fields, PlacePath

LEMMA HeadFound ==
  ASSUME NEW s \in {"acl", "logging"}, NEW n \in 1 .. 2, NEW path, path = PlacePath(s, HeadPlace(n)),
         NEW d, NEW str
  PROVE  convertXmlText(s, d, path, str) = HeadText(s, d, n, str)
<1>1. \E m \in 1 .. 2 : path = HeadPaths(s)[m]
  BY PathsOfPlaces
<1>2. ASSUME NEW m \in 1 .. 2, path = HeadPaths(s)[m] PROVE m = n
  <2>1. PlacePath(s, HeadPlace(m)) = PlacePath(s, HeadPlace(n)) /\ HeadPlace(m) \in Places /\ HeadPlace(n) \in Places
    BY <1>2, PathsOfPlaces
  <2>2. HeadPlace(m) = HeadPlace(n)
    BY <2>1, PlacesDiffer
  <2> QED
    BY <2>2, PathsOfPlaces
<1>3. (CHOOSE m \in 1 .. 2 : path = HeadPaths(s)[m]) = n
  BY <1>1, <1>2
<1> QED
  BY <1>1, <1>3 DEF convertXmlText

LEMMA FieldFound ==
  ASSUME NEW s \in {"acl", "logging"}, NEW f \in Fields, NEW path, path = PlacePath(s, f),
         NEW d, NEW str
  PROVE  convertXmlText(s, d, path, str) = FieldText(d, f, str)
<1>1. ~\E m \in 1 .. 2 : path = HeadPaths(s)[m]
  <2>1. SUFFICES ASSUME NEW m \in 1 .. 2, path = HeadPaths(s)[m] PROVE FALSE
    OBVIOUS
  <2>2. PlacePath(s, HeadPlace(m)) = PlacePath(s, f) /\ HeadPlace(m) \in Places /\ f \in Places
    BY <2>1, PathsOfPlaces
  <2>3. HeadPlace(m) = f
    BY <2>2, PlacesDiffer
  <2> QED
    BY <2>3, PathsOfPlaces
<1>2. \E g \in Fields : path = FieldPath(s, g)
  BY PathsOfPlaces
<1>3. ASSUME NEW g \in Fields, path = FieldPath(s, g) PROVE g = f
  <2>1. PlacePath(s, g) = PlacePath(s, f) /\ g \in Places /\ f \in Places
    BY <1>3, PathsOfPlaces
  <2> QED
    BY <2>1, PlacesDiffer
<1>4. (CHOOSE g \in Fields : path = FieldPath(s, g)) = f
  BY <1>2, <1>3
<1> QED
  BY <1>1, <1>2, <1>4 DEF convertXmlText

LEMMA NowhereFound ==
  ASSUME NEW s \in {"acl", "logging"}, NEW path, \A place \in Places : path # PlacePath(s, place),
         NEW d, NEW str
  PROVE  convertXmlText(s, d, path, str) = Unread(d)
<1>1. ~\E m \in 1 .. 2 : path = HeadPaths(s)[m]
  BY PathsOfPlaces
<1>2. ~\E g \in Fields : path = FieldPath(s, g)
  BY PathsOfPlaces
<1> QED
  BY <1>1, <1>2 DEF convertXmlText

\* A piece of text is put behind what its place holds, or refused.
TextIsKept(s, texts, gs, place, str) ==
  LET done == convertXmlText(s, DataOf(texts, gs), PlacePath(s, place), str)
  IN  IF Len(texts[place]) + Len(str) <= Longest(place)
      THEN done = Unread(DataOf(TextAdded(texts, place, str), gs))
      ELSE done.status # "OK"

LEMMA FieldConverted ==
  ASSUME NEW s \in {"acl", "logging"}, NEW texts \in [Places -> Seq(Signs)], NEW gs,
         NEW f \in Fields, NEW str \in Seq(Signs), Len(texts[f]) <= Longest(f)
  PROVE  TextIsKept(s, texts, gs, f, str)
<1>1. PICK x, y : x = HeadHeld(texts["head1"]) /\ y = HeadHeld(texts["head2"])
  OBVIOUS
<1>2. PICK d : d = ConvertData(x, y, FieldsHeld(texts), gs) /\ d = DataOf(texts, gs)
  BY <1>1 DEF DataOf
<1>3. Longest(f) = GranteeSize
  BY FieldsArePlaces
<1>4. PICK more : more = TextAdded(texts, f, str)
  OBVIOUS
<1>5. more["head1"] = texts["head1"] /\ more["head2"] = texts["head2"]
  BY <1>4 DEF TextAdded, Places, Fields
<1>6. DataOf(more, gs) = ConvertData(x, y, FieldsHeld(more), gs)
  BY <1>1, <1>5 DEF DataOf
<1>7. convertXmlText(s, d, PlacePath(s, f), str) = FieldText(d, f, str)
  BY FieldFound
<1>8. IF Len(texts[f]) + Len(str) <= GranteeSize
      THEN FieldText(d, f, str) = Unread(ConvertData(x, y, FieldsHeld(more), gs))
      ELSE FieldText(d, f, str).status # "OK"
  BY <1>2, <1>3, <1>4, FieldTextIs
<1> QED
  BY <1>2, <1>3, <1>4, <1>6, <1>7, <1>8 DEF TextIsKept

LEMMA HeadConverted ==
  ASSUME NEW s \in {"acl", "logging"}, NEW texts \in [Places -> Seq(Signs)], NEW gs,
         NEW n \in 1 .. 2, NEW str \in Seq(Signs), Len(texts[HeadPlace(n)]) <= Longest(HeadPlace(n))
  PROVE  TextIsKept(s, texts, gs, HeadPlace(n), str)
<1>1. PICK x, y : x = HeadHeld(texts["head1"]) /\ y = HeadHeld(texts["head2"])
  OBVIOUS
<1>2. PICK d : d = ConvertData(x, y, FieldsHeld(texts), gs) /\ d = DataOf(texts, gs)
  BY <1>1 DEF DataOf
<1>3. Longest(HeadPlace(n)) = GranteeSize - 1
  BY PathsOfPlaces DEF Longest
<1>4. PICK more : more = TextAdded(texts, HeadPlace(n), str)
  OBVIOUS
<1>5. PICK t \in Seq(Signs) : t = texts[HeadPlace(n)]
  BY PathsOfPlaces
<1>6. PICK z : z = HeadHeld(t \o str)
  OBVIOUS
<1>7. /\ n = 1 => HeadHeld(t) = x
      /\ n = 2 => HeadHeld(t) = y
  BY <1>1, <1>5 DEF HeadPlace
<1>8. /\ n = 1 => HeadHeld(more["head1"]) = z /\ HeadHeld(more["head2"]) = y
      /\ n = 2 => HeadHeld(more["head1"]) = x /\ HeadHeld(more["head2"]) = z
  <2>1. "head1" \in Places /\ "head2" \in Places
    BY DEF Places
  <2>2. CASE n = 1
    <3>1. more["head1"] = t \o str /\ more["head2"] = texts["head2"]
      BY <1>4, <1>5, <2>1, <2>2 DEF TextAdded, HeadPlace
    <3> QED
      BY <1>1, <1>6, <2>2, <3>1
  <2>3. CASE n = 2
    <3>1. more["head2"] = t \o str /\ more["head1"] = texts["head1"]
      BY <1>4, <1>5, <2>1, <2>3 DEF TextAdded, HeadPlace
    <3> QED
      BY <1>1, <1>6, <2>3, <3>1
  <2> QED
    BY <2>2, <2>3
<1>9. FieldsHeld(more) = FieldsHeld(texts)
  <2>1. \A f \in Fields : more[f] = texts[f]
    BY <1>4, PathsOfPlaces DEF TextAdded
  <2> QED
    BY <2>1 DEF FieldsHeld
<1>10. DataOf(more, gs) = IF n = 1 THEN ConvertData(z, y, FieldsHeld(texts), gs)
                          ELSE ConvertData(x, z, FieldsHeld(texts), gs)
  BY <1>8, <1>9 DEF DataOf
<1>11. convertXmlText(s, d, PlacePath(s, HeadPlace(n)), str) = HeadText(s, d, n, str)
  BY HeadFound
<1>12. Len(t) <= GranteeSize - 1 /\ n \in {1, 2}
  BY <1>3, <1>5
<1>13. PICK held : held = FieldsHeld(texts)
  OBVIOUS
<1>14. d = ConvertData(x, y, held, gs) /\ t \in Seq(Signs) /\ str \in Seq(Signs)
  BY <1>2, <1>13
<1>15. HeadIsKept(s, n, str, x, y, held, gs, t)
  BY <1>7, <1>12, <1>14, HeadTextIs
<1> QED
  BY <1>2, <1>3, <1>4, <1>5, <1>6, <1>10, <1>11, <1>13, <1>15 DEF TextIsKept, HeadIsKept

-----------------------------------------------------------------------------
(* convertXml's callback for the end of an element                         *)

EndIsKept(s, texts, gs, path, unit) ==
  LET done == convertXmlEnd(s, DataOf(texts, gs), path)
      next == AfterUnit(s, Reader(path, texts, gs, "OK"), unit)
  IN  IF next.status = "OK"
      THEN done = Unread(DataOf(next.texts, next.grants)) /\ next.path = Front(path)
      ELSE done.status # "OK"

LEMMA NoFieldsHeld ==
  ASSUME NEW texts
  PROVE  /\ FieldsHeld(Cleared(texts)) = NoFields
         /\ Cleared(texts)["head1"] = texts["head1"] /\ Cleared(texts)["head2"] = texts["head2"]
<1>1. PICK h \in Nat : h = Held(GranteeSize)
  BY AccessControlAssumption DEF Held
<1>2. PICK none : none = Cleared(texts)
  OBVIOUS
<1>3. \A f \in Fields : none[f] = <<>>
  BY <1>2, FieldsArePlaces DEF Cleared
<1>4. Cut(<<>>, h) = <<>> /\ Len(<<>>) = 0
  <2>1. <<>> \in Seq(Signs)
    OBVIOUS
  <2> QED
    BY <1>1, <2>1, CutIs
<1>5. \A f \in Fields : [text |-> Cut(none[f], h), len |-> Len(none[f])] = Empty
  BY <1>3, <1>4 DEF Empty
<1>6. FieldsHeld(none) = NoFields
  BY <1>1, <1>5 DEF FieldsHeld, NoFields
<1>7. "head1" \in Places \ Fields /\ "head2" \in Places \ Fields
  BY DEF Places, Fields
<1> QED
  BY <1>2, <1>6, <1>7 DEF Cleared

LEMMA GrantAdded ==
  ASSUME NEW texts, NEW gs, NEW g
  PROVE  AddGrant(DataOf(texts, gs), g) = DataOf(Cleared(texts), Append(gs, g))
<1>1. PICK x, y, held : x = HeadHeld(texts["head1"]) /\ y = HeadHeld(texts["head2"]) /\ held = FieldsHeld(texts)
  OBVIOUS
<1>2. PICK d : d = ConvertData(x, y, held, gs) /\ d = DataOf(texts, gs)
  BY <1>1 DEF DataOf
<1>3. d.heads = <<x, y>> /\ d.grants = gs
  BY <1>2 DEF ConvertData
<1>4. AddGrant(d, g) = ConvertData(x, y, NoFields, Append(gs, g))
  BY <1>3 DEF AddGrant, ConvertData
<1>5. DataOf(Cleared(texts), Append(gs, g)) = ConvertData(x, y, NoFields, Append(gs, g))
  BY <1>1, NoFieldsHeld DEF DataOf
<1> QED
  BY <1>2, <1>4, <1>5

LEMMA EndConverted ==
  ASSUME NEW s \in {"acl", "logging"}, NEW path, NEW texts, NEW gs, NEW unit, unit.tag = "end"
  PROVE  EndIsKept(s, texts, gs, path, unit)
<1>1. PICK d : d = DataOf(texts, gs)
  OBVIOUS
<1>2. d.fields = FieldsHeld(texts) /\ d.grants = gs
  BY <1>1, DataParts DEF DataOf
<1>3. PICK r : r = Reader(path, texts, gs, "OK")
  OBVIOUS
<1>4. r.path = path /\ r.texts = texts /\ r.grants = gs /\ r.status = "OK"
  BY <1>3 DEF Reader
<1>5. AfterUnit(s, r, unit) = IF path = GrantPath(s) THEN AfterGrant(s, r)
                              ELSE Reader(Front(path), texts, gs, "OK")
  BY <1>4 DEF AfterUnit
<1>6. CASE path # GrantPath(s)
  <2>1. convertXmlEnd(s, d, path) = Unread(d)
    BY <1>6 DEF convertXmlEnd
  <2>2. PICK next : next = AfterUnit(s, r, unit)
    OBVIOUS
  <2>3. next.status = "OK" /\ next.path = Front(path) /\ next.texts = texts /\ next.grants = gs
    BY <1>5, <1>6, <2>2 DEF Reader
  <2> QED
    BY <1>1, <1>3, <2>1, <2>2, <2>3 DEF EndIsKept
<1>7. CASE path = GrantPath(s)
  <2>1. PICK read : read = GrantRead(s, FieldsHeld(texts))
    OBVIOUS
  <2>2. PICK bad : bad \in BOOLEAN /\ (bad <=> \/ Len(gs) = S3_MAX_ACL_GRANT_COUNT
                                              \/ read = {}
                                              \/ \E g \in read : g.permission \notin Permissions)
    OBVIOUS
  <2>3. PICK g : g = CHOOSE x \in read : TRUE
    OBVIOUS
  <2>4. AfterGrant(s, r) = IF bad THEN Failed(r)
                           ELSE Reader(Front(path), Cleared(texts), Append(gs, g), "OK")
    BY <1>4, <2>1, <2>2, <2>3 DEF AfterGrant
  <2>5. PICK next : next = AfterUnit(s, r, unit)
    OBVIOUS
  <2>6. CASE bad
    <3>1. next.status = "failed"
      BY <1>5, <1>7, <2>4, <2>5, <2>6 DEF Failed, Reader
    <3>2. convertXmlEnd(s, d, path).status # "OK"
      BY <1>2, <1>7, <2>1, <2>2, <2>6 DEF convertXmlEnd
    <3> QED
      BY <1>1, <1>3, <2>5, <3>1, <3>2 DEF EndIsKept
  <2>7. CASE ~bad
    <3>1. next = Reader(Front(path), Cleared(texts), Append(gs, g), "OK")
      BY <1>5, <1>7, <2>4, <2>5, <2>7
    <3>2. next.status = "OK" /\ next.path = Front(path) /\ next.texts = Cleared(texts)
          /\ next.grants = Append(gs, g)
      BY <3>1 DEF Reader
    <3>3. convertXmlEnd(s, d, path) = Unread(AddGrant(d, g))
      BY <1>2, <1>7, <2>1, <2>2, <2>3, <2>7 DEF convertXmlEnd
    <3>4. AddGrant(d, g) = DataOf(Cleared(texts), Append(gs, g))
      BY <1>1, GrantAdded
    <3> QED
      BY <1>1, <1>3, <2>5, <3>2, <3>3, <3>4 DEF EndIsKept
  <2> QED
    BY <2>6, <2>7
<1> QED
  BY <1>6, <1>7

LEMMA FirstData == convert_initialize = DataOf(NoTexts, <<>>)
<1>1. <<>> \in Seq(Signs) /\ Len(<<>>) = 0
  OBVIOUS
<1>2. NoTexts["head1"] = <<>> /\ NoTexts["head2"] = <<>>
  BY DEF NoTexts, Places
<1>3. FieldsHeld(NoTexts) = NoFields
  <2>1. Cleared(NoTexts) = NoTexts
    BY DEF Cleared, NoTexts
  <2> QED
    BY <2>1, NoFieldsHeld
<1>4. HeadHeld(<<>>) = Empty
  <2>1. PICK h \in Nat : h = GranteeSize - 2
    BY AccessControlAssumption
  <2>2. Cut(<<>>, h) = <<>>
    BY <1>1, <2>1 DEF Cut, Shorter
  <2> QED
    BY <1>1, <2>1, <2>2 DEF HeadHeld, Empty
<1> QED
  BY <1>2, <1>3, <1>4 DEF convert_initialize, DataOf, ConvertData

-----------------------------------------------------------------------------
(* A part of a document                                                    *)

\* These n units are those behind the first k.
IsPart(part, units, k, n) ==
  /\ part \in Seq(Units) /\ Len(part) = n
  /\ n \in Nat /\ k \in Nat /\ Len(units) \in Nat /\ k + n <= Len(units)
  /\ \A j \in 1 .. n : part[j] = units[k + j]

\* The reader after the first k units and n more.
IsBehind(f, k, n, q) == f[k + n] = q

\* Units that are part of others lead from there to where the whole reading is.
LEMMA ReadingPart ==
  ASSUME NEW s, NEW r, NEW units, NEW f, Reading(s, r, units, f),
         NEW part, NEW k, NEW n, IsPart(part, units, k, n), NEW p, NEW q, Leads(s, p, part, q),
         IsBehind(f, k, 0, p)
  PROVE  IsBehind(f, k, n, q)
<1>0. PICK len \in Nat : len = Len(units)
  BY DEF IsPart
<1>9. /\ part \in Seq(Units) /\ Len(part) = n /\ n \in Nat /\ k \in Nat /\ k + n <= len
      /\ \A j \in 1 .. n : part[j] = units[k + j]
  BY <1>0 DEF IsPart
<1>10. f[k] = p
  <2>1. k + 0 = k
    BY <1>9
  <2> QED
    BY <2>1 DEF IsBehind
<1>1. PICK g : Reading(s, f[k], part, g) /\ g[n] = q
  BY <1>9, <1>10 DEF Leads
<1>2. PICK h : h = [j \in 0 .. n |-> f[k + j]]
  OBVIOUS
<1>3. h[0] = f[k]
  <2>1. h[0] = f[k + 0] /\ k + 0 = k
    BY <1>2, <1>9
  <2> QED
    BY <2>1
<1>4. ASSUME NEW j \in 1 .. n PROVE h[j] = AfterUnit(s, h[j - 1], part[j])
  <2>1. j \in 0 .. n /\ j - 1 \in 0 .. n
    BY <1>9
  <2>2. PICK i \in 1 .. len : i = k + j /\ i - 1 = k + (j - 1)
    BY <1>9
  <2>3. h[j] = f[i] /\ h[j - 1] = f[i - 1]
    BY <1>2, <2>1, <2>2
  <2>4. f[i] = AfterUnit(s, f[i - 1], units[i])
    BY <1>0, <2>2 DEF Reading
  <2> QED
    BY <1>9, <2>2, <2>3, <2>4
<1>5. Reading(s, f[k], part, h)
  BY <1>9, <1>3, <1>4 DEF Reading
<1>6. \A i \in 0 .. Len(part) : h[i] = g[i]
  BY <1>9, <1>1, <1>5, ReadingUnique
<1>7. n \in 0 .. n /\ h[n] = f[k + n]
  BY <1>9, <1>2
<1>8. h[n] = g[n]
  BY <1>9, <1>6, <1>7
<1> QED
  BY <1>1, <1>7, <1>8 DEF IsBehind

\* A reading that has failed has failed at its end.
LEMMA FailedAtEnd ==
  ASSUME NEW s, NEW r, NEW units \in Seq(Units), NEW f, Reading(s, r, units, f),
         NEW k \in 0 .. Len(units), f[k].status # "OK"
  PROVE  f[Len(units)].status # "OK"
<1>1. PICK len \in Nat, n \in Nat : len = Len(units) /\ k + n = len /\ k \in Nat
  <2>1. Len(units) \in Nat /\ Len(units) - k \in Nat
    OBVIOUS
  <2> QED
    BY <2>1
<1>2. PICK part : part = [j \in 1 .. n |-> units[k + j]]
  OBVIOUS
<1>3. part \in Seq(Units) /\ Len(part) = n /\ \A j \in 1 .. n : part[j] = units[k + j]
  BY <1>1, <1>2
<1>4. Leads(s, f[k], part, f[k])
  BY <1>3, FailedStays
<1>5. IsPart(part, units, k, n)
  BY <1>1, <1>3 DEF IsPart
<1>6. PICK p : p = f[k]
  OBVIOUS
<1>7. IsBehind(f, k, 0, p)
  BY <1>1, <1>6 DEF IsBehind
<1>8. IsBehind(f, k, n, p)
  BY <1>4, <1>5, <1>6, <1>7, ReadingPart
<1> QED
  BY <1>1, <1>6, <1>8 DEF IsBehind

\* Where a reading is at the end.
LEMMA ReadingEnds ==
  ASSUME NEW s, NEW r, NEW units \in Seq(Units), NEW f, Reading(s, r, units, f), NEW q,
         Leads(s, r, units, q)
  PROVE  f[Len(units)] = q
<1>1. PICK g : Reading(s, r, units, g) /\ g[Len(units)] = q
  BY DEF Leads
<1>2. \A i \in 0 .. Len(units) : f[i] = g[i]
  BY <1>1, ReadingUnique
<1>3. Len(units) \in 0 .. Len(units)
  OBVIOUS
<1> QED
  BY <1>1, <1>2, <1>3

-----------------------------------------------------------------------------
(* What a reading has taken on its way                                     *)

\* q has the grants of r, or one more.
OneGrantAtMost(r, q) == q.grants = r.grants \/ \E g : q.grants = Append(r.grants, g)

LEMMA GrantsGrow ==
  ASSUME NEW s, NEW r, NEW unit, NEW q, q = AfterUnit(s, r, unit)
  PROVE  OneGrantAtMost(r, q)
<1> USE DEF OneGrantAtMost
<1>1. CASE r.status # "OK"
  BY <1>1 DEF AfterUnit
<1>2. CASE r.status = "OK" /\ unit.tag = "start"
  <2>1. q = AfterStart(r, unit.what)
    BY <1>2 DEF AfterUnit
  <2> QED
    BY <2>1 DEF AfterStart, Failed, Reader
<1>3. CASE r.status = "OK" /\ unit.tag = "char"
  <2>1. q = AfterSign(s, r, unit.what)
    BY <1>3 DEF AfterUnit
  <2>2. CASE ~\E place \in Places : r.path = PlacePath(s, place)
    BY <2>1, <2>2 DEF AfterSign
  <2>3. CASE \E place \in Places : r.path = PlacePath(s, place)
    <3>1. PICK place : place = CHOOSE p \in Places : r.path = PlacePath(s, p)
      OBVIOUS
    <3>2. PICK more : more = TextAdded(r.texts, place, <<unit.what>>)
      OBVIOUS
    <3>3. q = IF Len(r.texts[place]) + 1 <= Longest(place) THEN Reader(r.path, more, r.grants, "OK")
              ELSE Failed(r)
      BY <2>1, <2>3, <3>1, <3>2 DEF AfterSign
    <3> QED
      BY <3>3 DEF Failed, Reader
  <2> QED
    BY <2>2, <2>3
<1>4. CASE r.status = "OK" /\ unit.tag \notin {"start", "char"}
  <2>1. q = IF r.path = GrantPath(s) THEN AfterGrant(s, r)
            ELSE Reader(Front(r.path), r.texts, r.grants, "OK")
    BY <1>4 DEF AfterUnit
  <2>2. PICK g : AfterGrant(s, r) = Failed(r)
                 \/ AfterGrant(s, r) = Reader(Front(r.path), Cleared(r.texts), Append(r.grants, g), "OK")
    BY DEF AfterGrant
  <2> QED
    BY <2>1, <2>2 DEF Failed, Reader
<1> QED
  BY <1>1, <1>2, <1>3, <1>4

Beginnings(K) == {SubSeq(K, 1, m) : m \in 0 .. Len(K)}

LEMMA OneLess ==
  ASSUME NEW S, NEW K \in Seq(S), NEW T, NEW x \in Seq(T), NEW g, Append(x, g) \in Beginnings(K)
  PROVE  x \in Beginnings(K)
<1>1. PICK len \in Nat, n \in Nat : len = Len(K) /\ n = Len(x)
  OBVIOUS
<1>2. PICK m \in 0 .. len : Append(x, g) = SubSeq(K, 1, m)
  BY <1>1 DEF Beginnings
<1>3. PICK both : both = SubSeq(K, 1, m)
  OBVIOUS
<1>4. Len(both) = m /\ \A i \in 1 .. m : both[i] = K[i]
  BY <1>1, <1>3, Beginning
<1>5. x \in Seq(T \cup {g}) /\ g \in T \cup {g}
  OBVIOUS
<1>6. both = Append(x, g)
  BY <1>2, <1>3
<1>7. Len(both) = n + 1 /\ \A i \in 1 .. n : both[i] = x[i]
  BY <1>1, <1>5, <1>6, AppendProperties
<1>8. n \in 0 .. len /\ m = n + 1
  BY <1>4, <1>7
<1>9. PICK less : less = SubSeq(K, 1, n)
  OBVIOUS
<1>10. less \in Seq(S) /\ Len(less) = n /\ \A i \in 1 .. n : less[i] = K[i]
  BY <1>1, <1>8, <1>9, Beginning
<1>11. \A i \in 1 .. n : less[i] = x[i]
  BY <1>4, <1>7, <1>8, <1>10
<1>12. less \in Seq(S \cup T) /\ x \in Seq(S \cup T)
  BY <1>10
<1>13. less = x
  BY <1>1, <1>10, <1>11, <1>12, SeqEqual
<1> QED
  BY <1>1, <1>8, <1>9, <1>13 DEF Beginnings

IsSequence(x) == \E T : x \in Seq(T)

LEMMA OneMoreIsSequence ==
  ASSUME NEW x, IsSequence(x), NEW g
  PROVE  IsSequence(Append(x, g))
<1>1. PICK T : x \in Seq(T)
  BY DEF IsSequence
<1>2. x \in Seq(T \cup {g}) /\ g \in T \cup {g}
  BY <1>1
<1>3. Append(x, g) \in Seq(T \cup {g})
  BY <1>2, AppendProperties
<1> QED
  BY <1>3 DEF IsSequence

LEMMA GrantsAreSequence ==
  ASSUME NEW s, NEW r, NEW units \in Seq(Units), NEW f, Reading(s, r, units, f), IsSequence(r.grants)
  PROVE  \A i \in 0 .. Len(units) : IsSequence(f[i].grants)
<1>1. PICK len \in Nat : len = Len(units)
  OBVIOUS
<1>2. PICK Good : Good = {i \in Nat : i <= len => IsSequence(f[i].grants)}
  OBVIOUS
<1>3. 0 \in Good
  <2>1. f[0] = r
    BY DEF Reading
  <2> QED
    BY <1>2, <2>1
<1>4. ASSUME NEW i \in Good PROVE i + 1 \in Good
  <2>1. i \in Nat /\ (i <= len => IsSequence(f[i].grants))
    BY <1>2
  <2>2. CASE i + 1 <= len
    <3>1. i + 1 \in 1 .. len /\ (i + 1) - 1 = i /\ i <= len
      BY <2>1, <2>2
    <3>2. f[i + 1] = AfterUnit(s, f[i], units[i + 1])
      BY <1>1, <3>1 DEF Reading
    <3>3. PICK q, p : q = f[i + 1] /\ p = f[i]
      OBVIOUS
    <3>8. PICK unit : unit = units[i + 1]
      OBVIOUS
    <3>9. q = AfterUnit(s, p, unit)
      BY <3>2, <3>3, <3>8
    <3>4. OneGrantAtMost(p, q)
      BY <3>9, GrantsGrow
    <3>5. IsSequence(p.grants)
      BY <2>1, <3>1, <3>3
    <3>6. IsSequence(q.grants)
      BY <3>4, <3>5, OneMoreIsSequence DEF OneGrantAtMost
    <3> QED
      BY <1>2, <2>1, <3>3, <3>6
  <2>3. CASE ~(i + 1 <= len)
    BY <1>2, <2>1, <2>3
  <2> QED
    BY <2>2, <2>3
<1>5. Good = Nat
  BY <1>2, <1>3, <1>4, AllNumbers
<1> QED
  BY <1>1, <1>2, <1>5

\* What a reading that ends with some of these grants has had before is some of them.
LEMMA GrantsBefore ==
  ASSUME NEW s, NEW r, NEW units \in Seq(Units), NEW f, Reading(s, r, units, f), IsSequence(r.grants),
         NEW S, NEW K \in Seq(S), f[Len(units)].grants \in Beginnings(K)
  PROVE  \A i \in 0 .. Len(units) : f[i].grants \in Beginnings(K)
<1>1. PICK len \in Nat : len = Len(units)
  OBVIOUS
<1>2. PICK Good : Good = {i \in Nat : i <= len => f[len - i].grants \in Beginnings(K)}
  OBVIOUS
<1>3. 0 \in Good
  <2>1. len - 0 = len
    OBVIOUS
  <2> QED
    BY <1>1, <1>2, <2>1
<1>4. ASSUME NEW i \in Good PROVE i + 1 \in Good
  <2>1. i \in Nat /\ (i <= len => f[len - i].grants \in Beginnings(K))
    BY <1>2
  <2>2. CASE i + 1 <= len
    <3>1. PICK j \in 1 .. len : j = len - i /\ j - 1 = len - (i + 1) /\ j - 1 \in 0 .. len /\ i <= len
      BY <2>1, <2>2
    <3>2. f[j] = AfterUnit(s, f[j - 1], units[j])
      BY <1>1, <3>1 DEF Reading
    <3>3. PICK q, p : q = f[j] /\ p = f[j - 1]
      OBVIOUS
    <3>8. PICK unit : unit = units[j]
      OBVIOUS
    <3>9. q = AfterUnit(s, p, unit)
      BY <3>2, <3>3, <3>8
    <3>4. OneGrantAtMost(p, q)
      BY <3>9, GrantsGrow
    <3>5. PICK T : p.grants \in Seq(T)
      BY <1>1, <3>1, <3>3, GrantsAreSequence DEF IsSequence
    <3>6. q.grants \in Beginnings(K)
      BY <2>1, <3>1, <3>3
    <3>7. p.grants \in Beginnings(K)
      BY <3>4, <3>5, <3>6, OneLess DEF OneGrantAtMost
    <3> QED
      BY <1>2, <2>1, <3>1, <3>3, <3>7
  <2>3. CASE ~(i + 1 <= len)
    BY <1>2, <2>1, <2>3
  <2> QED
    BY <2>2, <2>3
<1>5. Good = Nat
  BY <1>2, <1>3, <1>4, AllNumbers
<1>6. ASSUME NEW i \in 0 .. len PROVE f[i].grants \in Beginnings(K)
  <2>0. len - i \in Nat /\ len - i <= len /\ len - (len - i) = i
    OBVIOUS
  <2>1. PICK j \in Nat : j = len - i /\ j <= len /\ len - j = i
    BY <2>0
  <2>2. j \in Good
    BY <1>5
  <2> QED
    BY <1>2, <2>1, <2>2
<1> QED
  BY <1>1, <1>6

-----------------------------------------------------------------------------
(* Readings of the document of this behaviour                              *)

LEMMA BeginningIsPrefix ==
  ASSUME NEW S, NEW K \in Seq(S), NEW x \in Beginnings(K)
  PROVE  IsPrefix(x, K)
<1>1. PICK m \in 0 .. Len(K) : x = SubSeq(K, 1, m)
  BY DEF Beginnings
<1>2. m \in Nat /\ m <= Len(K)
  OBVIOUS
<1>3. x \in Seq(S) /\ Len(x) = m
  BY <1>1, <1>2, Beginning
<1>4. SubSeq(x, 1, m) = x
  BY <1>3, SubSeqFull
<1> QED
  BY <1>1, <1>2, <1>3, <1>4 DEF IsPrefix

LEMMA TakenIs ==
  ASSUME GivenGrants, subject # "error"
  PROVE  /\ AsRead \in Seq(GrantRecords) /\ WholeTaken = Beginnings(AsRead)
         /\ WholeEnd.status = "OK" /\ WholeEnd.grants = AsRead
<1>1. grants \in Seq(GrantRecords)
  BY GivenWritten
<1>2. CASE LoggingOff
  <2>1. AsRead = <<>>
    BY <1>2, AsReadIs
  <2>2. WholeTaken = {<<>>}
    BY <1>2 DEF WholeTaken
  <2>3. WholeEnd = Fresh
    BY <1>2 DEF WholeEnd
  <2>4. PICK none : none = <<>> /\ Len(none) = 0 /\ none \in Seq(GrantRecords)
    <3>1. <<>> \in Seq(GrantRecords) /\ Len(<<>>) = 0
      OBVIOUS
    <3> QED
      BY <3>1
  <2>5. SubSeq(none, 1, 0) = none
    <3>1. Len(SubSeq(none, 1, 0)) = 0 /\ SubSeq(none, 1, 0) \in Seq(GrantRecords)
      BY <2>4, Beginning
    <3> QED
      BY <2>4, <3>1, EmptySeq
  <2>6. Beginnings(none) = {none}
    <3>1. ASSUME NEW z PROVE z \in Beginnings(none) <=> z = none
      <4>1. z \in Beginnings(none) <=> \E m \in 0 .. 0 : z = SubSeq(none, 1, m)
        BY <2>4 DEF Beginnings
      <4>2. \A m : m \in 0 .. 0 <=> m = 0
        OBVIOUS
      <4> QED
        BY <2>5, <4>1, <4>2
    <3> QED
      BY <3>1
  <2> QED
    BY <2>1, <2>2, <2>3, <2>4, <2>6 DEF Fresh, Reader
<1>3. CASE ~LoggingOff
  <2>1. AsRead = AllKept(subject, By, grants)
    BY <1>3, AsReadIs
  <2>2. AllKept(subject, By, grants) \in Seq(GrantRecords)
        /\ Len(AllKept(subject, By, grants)) = Len(grants)
    BY <1>1, AllKeptTyped
  <2>3. WholeTaken = Takeable(subject, By, grants)
    BY <1>3 DEF WholeTaken
  <2>4. Takeable(subject, By, grants) = Beginnings(AllKept(subject, By, grants))
    BY <2>2 DEF Takeable, Beginnings
  <2>5. WholeEnd.status = "OK" /\ WholeEnd.grants = AllKept(subject, By, grants)
    BY <1>3 DEF WholeEnd, ReadWhole, Reader
  <2> QED
    BY <2>1, <2>2, <2>3, <2>4, <2>5
<1> QED
  BY <1>2, <1>3

\* The reading of the whole document.
ReadingOfWhole(f) == Reading(subject, Fresh, Whole, f)

LEMMA ReaderEnds ==
  ASSUME GivenGrants, subject # "error", NEW f, ReadingOfWhole(f)
  PROVE  /\ WholeGood => f[Len(Whole)] = WholeEnd
         /\ ~WholeGood => f[Len(Whole)].status # "OK"
         /\ f[Len(Whole)].grants \in Beginnings(AsRead)
<1>1. /\ ReadsTo(subject, Fresh, Whole, WholeGood, WholeEnd, WholeTaken)
      /\ Whole \in Seq(Units)
  BY WholeRead
<1>2. Reading(subject, Fresh, Whole, f)
  BY DEF ReadingOfWhole
<1>3. AsRead \in Seq(GrantRecords) /\ WholeTaken = Beginnings(AsRead)
      /\ WholeEnd.status = "OK" /\ WholeEnd.grants = AsRead
  BY TakenIs
<1>4. CASE WholeGood
  <2>1. Leads(subject, Fresh, Whole, WholeEnd)
    BY <1>1, <1>4 DEF ReadsTo
  <2>2. f[Len(Whole)] = WholeEnd
    BY <1>1, <1>2, <2>1, ReadingEnds
  <2>3. AsRead \in Beginnings(AsRead)
    <3>1. PICK all \in Seq(GrantRecords) : all = AsRead
      BY <1>3
    <3>2. SubSeq(all, 1, Len(all)) = all /\ Len(all) \in 0 .. Len(all)
      BY SubSeqFull
    <3> QED
      BY <3>1, <3>2 DEF Beginnings
  <2> QED
    BY <1>3, <1>4, <2>2, <2>3
<1>5. CASE ~WholeGood
  <2>1. PICK t : Leads(subject, Fresh, Whole, t) /\ t.status = "failed" /\ t.grants \in WholeTaken
    BY <1>1, <1>5 DEF ReadsTo
  <2>2. f[Len(Whole)] = t
    BY <1>1, <1>2, <2>1, ReadingEnds
  <2> QED
    BY <1>3, <1>5, <2>1, <2>2
<1> QED
  BY <1>4, <1>5

LEMMA ReaderOnTheWay ==
  ASSUME GivenGrants, subject # "error", NEW f, ReadingOfWhole(f), NEW i \in 0 .. Len(Whole)
  PROVE  /\ IsPrefix(f[i].grants, AsRead)
         /\ f[i].status # "OK" => ~WholeGood
<1>1. Whole \in Seq(Units) /\ Reading(subject, Fresh, Whole, f)
  BY WholeRead DEF ReadingOfWhole
<1>2. AsRead \in Seq(GrantRecords) /\ WholeEnd.status = "OK"
  BY TakenIs
<1>3. f[Len(Whole)].grants \in Beginnings(AsRead)
  BY ReaderEnds
<1>4. IsSequence(Fresh.grants)
  <2>1. Fresh.grants = <<>>
    BY DEF Fresh, Reader
  <2>2. <<>> \in Seq(Signs)
    OBVIOUS
  <2> QED
    BY <2>1, <2>2 DEF IsSequence
<1>5. \A j \in 0 .. Len(Whole) : f[j].grants \in Beginnings(AsRead)
  BY <1>1, <1>2, <1>3, <1>4, GrantsBefore
<1>6. IsPrefix(f[i].grants, AsRead)
  BY <1>2, <1>5, BeginningIsPrefix
<1>7. ASSUME f[i].status # "OK" PROVE ~WholeGood
  <2>1. f[Len(Whole)].status # "OK"
    BY <1>1, <1>7, FailedAtEnd
  <2> QED
    BY <1>2, <2>1, ReaderEnds
<1> QED
  BY <1>6, <1>7

\* What the reader of the whole document has kept of the heads.
LEMMA WholeHeads ==
  ASSUME GivenGrants, subject # "error", NEW d, d = DataOf(WholeEnd.texts, WholeEnd.grants)
  PROVE  d.grants = AsRead /\ \A n \in 1 .. 2 : d.heads[n].text = HeadsRead[n]
<1>1. WholeEnd.grants = AsRead
  BY TakenIs
<1>2. PICK t : t = WholeEnd.texts
  OBVIOUS
<1>3. PICK x, y : x = HeadHeld(t["head1"]) /\ y = HeadHeld(t["head2"])
  OBVIOUS
<1>4. d = ConvertData(x, y, FieldsHeld(t), AsRead)
  BY <1>1, <1>2, <1>3 DEF DataOf
<1>5. d.heads = <<x, y>> /\ d.grants = AsRead
  BY <1>4 DEF ConvertData
<1>6. "head1" \in Places /\ "head2" \in Places
  BY DEF Places
<1>7. \A n \in 1 .. 2 : HeadsRead[n] = IF LoggingOff THEN <<>> ELSE Cut(heads[n], GranteeSize - 2)
  BY DEF HeadsRead
<1>8. x.text = HeadsRead[1] /\ y.text = HeadsRead[2]
  <2>1. x.text = Cut(t["head1"], GranteeSize - 2) /\ y.text = Cut(t["head2"], GranteeSize - 2)
    BY <1>3 DEF HeadHeld
  <2>2. CASE LoggingOff
    <3>1. t = NoTexts
      BY <1>2, <2>2 DEF WholeEnd, Fresh, Reader
    <3>2. t["head1"] = <<>> /\ t["head2"] = <<>>
      BY <1>6, <3>1 DEF NoTexts
    <3>3. Cut(<<>>, GranteeSize - 2) = <<>>
      <4>1. PICK h \in Nat : h = GranteeSize - 2
        BY AccessControlAssumption
      <4>2. <<>> \in Seq(Signs) /\ Len(<<>>) = 0
        OBVIOUS
      <4> QED
        BY <4>1, <4>2 DEF Cut, Shorter
    <3> QED
      BY <1>7, <2>1, <2>2, <3>2, <3>3
  <2>3. CASE ~LoggingOff
    <3>1. t = HeadTexts(heads[1], heads[2])
      BY <1>2, <2>3 DEF WholeEnd, ReadWhole, Reader
    <3>2. t["head1"] = heads[1] /\ t["head2"] = heads[2]
      BY <1>6, <3>1 DEF HeadTexts
    <3> QED
      BY <1>7, <2>1, <2>3, <3>2
  <2> QED
    BY <2>2, <2>3
<1>9. ASSUME NEW n \in 1 .. 2 PROVE d.heads[n].text = HeadsRead[n]
  <2>1. CASE n = 1
    BY <1>5, <1>8, <2>1
  <2>2. CASE n = 2
    BY <1>5, <1>8, <2>2
  <2> QED
    BY <2>1, <2>2
<1> QED
  BY <1>5, <1>9

-----------------------------------------------------------------------------
(* Each callback does what the reader does                                 *)

IsTexts(texts) ==
  texts \in [Places -> Seq(Signs)] /\ \A place \in Places : Len(texts[place]) <= Longest(place)

\* The reader r stands for a parser with this path and these data.
IsAt(r, path, d) ==
  /\ r = Reader(path, r.texts, r.grants, "OK")
  /\ IsTexts(r.texts)
  /\ d = DataOf(r.texts, r.grants)

\* What the parser has done and the reader q it should stand at.
Follows(q, path, done) ==
  /\ done.status = "OK" => IsAt(q, path, done.data)
  /\ done.status # "OK" => q.status # "OK"

LEMMA StartFollows ==
  ASSUME NEW s, NEW r, NEW path, NEW d, IsAt(r, path, d), NEW unit, unit.tag = "start",
         NEW q, q = AfterUnit(s, r, unit)
  PROVE  IF TooDeep(path) THEN q.status # "OK" ELSE IsAt(q, Append(path, unit.what), d)
<1>1. PICK texts, gs : texts = r.texts /\ gs = r.grants
  OBVIOUS
<1>2. r = Reader(path, texts, gs, "OK") /\ IsTexts(texts) /\ d = DataOf(texts, gs)
  BY <1>1 DEF IsAt
<1>3. r.path = path /\ r.status = "OK"
  BY <1>2 DEF Reader
<1>4. q = AfterStart(r, unit.what)
  BY <1>3 DEF AfterUnit
<1>5. CASE TooDeep(path)
  BY <1>3, <1>4, <1>5 DEF AfterStart, Failed, Reader
<1>6. CASE ~TooDeep(path)
  <2>1. PICK longer : longer = Append(path, unit.what)
    OBVIOUS
  <2>2. q = Reader(longer, texts, gs, "OK")
    BY <1>1, <1>3, <1>4, <1>6, <2>1 DEF AfterStart
  <2>3. q.texts = texts /\ q.grants = gs
    BY <2>2 DEF Reader
  <2> QED
    BY <1>2, <1>6, <2>1, <2>2, <2>3 DEF IsAt
<1> QED
  BY <1>5, <1>6

LEMMA EndFollows ==
  ASSUME NEW s \in {"acl", "logging"}, NEW r, NEW path, NEW d, IsAt(r, path, d),
         NEW unit, unit.tag = "end", NEW q, q = AfterUnit(s, r, unit)
  PROVE  Follows(q, Front(path), convertXmlEnd(s, d, path))
<1>1. PICK texts, gs : texts = r.texts /\ gs = r.grants
  OBVIOUS
<1>2. r = Reader(path, texts, gs, "OK") /\ IsTexts(texts) /\ d = DataOf(texts, gs)
  BY <1>1 DEF IsAt
<1>3. PICK done : done = convertXmlEnd(s, d, path)
  OBVIOUS
<1>4. EndIsKept(s, texts, gs, path, unit)
  BY EndConverted
<1>5. IF q.status = "OK" THEN done = Unread(DataOf(q.texts, q.grants)) /\ q.path = Front(path)
      ELSE done.status # "OK"
  BY <1>2, <1>3, <1>4 DEF EndIsKept
<1>6. CASE q.status # "OK"
  BY <1>3, <1>5, <1>6 DEF Follows
<1>7. CASE q.status = "OK"
  <2>1. done.status = "OK" /\ done.data = DataOf(q.texts, q.grants)
    BY <1>5, <1>7 DEF Unread
  <2>2. r.path = path /\ r.status = "OK" /\ r.texts = texts /\ r.grants = gs
    BY <1>2 DEF Reader
  <2>3. q = IF path = GrantPath(s) THEN AfterGrant(s, r)
            ELSE Reader(Front(path), texts, gs, "OK")
    BY <2>2 DEF AfterUnit
  <2>4. AfterGrant(s, r) = Failed(r)
        \/ \E g : AfterGrant(s, r) = Reader(Front(path), Cleared(texts), Append(gs, g), "OK")
    BY <2>2 DEF AfterGrant
  <2>5. AfterGrant(s, r) = q => AfterGrant(s, r) # Failed(r)
    BY <1>7 DEF Failed, Reader
  <2>6. PICK new, taken : q = Reader(Front(path), new, taken, "OK") /\ (new = texts \/ new = Cleared(texts))
    BY <2>3, <2>4, <2>5
  <2>7. IsTexts(Cleared(texts))
    <3>1. PICK none : none = Cleared(texts)
      OBVIOUS
    <3>2. \A p \in Places : none[p] = IF p \in Fields THEN <<>> ELSE texts[p]
      BY <3>1 DEF Cleared
    <3>3. <<>> \in Seq(Signs) /\ Len(<<>>) = 0
      OBVIOUS
    <3>4. none \in [Places -> Seq(Signs)]
      BY <1>2, <3>1, <3>3 DEF Cleared, IsTexts
    <3>5. \A p \in Places : Len(none[p]) <= Longest(p)
      BY <1>2, <3>2, <3>3, LongestIs DEF IsTexts
    <3> QED
      BY <3>1, <3>4, <3>5 DEF IsTexts
  <2>8. q.texts = new /\ q.grants = taken
    BY <2>6 DEF Reader
  <2>9. IsAt(q, Front(path), DataOf(q.texts, q.grants))
    BY <1>2, <2>6, <2>7, <2>8 DEF IsAt
  <2> QED
    BY <1>3, <2>1, <2>9 DEF Follows
<1> QED
  BY <1>6, <1>7

LEMMA TextFollows ==
  ASSUME NEW s \in {"acl", "logging"}, NEW r, NEW path, NEW d, IsAt(r, path, d),
         NEW str \in Seq(Signs)
  PROVE  \E q : Leads(s, r, Text(str), q) /\ Follows(q, path, convertXmlText(s, d, path, str))
<1>1. PICK texts, gs : texts = r.texts /\ gs = r.grants
  OBVIOUS
<1>2. r = Reader(path, texts, gs, "OK") /\ IsTexts(texts) /\ d = DataOf(texts, gs)
  BY <1>1 DEF IsAt
<1>3. PICK done : done = convertXmlText(s, d, path, str)
  OBVIOUS
<1>4. CASE \A place \in Places : path # PlacePath(s, place)
  <2>1. Leads(s, r, Text(str), r)
    BY <1>2, <1>4, TextIgnored
  <2>2. done = Unread(d)
    BY <1>3, <1>4, NowhereFound
  <2>3. done.status = "OK" /\ done.data = d
    BY <2>2 DEF Unread
  <2>4. Follows(r, path, done)
    BY <2>3 DEF Follows
  <2> QED
    BY <1>3, <2>1, <2>4
<1>5. ASSUME NEW place \in Places, path = PlacePath(s, place)
      PROVE  \E q : Leads(s, r, Text(str), q) /\ Follows(q, path, done)
  <2>1. texts \in [Places -> Seq(Signs)] /\ Len(texts[place]) <= Longest(place)
    BY <1>2 DEF IsTexts
  <2>2. PICK q : q = ReaderBehind(path, texts, gs, place, str, Len(str))
    OBVIOUS
  <2>3. Leads(s, r, Text(str), q)
    BY <1>2, <1>5, <2>1, <2>2, TextLeads
  <2>4. IF Len(texts[place]) + Len(str) <= Longest(place)
        THEN q = Reader(path, TextAdded(texts, place, str), gs, "OK")
        ELSE q.status = "failed"
    BY <2>1, <2>2, BehindAll
  <2>5. TextIsKept(s, texts, gs, place, str)
    <3>1. CASE place \in Fields
      BY <2>1, <3>1, FieldConverted
    <3>2. CASE place \notin Fields
      <4>1. PICK n \in 1 .. 2 : place = HeadPlace(n)
        BY <3>2, PathsOfPlaces
      <4> QED
        BY <2>1, <4>1, HeadConverted
    <3> QED
      BY <3>1, <3>2
  <2>6. IF Len(texts[place]) + Len(str) <= Longest(place)
        THEN done = Unread(DataOf(TextAdded(texts, place, str), gs))
        ELSE done.status # "OK"
    BY <1>2, <1>3, <1>5, <2>5 DEF TextIsKept
  <2>7. CASE Len(texts[place]) + Len(str) <= Longest(place)
    <3>1. PICK more : more = TextAdded(texts, place, str)
      OBVIOUS
    <3>2. q = Reader(path, more, gs, "OK") /\ done = Unread(DataOf(more, gs))
      BY <2>4, <2>6, <2>7, <3>1
    <3>3. q.texts = more /\ q.grants = gs
      BY <3>2 DEF Reader
    <3>4. done.status = "OK" /\ done.data = DataOf(more, gs)
      BY <3>2 DEF Unread
    <3>5. IsTexts(more)
      <4>1. more \in [Places -> Seq(Signs)] /\ Len(more[place]) = Len(texts[place]) + Len(str)
        BY <2>1, <3>1, AddedTyped
      <4>2. \A p \in Places : p # place => more[p] = texts[p]
        BY <3>1 DEF TextAdded
      <4>3. \A p \in Places : Len(texts[p]) <= Longest(p)
        BY <1>2 DEF IsTexts
      <4>4. \A p \in Places : Len(more[p]) <= Longest(p)
        BY <2>7, <4>1, <4>2, <4>3
      <4> QED
        BY <4>1, <4>4 DEF IsTexts
    <3>6. IsAt(q, path, done.data)
      BY <3>2, <3>3, <3>4, <3>5 DEF IsAt
    <3>7. Follows(q, path, done)
      BY <3>4, <3>6 DEF Follows
    <3> QED
      BY <2>3, <3>7
  <2>8. CASE ~(Len(texts[place]) + Len(str) <= Longest(place))
    <3>1. q.status # "OK" /\ done.status # "OK"
      BY <2>4, <2>6, <2>8
    <3>2. Follows(q, path, done)
      BY <3>1 DEF Follows
    <3> QED
      BY <2>3, <3>2
  <2> QED
    BY <2>7, <2>8
<1> QED
  BY <1>3, <1>4, <1>5

-----------------------------------------------------------------------------
(* The parser keeps up with the reader: the inductive invariant            *)

\* The document has been got: what follows is about it.
DocumentGot == pc = "parse" \/ (pc = "done" /\ status = "OK")

\* Parsing starts with nothing read.
NothingRead ==
  pc \in {"set", "get"} =>
    status = "OK" /\ position = 0 /\ elementPath = <<>> /\ data = convert_initialize

\* A document by libs3 that is got has passed S3_set_acl's checks.
WasSent ==
  writer = "libs3" /\ (pc = "get" \/ DocumentGot) =>
    Len(grants) <= S3_MAX_ACL_GRANT_COUNT /\ Len(Whole) < DocumentSize - 1

\* What the transfer has brought is a beginning of the whole document.
IsBeginning ==
  DocumentGot =>
    /\ Len(Whole) <= DocumentSize
    /\ \E k \in 0 .. Len(Whole) : document = SubSeq(Whole, 1, k)
    /\ position \in 0 .. Len(document)

\* The parser is where the reader is, and has failed only if the reader has.
FollowsReader ==
  DocumentGot =>
    \A f : ReadingOfWhole(f) =>
      /\ status = "OK" => IsAt(f[position], elementPath, data)
      /\ status # "OK" => f[position].status # "OK"

\* The inductive invariant.
ReaderInv ==
  /\ GivenGrants
  /\ subject # "error" =>
       /\ pc \in {"set", "get", "parse", "done"}
       /\ NothingRead
       /\ WasSent
       /\ IsBeginning
       /\ FollowsReader
       /\ status # "OK" => ~Readable

LEMMA ReaderInvInit == Init => ReaderInv
<1> SUFFICES ASSUME Init PROVE ReaderInv
  OBVIOUS
<1>1. GivenGrants
  BY GivenGrantsInit
<1>2. ASSUME subject # "error" PROVE pc \in {"set", "get"} /\ status = "OK" /\ position = 0
                                     /\ elementPath = <<>> /\ data = convert_initialize
                                     /\ (writer = "libs3" => pc = "set")
  BY <1>2 DEF Init
<1> QED
  BY <1>1, <1>2 DEF ReaderInv, NothingRead, WasSent, IsBeginning, FollowsReader, DocumentGot

LEMMA SameDocument ==
  ASSUME UNCHANGED given
  PROVE  /\ Whole' = Whole /\ (Readable' <=> Readable) /\ (Fits' <=> Fits)
         /\ \A f : ReadingOfWhole(f)' <=> ReadingOfWhole(f)
<1>1. /\ subject' = subject /\ writer' = writer /\ heads' = heads /\ grants' = grants
  BY DEF given
<1>2. Whole' = Whole
  BY <1>1 DEF Whole
<1>3. LoggingOff' <=> LoggingOff
  BY <1>1 DEF LoggingOff
<1>4. Said' = Said
  BY <1>1, <1>3 DEF Said
<1>5. Fits' <=> Fits
  BY <1>1, <1>2 DEF Fits
<1>6. ASSUME NEW g PROVE CanBeRead(g)' <=> CanBeRead(g)
  BY <1>1 DEF CanBeRead
<1>7. (\A i \in DOMAIN Said : CanBeRead(Said[i]))' <=> \A i \in DOMAIN Said : CanBeRead(Said[i])
  BY <1>1, <1>4 DEF CanBeRead
<1>8. Readable' <=> Readable
  BY <1>1, <1>3, <1>4, <1>5, <1>7 DEF Readable
<1> QED
  BY <1>1, <1>2, <1>5, <1>8 DEF ReadingOfWhole

LEMMA TooManyReads == ReaderInv /\ SetTooMany => ReaderInv'
<1> SUFFICES ASSUME ReaderInv, SetTooMany PROVE ReaderInv'
  OBVIOUS
<1>1. GivenGrants'
  BY GivenGrantsStep DEF ReaderInv, Next
<1>2. UNCHANGED given /\ status' = "TooManyGrants" /\ pc' = "done" /\ pc = "set"
      /\ Len(grants) > S3_MAX_ACL_GRANT_COUNT
  BY DEF SetTooMany, Report
<1>3. subject # "error" /\ writer = "libs3" /\ grants \in Seq(GrantRecords)
  BY <1>2 DEF ReaderInv, GivenGrants, Given
<1>4. ~Readable
  <2>1. Len(grants) \in Nat /\ S3_MAX_ACL_GRANT_COUNT \in Nat
    BY <1>3, AccessControlAssumption
  <2> QED
    BY <1>2, <1>3, <2>1 DEF Readable
<1>5. ~Readable'
  BY <1>2, <1>4, SameDocument
<1> QED
  BY <1>1, <1>2, <1>5
     DEF ReaderInv, NothingRead, WasSent, IsBeginning, FollowsReader, DocumentGot

LEMMA SetReads == ReaderInv /\ Set => ReaderInv'
<1> SUFFICES ASSUME ReaderInv, Set PROVE ReaderInv'
  OBVIOUS
<1>1. GivenGrants'
  BY GivenGrantsStep DEF ReaderInv, Next
<1>2. UNCHANGED <<given, position, elementPath, data>> /\ pc = "set"
      /\ Len(grants) <= S3_MAX_ACL_GRANT_COUNT
  BY DEF Set
<1>3. Given /\ subject # "error" /\ writer = "libs3"
  BY <1>2 DEF ReaderInv, GivenGrants, Given
<1>4. NothingRead
  BY <1>3 DEF ReaderInv
<1>5. (status' = "OK" <=> Len(Whole) < DocumentSize - 1)
  BY <1>2, <1>3, SetStep
<1>6. (status' = "OK" /\ pc' = "get") \/ (status' # "OK" /\ pc' = "done")
  BY DEF Set, Report
<1>7. Whole' = Whole /\ (Readable' <=> Readable) /\ grants' = grants
  BY <1>2, SameDocument DEF given
<1>8. status' # "OK" => ~Readable'
  BY <1>3, <1>5, <1>7 DEF Readable, Fits
<1>9. NothingRead'
  BY <1>2, <1>4, <1>6 DEF NothingRead
<1>10. WasSent'
  BY <1>2, <1>5, <1>6, <1>7 DEF WasSent, DocumentGot
<1> QED
  BY <1>1, <1>6, <1>8, <1>9, <1>10
     DEF ReaderInv, IsBeginning, FollowsReader, DocumentGot

LEMMA GetReads == ReaderInv /\ subject # "error" /\ Get => ReaderInv'
<1> SUFFICES ASSUME ReaderInv, subject # "error", Get PROVE ReaderInv'
  OBVIOUS
<1>1. GivenGrants' /\ GivenGrants
  BY GivenGrantsStep DEF ReaderInv, Next
<1>2. UNCHANGED <<given, position, elementPath, data>> /\ pc = "get"
      /\ document' = string_buffer_append(Empty, DocumentSize, Whole).text
      /\ (IF Len(Whole) > DocumentSize THEN Report("XmlDocumentTooLarge")
          ELSE pc' = "parse" /\ UNCHANGED status)
  BY DEF Get
<1>3. status = "OK" /\ position = 0 /\ elementPath = <<>> /\ data = convert_initialize
  BY <1>2 DEF ReaderInv, NothingRead
<1>4. Whole' = Whole /\ (Readable' <=> Readable) /\ grants' = grants /\ writer' = writer
      /\ \A f : ReadingOfWhole(f)' <=> ReadingOfWhole(f)
  BY <1>2, SameDocument DEF given
<1>5. PICK len \in Nat, size \in Nat \ {0} : len = Len(Whole) /\ size = DocumentSize
  BY <1>1, WholeRead, AccessControlAssumption
<1>6. CASE len > size
  <2>1. pc' = "done" /\ status' = "XmlDocumentTooLarge"
    BY <1>2, <1>5, <1>6 DEF Report
  <2>2. ~Fits
    BY <1>5, <1>6 DEF Fits
  <2>3. ~Readable'
    BY <1>4, <2>2 DEF Readable
  <2> QED
    BY <1>1, <2>1, <2>3 DEF ReaderInv, NothingRead, WasSent, IsBeginning, FollowsReader, DocumentGot
<1>7. CASE ~(len > size)
  <2>1. pc' = "parse" /\ status' = "OK"
    BY <1>2, <1>3, <1>5, <1>7
  <2>2. NothingRead'
    BY <2>1 DEF NothingRead
  <2>3. WasSent'
    BY <1>2, <1>4, <2>1 DEF ReaderInv, WasSent, DocumentGot
  <2>4. PICK units : units = Whole
    OBVIOUS
  <2>5. units \in Seq(Units)
    BY <1>1, <2>4, WholeRead
  <2>6. PICK k \in Nat : k = Shorter(size - 1, len) /\ k <= len
    BY <1>5 DEF Shorter
  <2>7. document' = SubSeq(<<>>, 1, 0) \o SubSeq(units, 1, k)
    <3>1. size - 0 = size /\ size # 0
      BY <1>5
    <3>2. Empty.text = <<>> /\ Empty.len = 0
      BY DEF Empty
    <3> QED
      BY <1>2, <1>5, <2>4, <2>6, <3>1, <3>2 DEF string_buffer_append, Snprintf
  <2>8. SubSeq(<<>>, 1, 0) = <<>>
    <3>1. <<>> \in Seq(Units) /\ Len(<<>>) = 0
      OBVIOUS
    <3> QED
      BY <3>1, SubSeqFull
  <2>9. PICK part : part = SubSeq(units, 1, k)
    OBVIOUS
  <2>10. part \in Seq(Units) /\ Len(part) = k
    BY <1>5, <2>4, <2>5, <2>6, <2>9, Beginning
  <2>11. document' = part
    BY <2>7, <2>8, <2>9, <2>10, ConcatEmptySeq
  <2>12. IsBeginning'
    BY <1>2, <1>3, <1>4, <1>5, <1>7, <2>4, <2>6, <2>9, <2>10, <2>11 DEF IsBeginning
  <2>13. FollowsReader'
    <3>1. ASSUME NEW f, ReadingOfWhole(f) PROVE IsAt(f[0], <<>>, convert_initialize)
      <4>1. f[0] = Fresh
        BY <3>1 DEF ReadingOfWhole, Reading
      <4>2. Fresh.texts = NoTexts /\ Fresh.grants = <<>> /\ Fresh = Reader(<<>>, NoTexts, <<>>, "OK")
        BY DEF Fresh, Reader
      <4>3. IsTexts(NoTexts)
        <5>1. <<>> \in Seq(Signs) /\ Len(<<>>) = 0
          OBVIOUS
        <5>2. \A p \in Places : NoTexts[p] = <<>>
          BY DEF NoTexts
        <5>3. \A p \in Places : Len(NoTexts[p]) <= Longest(p)
          BY <5>1, <5>2, LongestIs
        <5>4. NoTexts \in [Places -> Seq(Signs)]
          BY <5>1, TextsTyped
        <5> QED
          BY <5>3, <5>4 DEF IsTexts
      <4> QED
        BY <4>1, <4>2, <4>3, FirstData DEF IsAt
    <3> QED
      BY <1>2, <1>3, <1>4, <2>1, <3>1 DEF FollowsReader
  <2> QED
    BY <1>1, <2>1, <2>2, <2>3, <2>12, <2>13 DEF ReaderInv
<1> QED
  BY <1>6, <1>7

-----------------------------------------------------------------------------
(* Each way of going on in a document                                      *)

\* n units more have been given to libxml2, and the parser does what the reader does.
GoesOn(n) ==
  /\ n \in Nat /\ position + n <= Len(document) /\ position' = position + n
  /\ UNCHANGED <<given, pc, document>>
  /\ \A f : ReadingOfWhole(f) =>
       /\ status' = "OK" => IsAt(f[position + n], elementPath', data')
       /\ status' # "OK" => f[position + n].status # "OK"

ParsingDocument == subject # "error" /\ pc = "parse" /\ status = "OK"

LEMMA DocumentIs ==
  ASSUME ReaderInv, ParsingDocument
  PROVE  /\ document \in Seq(Units) /\ Whole \in Seq(Units) /\ Len(document) <= Len(Whole)
         /\ \A i \in 1 .. Len(document) : document[i] = Whole[i]
         /\ position \in Nat /\ position <= Len(document) /\ Len(document) \in Nat
         /\ subject \in {"acl", "logging"} /\ GivenGrants
<1>1. GivenGrants /\ IsBeginning /\ DocumentGot
  BY DEF ParsingDocument, ReaderInv, DocumentGot
<1>2. PICK units \in Seq(Units) : units = Whole
  BY <1>1, WholeRead DEF ParsingDocument
<1>3. PICK k \in 0 .. Len(units) : document = SubSeq(units, 1, k)
  BY <1>1, <1>2 DEF IsBeginning
<1>4. k \in Nat /\ k <= Len(units)
  OBVIOUS
<1>5. document \in Seq(Units) /\ Len(document) = k /\ \A i \in 1 .. k : document[i] = units[i]
  BY <1>3, <1>4, Beginning
<1>6. position \in 0 .. Len(document)
  BY <1>1 DEF IsBeginning
<1>7. subject \in {"acl", "logging"}
  BY <1>1 DEF GivenGrants, Given, ParsingDocument
<1> QED
  BY <1>1, <1>2, <1>4, <1>5, <1>6, <1>7

LEMMA GoesOnReads ==
  ASSUME ReaderInv, ParsingDocument, GivenGrants', NEW n, GoesOn(n)
  PROVE  ReaderInv'
<1>1. /\ Whole' = Whole /\ (Readable' <=> Readable)
      /\ (\A f : ReadingOfWhole(f)' <=> ReadingOfWhole(f))
  BY SameDocument DEF GoesOn
<1>2. /\ UNCHANGED <<pc, document, subject, writer, grants>>
      /\ n \in Nat /\ position + n <= Len(document) /\ position' = position + n
  BY DEF GoesOn, given
<1>3. pc = "parse" /\ DocumentGot /\ subject # "error" /\ status = "OK"
  BY DEF ParsingDocument, DocumentGot
<1>4. NothingRead'
  BY <1>2, <1>3 DEF NothingRead
<1>5. WasSent'
  BY <1>1, <1>2, <1>3 DEF ReaderInv, WasSent, DocumentGot
<1>6. position \in Nat /\ Len(document) \in Nat
  BY DocumentIs
<1>7. IsBeginning'
  BY <1>1, <1>2, <1>3, <1>6 DEF ReaderInv, IsBeginning, DocumentGot
<1>8. FollowsReader'
  BY <1>1, <1>2 DEF GoesOn, FollowsReader
<1>9. status' # "OK" => ~Readable'
  <2>1. SUFFICES ASSUME status' # "OK" PROVE ~Readable
    BY <1>1
  <2>2. GivenGrants
    BY DocumentIs
  <2>3. PICK f : ReadingOfWhole(f)
    <3>1. \E q : Leads(subject, Fresh, Whole, q)
      BY <1>3, <2>2, WholeRead DEF ReadsTo
    <3> QED
      BY <3>1 DEF Leads, ReadingOfWhole
  <2>4. f[position + n].status # "OK"
    BY <2>1, <2>3 DEF GoesOn
  <2>5. position + n \in 0 .. Len(Whole)
    <3>1. Len(document) <= Len(Whole) /\ Len(Whole) \in Nat
      BY DocumentIs
    <3> QED
      BY <1>2, <1>6, <3>1
  <2>6. ~WholeGood
    BY <1>3, <2>2, <2>3, <2>4, <2>5, ReaderOnTheWay
  <2> QED
    BY <1>3, <2>2, <2>6, AsReadIs
<1> QED
  BY <1>2, <1>3, <1>4, <1>5, <1>7, <1>8, <1>9 DEF ReaderInv

\* The reader behind the next unit.
LEMMA NextUnit ==
  ASSUME ReaderInv, ParsingDocument, position < Len(document), NEW f, ReadingOfWhole(f)
  PROVE  /\ f[position + 1] = AfterUnit(subject, f[position], document[position + 1])
         /\ IsAt(f[position], elementPath, data)
<1>1. PICK i : i = position + 1
  OBVIOUS
<1>2. i \in 1 .. Len(document) /\ i \in 1 .. Len(Whole) /\ i - 1 = position
  BY <1>1, DocumentIs
<1>3. document[i] = Whole[i]
  BY <1>2, DocumentIs
<1>4. f[i] = AfterUnit(subject, f[i - 1], Whole[i])
  BY <1>2 DEF ReadingOfWhole, Reading
<1>5. IsAt(f[position], elementPath, data)
  BY DEF ReaderInv, FollowsReader, DocumentGot, ParsingDocument
<1> QED
  BY <1>1, <1>2, <1>3, <1>4, <1>5

LEMMA StartGoesOn ==
  ASSUME ReaderInv, ParsingDocument, NextIs("start"), saxStartElement(document[position + 1].what),
         position' = position + 1
  PROVE  GoesOn(1)
<1>1. position < Len(document) /\ document[position + 1].tag = "start"
  BY DEF NextIs
<1>2. PICK unit : unit = document[position + 1]
  OBVIOUS
<1>3. UNCHANGED <<given, pc, document>> /\ data' = data
      /\ (IF TooDeep(elementPath) THEN status' = "XmlParseFailure"
          ELSE elementPath' = Append(elementPath, unit.what) /\ status' = status)
  BY <1>2 DEF saxStartElement, PathLength, TooDeep
<1>4. ASSUME NEW f, ReadingOfWhole(f)
      PROVE  /\ status' = "OK" => IsAt(f[position + 1], elementPath', data')
             /\ status' # "OK" => f[position + 1].status # "OK"
  <2>1. PICK r, q : r = f[position] /\ q = f[position + 1]
    OBVIOUS
  <2>2. q = AfterUnit(subject, r, unit) /\ IsAt(r, elementPath, data)
    BY <1>1, <1>2, <1>4, <2>1, NextUnit
  <2>3. unit.tag = "start"
    BY <1>1, <1>2
  <2>4. IF TooDeep(elementPath) THEN q.status # "OK" ELSE IsAt(q, Append(elementPath, unit.what), data)
    BY <2>2, <2>3, StartFollows
  <2>5. status = "OK"
    BY DEF ParsingDocument
  <2> QED
    BY <1>3, <2>1, <2>4, <2>5
<1>5. position + 1 <= Len(document)
  BY <1>1, DocumentIs
<1> QED
  BY <1>3, <1>4, <1>5 DEF GoesOn

LEMMA EndGoesOn ==
  ASSUME ReaderInv, ParsingDocument, NextIs("end"), saxEndElement, position' = position + 1
  PROVE  GoesOn(1)
<1>1. position < Len(document) /\ document[position + 1].tag = "end"
  BY DEF NextIs
<1>2. PICK unit : unit = document[position + 1]
  OBVIOUS
<1>3. PICK done : done = convertXmlEnd(subject, data, elementPath)
  OBVIOUS
<1>4. UNCHANGED <<given, pc, document>> /\ status' = done.status /\ data' = done.data
      /\ elementPath' = Front(elementPath)
  BY <1>3 DEF saxEndElement, ParsingDocument
<1>5. ASSUME NEW f, ReadingOfWhole(f)
      PROVE  /\ status' = "OK" => IsAt(f[position + 1], elementPath', data')
             /\ status' # "OK" => f[position + 1].status # "OK"
  <2>1. PICK r, q : r = f[position] /\ q = f[position + 1]
    OBVIOUS
  <2>2. q = AfterUnit(subject, r, unit) /\ IsAt(r, elementPath, data)
    BY <1>1, <1>2, <1>5, <2>1, NextUnit
  <2>3. unit.tag = "end" /\ subject \in {"acl", "logging"}
    BY <1>1, <1>2, DocumentIs
  <2>4. Follows(q, Front(elementPath), done)
    BY <1>3, <2>2, <2>3, EndFollows
  <2> QED
    BY <1>4, <2>1, <2>4 DEF Follows
<1>6. position + 1 <= Len(document)
  BY <1>1, DocumentIs
<1> QED
  BY <1>4, <1>5, <1>6 DEF GoesOn

LEMMA PieceIs ==
  ASSUME ReaderInv, ParsingDocument, NEW n \in Nat \ {0}, position + n <= Len(document)
  PROVE  DOMAIN Piece(n) = 1 .. n /\ \A i \in 1 .. n : Piece(n)[i] = document[position + i]
<1>1. PICK units \in Seq(Units), m \in Nat : units = document /\ m = position
  BY DocumentIs
<1>2. PICK part : part = SubSeq(units, m + 1, m + n)
  OBVIOUS
<1>3. m + 1 \in 1 .. Len(units) + 1 /\ m + n \in m + 1 - 1 .. Len(units)
  BY <1>1
<1>4. Len(part) = n /\ part \in Seq(Units) /\ \A i \in 1 .. n : part[i] = units[m + i]
  <2>1. /\ part \in Seq(Units)
        /\ Len(part) = (m + n) - (m + 1) + 1
        /\ \A i \in 1 .. (m + n) - (m + 1) + 1 : part[i] = units[(m + 1) + i - 1]
    BY <1>1, <1>2, <1>3, SubSeqProperties
  <2>2. (m + n) - (m + 1) + 1 = n /\ \A i \in 1 .. n : (m + 1) + i - 1 = m + i
    OBVIOUS
  <2> QED
    BY <2>1, <2>2
<1>5. Piece(n) = part
  BY <1>1, <1>2 DEF Piece
<1> QED
  BY <1>1, <1>4, <1>5

LEMMA TextGoesOn ==
  ASSUME ReaderInv, ParsingDocument, NEW n \in PieceLengths, position + n <= Len(document),
         \A i \in DOMAIN Piece(n) : Piece(n)[i].tag = "char",
         saxCharacters([i \in 1 .. n |-> Piece(n)[i].what]), position' = position + n
  PROVE  GoesOn(n)
<1>1. n \in Nat \ {0} /\ n \in Nat
  BY DocumentsAssumption
<1>2. DOMAIN Piece(n) = 1 .. n /\ \A i \in 1 .. n : Piece(n)[i] = document[position + i]
  BY <1>1, PieceIs
<1>3. PICK str : str = [i \in 1 .. n |-> Piece(n)[i].what]
  OBVIOUS
<1>4. /\ document \in Seq(Units) /\ Whole \in Seq(Units) /\ Len(document) <= Len(Whole)
      /\ \A i \in 1 .. Len(document) : document[i] = Whole[i]
      /\ position \in Nat /\ Len(document) \in Nat /\ Len(Whole) \in Nat
      /\ subject \in {"acl", "logging"}
  BY DocumentIs
<1>5. \A i \in 1 .. n : position + i \in 1 .. Len(document)
  BY <1>1, <1>4
<1>6. \A i \in 1 .. n : document[position + i] \in Units /\ document[position + i].tag = "char"
  BY <1>2, <1>4, <1>5
<1>7. /\ \A i \in 1 .. n : str[i] \in Signs
      /\ \A i \in 1 .. n : document[position + i] = [tag |-> "char", what |-> str[i]]
  <2>1. ASSUME NEW i \in 1 .. n
        PROVE  str[i] \in Signs /\ document[position + i] = [tag |-> "char", what |-> str[i]]
    <3>1. PICK unit : unit = document[position + i]
      OBVIOUS
    <3>2. unit \in [tag : {"start", "end", "char"}, what : Signs] /\ unit.tag = "char"
      BY <1>6, <3>1 DEF Units
    <3>3. str[i] = unit.what
      BY <1>2, <1>3, <3>1
    <3>4. unit = [tag |-> "char", what |-> unit.what] /\ unit.what \in Signs
      BY <3>2
    <3> QED
      BY <3>1, <3>3, <3>4
  <2> QED
    BY <2>1
<1>8. str \in Seq(Signs) /\ Len(str) = n
  <2>1. \A i \in 1 .. n : str[i] \in Signs
    BY <1>7
  <2> QED
    BY <1>1, <1>3, <2>1
<1>9. PICK part : part = Text(str)
  OBVIOUS
<1>10. part \in Seq(Units) /\ Len(part) = n /\ \A i \in 1 .. n : part[i] = [tag |-> "char", what |-> str[i]]
  BY <1>8, <1>9, TextTyped
<1>11. IsPart(part, Whole, position, n)
  <2>1. \A i \in 1 .. n : part[i] = Whole[position + i]
    BY <1>4, <1>5, <1>7, <1>10
  <2> QED
    BY <1>1, <1>4, <1>10, <2>1 DEF IsPart
<1>12. PICK done : done = convertXmlText(subject, data, elementPath, str)
  OBVIOUS
<1>13. UNCHANGED <<given, pc, document, elementPath>> /\ status' = done.status /\ data' = done.data
  BY <1>3, <1>12 DEF saxCharacters, ParsingDocument
<1>14. ASSUME NEW f, ReadingOfWhole(f)
       PROVE  /\ status' = "OK" => IsAt(f[position + n], elementPath', data')
              /\ status' # "OK" => f[position + n].status # "OK"
  <2>1. PICK r : r = f[position]
    OBVIOUS
  <2>2. IsAt(r, elementPath, data)
    BY <1>14, <2>1 DEF ReaderInv, FollowsReader, DocumentGot, ParsingDocument
  <2>3. PICK q : Leads(subject, r, part, q) /\ Follows(q, elementPath, done)
    BY <1>4, <1>8, <1>9, <1>12, <2>2, TextFollows
  <2>4. f[position + n] = q
    <3>1. IsBehind(f, position, 0, r)
      <4>1. position + 0 = position
        BY <1>4
      <4> QED
        BY <2>1, <4>1 DEF IsBehind
    <3>2. Reading(subject, Fresh, Whole, f)
      BY <1>14 DEF ReadingOfWhole
    <3>3. IsBehind(f, position, n, q)
      BY <1>11, <2>3, <3>1, <3>2, ReadingPart
    <3> QED
      BY <3>3 DEF IsBehind
  <2> QED
    BY <1>13, <2>3, <2>4 DEF Follows
<1> QED
  BY <1>1, <1>13, <1>14 DEF GoesOn

LEMMA ParseReads == ReaderInv /\ ParseDocument => ReaderInv'
<1> SUFFICES ASSUME ReaderInv, ParseDocument PROVE ReaderInv'
  OBVIOUS
<1>1. GivenGrants'
  BY GivenGrantsStep DEF ReaderInv, Next
<1>2. subject # "error"
  BY DEF ParseDocument
<1>3. ASSUME NEW n, GoesOn(n), ParsingDocument PROVE ReaderInv'
  BY <1>1, <1>3, GoesOnReads
<1>4. CASE NextIs("start") /\ saxStartElement(document[position + 1].what) /\ position' = position + 1
  <2>1. ParsingDocument
    BY <1>2, <1>4 DEF ParsingDocument, saxStartElement, Parsing
  <2> QED
    BY <1>3, <1>4, <2>1, StartGoesOn
<1>5. CASE NextIs("end") /\ saxEndElement /\ position' = position + 1
  <2>1. ParsingDocument
    BY <1>2, <1>5 DEF ParsingDocument, saxEndElement, Parsing
  <2> QED
    BY <1>3, <1>5, <2>1, EndGoesOn
<1>6. ASSUME NEW n \in PieceLengths, position + n <= Len(document),
             \A i \in DOMAIN Piece(n) : Piece(n)[i].tag = "char",
             saxCharacters([i \in 1 .. n |-> Piece(n)[i].what]), position' = position + n
      PROVE  ReaderInv'
  <2>1. ParsingDocument
    BY <1>2, <1>6 DEF ParsingDocument, saxCharacters, Parsing
  <2> QED
    BY <1>3, <1>6, <2>1, TextGoesOn
<1> QED
  BY <1>4, <1>5, <1>6 DEF ParseDocument

LEMMA ReaderInvStep == ReaderInv /\ [Next]_vars => ReaderInv'
<1> SUFFICES ASSUME ReaderInv, [Next]_vars PROVE ReaderInv'
  OBVIOUS
<1>1. GivenGrants'
  BY GivenGrantsStep DEF ReaderInv
<1>2. ASSUME subject # "error", UNCHANGED <<given, status, document, position, elementPath, data>>,
             pc' = pc \/ (pc = "parse" /\ pc' = "done")
      PROVE  ReaderInv'
  <2>1. Whole' = Whole /\ (Readable' <=> Readable) /\ (\A f : ReadingOfWhole(f)' <=> ReadingOfWhole(f))
    BY <1>2, SameDocument
  <2>2. UNCHANGED <<subject, writer, heads, grants, status, document, position, elementPath, data>>
    BY <1>2 DEF given
  <2>3. DocumentGot' => DocumentGot
    BY <1>2, <2>2 DEF DocumentGot
  <2>4. /\ pc \in {"set", "get", "parse", "done"} /\ NothingRead /\ WasSent /\ IsBeginning /\ FollowsReader
        /\ status # "OK" => ~Readable
    BY <1>2 DEF ReaderInv
  <2>5. NothingRead'
    BY <1>2, <2>2, <2>4 DEF NothingRead
  <2>6. WasSent'
    BY <1>2, <2>1, <2>2, <2>3, <2>4 DEF WasSent
  <2>7. IsBeginning'
    BY <2>1, <2>2, <2>3, <2>4 DEF IsBeginning
  <2>8. FollowsReader'
    BY <2>1, <2>2, <2>3, <2>4 DEF FollowsReader
  <2> QED
    BY <1>1, <1>2, <2>1, <2>2, <2>4, <2>5, <2>6, <2>7, <2>8 DEF ReaderInv
<1>3. ASSUME subject = "error" PROVE ReaderInv'
  <2>1. subject' = subject
    BY <1>3 DEF Next, vars, SetTooMany, Set, Get, ParseDocument, ParseError, DataEnds, Finished, given,
                saxStartElement, saxEndElement, saxCharacters
  <2> QED
    BY <1>1, <1>3, <2>1 DEF ReaderInv
<1>4. CASE SetTooMany
  BY <1>4, TooManyReads
<1>5. CASE Set
  BY <1>5, SetReads
<1>6. CASE Get
  BY <1>3, <1>6, GetReads
<1>7. CASE ParseDocument
  BY <1>7, ParseReads
<1>8. CASE ParseError
  BY <1>3, <1>8 DEF ParseError
<1>9. CASE DataEnds
  BY <1>2, <1>3, <1>9 DEF DataEnds
<1>10. CASE Finished
  BY <1>2, <1>3, <1>10 DEF Finished, vars, given
<1>11. CASE UNCHANGED vars
  BY <1>2, <1>3, <1>11 DEF vars, given
<1> QED
  BY <1>4, <1>5, <1>6, <1>7, <1>8, <1>9, <1>10, <1>11 DEF Next

LEMMA ReaderInvImplies == ReaderInv => GrantsReadBack
<1> SUFFICES ASSUME ReaderInv, subject # "error", pc = "done"
             PROVE  IF status # "OK" THEN ~Readable
                    ELSE /\ IsPrefix(data.grants, AsRead)
                         /\ position = Len(Whole) =>
                              /\ Readable
                              /\ data.grants = AsRead
                              /\ \A n \in 1 .. 2 : data.heads[n].text = HeadsRead[n]
  BY DEF GrantsReadBack
<1>1. status # "OK" => ~Readable
  BY DEF ReaderInv
<1>2. ASSUME status = "OK"
      PROVE  /\ IsPrefix(data.grants, AsRead)
             /\ position = Len(Whole) =>
                  /\ Readable
                  /\ data.grants = AsRead
                  /\ \A n \in 1 .. 2 : data.heads[n].text = HeadsRead[n]
  <2>1. GivenGrants /\ DocumentGot /\ IsBeginning /\ FollowsReader /\ WasSent
    BY <1>2 DEF ReaderInv, DocumentGot
  <2>2. PICK f : ReadingOfWhole(f)
    <3>1. \E q : Leads(subject, Fresh, Whole, q)
      BY <2>1, WholeRead DEF ReadsTo
    <3> QED
      BY <3>1 DEF Leads, ReadingOfWhole
  <2>3. PICK r : r = f[position]
    OBVIOUS
  <2>4. IsAt(r, elementPath, data)
    BY <1>2, <2>1, <2>2, <2>3 DEF FollowsReader
  <2>5. r.status = "OK" /\ data = DataOf(r.texts, r.grants)
    BY <2>4 DEF IsAt, Reader
  <2>6. data.grants = r.grants
    BY <2>5 DEF DataOf, ConvertData
  <2>7. position \in 0 .. Len(Whole)
    <3>1. PICK units \in Seq(Units) : units = Whole
      BY <2>1, WholeRead
    <3>2. PICK k \in 0 .. Len(units) : document = SubSeq(units, 1, k)
      BY <2>1, <3>1 DEF IsBeginning
    <3>3. k \in Nat /\ k <= Len(units)
      OBVIOUS
    <3>4. Len(document) = k
      BY <3>2, <3>3, Beginning
    <3> QED
      BY <2>1, <3>1, <3>3, <3>4 DEF IsBeginning
  <2>8. IsPrefix(data.grants, AsRead)
    BY <2>1, <2>2, <2>3, <2>6, <2>7, ReaderOnTheWay
  <2>9. ASSUME position = Len(Whole)
        PROVE  Readable /\ data.grants = AsRead /\ \A n \in 1 .. 2 : data.heads[n].text = HeadsRead[n]
    <3>1. WholeGood /\ r = WholeEnd
      BY <2>1, <2>2, <2>3, <2>5, <2>9, ReaderEnds
    <3>2. data.grants = AsRead /\ \A n \in 1 .. 2 : data.heads[n].text = HeadsRead[n]
      BY <2>1, <2>5, <3>1, WholeHeads
    <3>3. Fits
      <4>1. Len(Whole) \in Nat /\ DocumentSize \in Nat /\ Len(Whole) <= DocumentSize
        BY <2>1, WholeRead, AccessControlAssumption DEF IsBeginning
      <4>2. writer = "libs3" => Len(Whole) < DocumentSize - 1
        BY <2>1 DEF WasSent
      <4> QED
        BY <4>1, <4>2 DEF Fits
    <3>4. writer = "libs3" => Len(grants) <= S3_MAX_ACL_GRANT_COUNT
      BY <2>1 DEF WasSent
    <3>5. Readable
      BY <2>1, <3>1, <3>3, <3>4, AsReadIs
    <3> QED
      BY <3>2, <3>5
  <2> QED
    BY <2>8, <2>9
<1> QED
  BY <1>1, <1>2

\* What S3_get_acl and S3_get_server_access_logging report of a document that
\* was read to its end is what was written, cut as the buffers cut it; they
\* fail only for a document that cannot be read; and what they have of one
\* that breaks off is a beginning of it.  For any grants, texts, sizes of the
\* buffers and pieces that libxml2 makes of a text.
THEOREM GrantsAreReadBack == Spec => []GrantsReadBack
<1>1. Init => ReaderInv
  BY ReaderInvInit
<1>2. ReaderInv /\ [Next]_vars => ReaderInv'
  BY ReaderInvStep
<1>3. ReaderInv => GrantsReadBack
  BY ReaderInvImplies
<1> QED
  BY <1>1, <1>2, <1>3, PTL DEF Spec

-----------------------------------------------------------------------------
(* The reader that is run is the one of the proofs                         *)

LEMMA ReaderAfterIs ==
  ASSUME NEW n \in Nat, NEW f, f[0] = Fresh,
         \A i \in 1 .. n : f[i] = AfterUnit(subject, f[i - 1], document[i])
  PROVE  ReaderAfter(n) = f[n]
<1> DEFINE Step(g, i) == IF i = 0 THEN Fresh ELSE AfterUnit(subject, g[i - 1], document[i])
           IsAfter(g) == g = [i \in 0 .. n |-> Step(g, i)]
           after == CHOOSE g : IsAfter(g)
<1>1. \E g : IsAfter(g)
  <2>1. PICK g : g = [i \in 0 .. n |-> f[i]]
    OBVIOUS
  <2>2. \A i \in 0 .. n : g[i] = Step(g, i)
    <3>1. g[0] = Fresh
      BY <2>1
    <3>2. ASSUME NEW i \in 1 .. n PROVE g[i] = AfterUnit(subject, g[i - 1], document[i])
      <4>1. i \in 0 .. n /\ i - 1 \in 0 .. n
        OBVIOUS
      <4> QED
        BY <2>1, <4>1
    <3> QED
      BY <3>1, <3>2
  <2> HIDE DEF Step
  <2> QED
    BY <2>1, <2>2
<1>2. PICK d : d = after
  OBVIOUS
<1>3. \A i \in 0 .. n : d[i] = Step(d, i)
  <2>1. IsAfter(after)
    <3> HIDE DEF IsAfter
    <3> QED
      BY <1>1
  <2> HIDE DEF Step, after
  <2> QED
    BY <1>2, <2>1
<1>4. d[0] = f[0]
  BY <1>3
<1>5. SameSteps(d, f, n)
  <2>1. ASSUME NEW i \in 1 .. n, d[i - 1] = f[i - 1] PROVE d[i] = f[i]
    <3>1. i \in 0 .. n /\ i # 0
      OBVIOUS
    <3>2. d[i] = AfterUnit(subject, d[i - 1], document[i])
      BY <1>3, <3>1
    <3> QED
      BY <2>1, <3>2
  <2> QED
    BY <2>1 DEF SameSteps
<1>6. \A i \in 0 .. n : d[i] = f[i]
  BY <1>4, <1>5, StayTheSame
<1>7. after[n] = f[n]
  <2> HIDE DEF after
  <2> QED
    BY <1>2, <1>6
<1> QED
  BY <1>7 DEF ReaderAfter

LEMMA ReaderInvPieces == ReaderInv => PiecesMakeNoDifference
<1> SUFFICES ASSUME ReaderInv, subject # "error", pc = "parse", NEW r, r = ReaderAfter(position)
             PROVE  IF status # "OK" THEN r.status # "OK"
                    ELSE r.status = "OK" /\ r.path = elementPath /\ data = DataOf(r.texts, r.grants)
  BY DEF PiecesMakeNoDifference
<1>1. GivenGrants /\ DocumentGot /\ IsBeginning /\ FollowsReader
  BY DEF ReaderInv, DocumentGot
<1>2. PICK f : ReadingOfWhole(f)
  <2>1. \E q : Leads(subject, Fresh, Whole, q)
    BY <1>1, WholeRead DEF ReadsTo
  <2> QED
    BY <2>1 DEF Leads, ReadingOfWhole
<1>3. PICK n \in Nat : n = position /\ n <= Len(Whole) /\ \A i \in 1 .. n : document[i] = Whole[i]
  <2>1. PICK units \in Seq(Units) : units = Whole
    BY <1>1, WholeRead
  <2>2. PICK k \in 0 .. Len(units) : document = SubSeq(units, 1, k)
    BY <1>1, <2>1 DEF IsBeginning
  <2>3. k \in Nat /\ k <= Len(units)
    OBVIOUS
  <2>4. Len(document) = k /\ \A i \in 1 .. k : document[i] = units[i]
    BY <2>2, <2>3, Beginning
  <2>5. position \in 0 .. k
    BY <1>1, <2>4 DEF IsBeginning
  <2> QED
    BY <2>1, <2>3, <2>4, <2>5
<1>4. f[0] = Fresh /\ \A i \in 1 .. n : f[i] = AfterUnit(subject, f[i - 1], document[i])
  <2>1. Len(Whole) \in Nat
    BY <1>1, WholeRead
  <2>2. \A i \in 1 .. n : i \in 1 .. Len(Whole)
    BY <1>3, <2>1
  <2> QED
    BY <1>2, <1>3, <2>2 DEF ReadingOfWhole, Reading
<1>5. r = f[position]
  BY <1>3, <1>4, ReaderAfterIs
<1>6. CASE status # "OK"
  BY <1>1, <1>2, <1>5, <1>6 DEF FollowsReader
<1>7. CASE status = "OK"
  <2>1. IsAt(r, elementPath, data)
    BY <1>1, <1>2, <1>5, <1>7 DEF FollowsReader
  <2> QED
    BY <1>7, <2>1 DEF IsAt, Reader
<1> QED
  BY <1>6, <1>7

\* The parser of an ACL or a logging configuration comes to the same path,
\* buffers, grants and failures whatever pieces saxCharacters is called with.
THEOREM PiecesAreJoined == Spec => []PiecesMakeNoDifference
<1>1. Init => ReaderInv
  BY ReaderInvInit
<1>2. ReaderInv /\ [Next]_vars => ReaderInv'
  BY ReaderInvStep
<1>3. ReaderInv => PiecesMakeNoDifference
  BY ReaderInvPieces
<1> QED
  BY <1>1, <1>2, <1>3, PTL DEF Spec
=============================================================================
