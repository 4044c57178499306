-------------------------- MODULE ReadCommandsProofs --------------------------
(***************************************************************************)
(* The safety properties of ReadCommands, for listings and objects of any  *)
(* size, pages, batches and maxima of any size, and any number of retries. *)
(***************************************************************************)
EXTENDS ReadCommands, FiniteSetTheorems, SequenceTheorems, NaturalsInduction,
        WellFoundedInduction, TLAPS

-----------------------------------------------------------------------------
(* The inductive invariant                                                 *)

Answers == [rest : Seq(Nat), truncated : BOOLEAN, next : Nat, before : Nat]

TypeOK ==
  /\ command \in Commands
  /\ entries \in Seq({"item", "prefix"}) /\ maxkeys \in Nat
  /\ pc \in {"ask", "receive", "answered", "done"}
  /\ answer \in Answers
  /\ collected \in Seq(Nat) /\ printed \in Seq(Nat) /\ file \in Seq(Nat)
  /\ isTruncated \in BOOLEAN /\ nextMarker \in Nat /\ position \in Nat
  /\ late \in BOOLEAN /\ cut \in BOOLEAN

\* A `list` has no common prefixes.
OnlyItems == command = "list" => \A n \in DOMAIN entries : IsItem(n)

-----------------------------------------------------------------------------
\* What a get has received since it asked is in the file, and what comes next
\* follows it.
Arrived == position - answer.before

InFile(count) == \A i \in 1 .. count : file[answer.before + i] = i

GetInv ==
  /\ ~isTruncated /\ printed = <<>> /\ collected = <<>>
  /\ position <= Len(file)
  /\ pc = "ask" /\ ~late => position = 0
  /\ pc = "receive" =>
       /\ Arrived \in 0 .. Len(entries) /\ InFile(Arrived)
       /\ Len(answer.rest) = Len(entries) - Arrived
       /\ \A i \in DOMAIN answer.rest : answer.rest[i] = Arrived + i
       /\ ~late => answer.before = 0
  /\ pc \in {"answered", "done"} /\ statusG = "OK" /\ ~cut =>
       /\ Arrived = Len(entries) /\ InFile(Arrived)
       /\ ~late => answer.before = 0

-----------------------------------------------------------------------------
\* The entries 1 .. Len(list), each once; for a `list` in this order.
Whole(list) ==
  /\ ToSet(list) = 1 .. Len(list)
  /\ Len(list) <= Len(entries)
  /\ command = "list" => \A i \in DOMAIN list : list[i] = i

\* All that is printed once the answer has come and was passed on.
Answered == printed \o (collected \o answer.rest)

\* A callback was made since the request was sent.
CalledBack == Len(printed) > answer.before

ListInv ==
  /\ pc # "receive" => collected = <<>>
  /\ pc = "ask" => Whole(printed) /\ nextMarker = Len(printed)
  /\ pc = "receive" =>
       /\ Whole(Answered)
       /\ answer.before <= Len(printed)
       /\ answer.truncated <=> Len(Answered) < Len(entries)
       /\ Len(Answered) > answer.before \/ Len(Answered) = Len(entries)
       /\ ~CalledBack => Whole(printed) /\ nextMarker = Len(printed)
       /\ CalledBack => isTruncated = answer.truncated
       /\ command = "list" => nextMarker = Len(printed) /\ answer.next = 0
       /\ command # "list" /\ answer.truncated => answer.next = Len(Answered)
       /\ command # "list" /\ CalledBack /\ answer.truncated => nextMarker = Len(Answered)
  /\ pc = "answered" /\ statusG = "OK" /\ isTruncated => nextMarker = Len(printed)
  /\ pc \in {"answered", "done"} =>
       /\ Whole(printed)
       /\ statusG = "OK" /\ ~cut /\ Len(printed) < Len(entries) => isTruncated
  /\ pc = "done" /\ statusG = "OK" /\ maxkeys = 0 => ~isTruncated

IInv ==
  /\ TypeOK /\ OnlyItems
  /\ command = "get" => GetInv
  /\ command # "get" /\ (late => command = "list") => ListInv

-----------------------------------------------------------------------------
(* Sequences                                                               *)

\* A set of numbers in order is a sequence of these numbers, each once.
LEMMA InOrderFacts ==
  ASSUME NEW S \in SUBSET Nat, IsFiniteSet(S)
  PROVE  /\ InOrder(S) \in Seq(Nat)
         /\ Len(InOrder(S)) = Cardinality(S) /\ Cardinality(S) \in Nat
         /\ ToSet(InOrder(S)) = S
<1> DEFINE N     == Cardinality(S)
           Up(n) == {m \in S : m <= n}
           rank  == [n \in S |-> Cardinality(Up(n))]
<1>1. N \in Nat /\ IsFiniteSet(1 .. N) /\ Cardinality(1 .. N) = N
  <2>1. N \in Nat
    BY FS_CardinalityType
  <2> HIDE DEF N
  <2>2. IsFiniteSet(1 .. N) /\ Cardinality(1 .. N) = IF 1 > N THEN 0 ELSE N - 1 + 1
    BY <2>1, FS_Interval
  <2> QED
    BY <2>1, <2>2
<1>2. ASSUME NEW n \in S
      PROVE  IsFiniteSet(Up(n)) /\ n \in Up(n) /\ Cardinality(Up(n)) \in 1 .. N
  <2>1. Up(n) \in SUBSET S /\ n \in Up(n)
    OBVIOUS
  <2>2. IsFiniteSet(Up(n)) /\ Cardinality(Up(n)) <= N
    BY <2>1, FS_Subset
  <2>3. Cardinality(Up(n)) \in Nat
    BY <2>2, FS_CardinalityType
  <2>4. Cardinality(Up(n)) # 0
    BY <2>1, <2>2, FS_EmptySet
  <2> HIDE DEF Up
  <2> QED
    BY <1>1, <2>1, <2>2, <2>3, <2>4
<1>3. ASSUME NEW n \in S, NEW m \in S, n < m
      PROVE  Cardinality(Up(n)) # Cardinality(Up(m))
  <2>n. n \in Nat /\ m \in Nat
    OBVIOUS
  <2>a. m \notin Up(n)
    BY <1>3, <2>n
  <2>b. ASSUME NEW k \in S, k <= n PROVE k <= m
    BY <1>3, <2>n, <2>b
  <2>1. Up(n) \in SUBSET Up(m) /\ m \notin Up(n)
    BY <2>a, <2>b
  <2>2. Up(n) # Up(m)
    BY <1>2, <2>1
  <2> HIDE DEF Up
  <2> QED
    BY <1>2, <2>1, <2>2, FS_Subset
<1>4. \A n, m \in S : rank[n] = rank[m] => n = m
  <2> SUFFICES ASSUME NEW n \in S, NEW m \in S, n # m PROVE rank[n] # rank[m]
    OBVIOUS
  <2>1. n < m \/ m < n
    OBVIOUS
  <2>2. Cardinality(Up(n)) # Cardinality(Up(m))
    <3> HIDE DEF Up
    <3> QED
      BY <1>3, <2>1
  <2> QED
    BY <2>2
<1>5. rank \in Injection(S, 1 .. N)
  <2> HIDE DEF Up
  <2>1. rank \in [S -> 1 .. N]
    BY <1>2
  <2> QED
    BY <1>4, <2>1 DEF Injection, IsInjective
<1>6. rank \in Surjection(S, 1 .. N)
  <2> HIDE DEF rank, N
  <2>1. Cardinality(S) = Cardinality(1 .. N)
    BY <1>1 DEF N
  <2> QED
    BY <1>1, <1>5, <2>1, FS_Injection
<1>7. \A i \in 1 .. N : \E n \in S : rank[n] = i
  BY <1>6 DEF Surjection
<1>8. InOrder(S) = [i \in 1 .. N |-> CHOOSE n \in S : Cardinality(Up(n)) = i]
  BY DEF InOrder
<1>9. \A i \in 1 .. N : InOrder(S)[i] \in S /\ rank[InOrder(S)[i]] = i
  <2> HIDE DEF N, Up
  <2> SUFFICES ASSUME NEW i \in 1 .. N
               PROVE  InOrder(S)[i] \in S /\ rank[InOrder(S)[i]] = i
    OBVIOUS
  <2> DEFINE c == CHOOSE n \in S : Cardinality(Up(n)) = i
  <2>1. \E n \in S : Cardinality(Up(n)) = i
    BY <1>7
  <2>2. c \in S /\ Cardinality(Up(c)) = i
    BY <2>1
  <2>3. InOrder(S)[i] = c
    BY <1>8
  <2> HIDE DEF c
  <2> QED
    BY <2>2, <2>3
<1> HIDE DEF rank, N
<1>10. InOrder(S) \in Seq(Nat) /\ Len(InOrder(S)) = N /\ DOMAIN InOrder(S) = 1 .. N
  <2>1. InOrder(S) \in [1 .. N -> Nat]
    <3>1. InOrder(S) = [i \in 1 .. N |-> InOrder(S)[i]]
      BY <1>8
    <3>2. \A i \in 1 .. N : InOrder(S)[i] \in Nat
      BY <1>9
    <3> QED
      BY <3>1, <3>2, Zenon
  <2> QED
    BY <1>1, <2>1
<1>11. \A n \in S : rank[n] \in 1 .. N /\ InOrder(S)[rank[n]] = n
  <2>1. \A n \in S : rank[n] \in 1 .. N
    BY <1>5 DEF Injection
  <2> QED
    BY <1>4, <1>9, <2>1
<1>12. ToSet(InOrder(S)) = S
  <2>1. \A x \in ToSet(InOrder(S)) : x \in S
    BY <1>9, <1>10 DEF ToSet
  <2>2. \A x \in S : x \in ToSet(InOrder(S))
    BY <1>10, <1>11 DEF ToSet
  <2> QED
    BY <2>1, <2>2
<1> QED
  BY <1>1, <1>10, <1>12 DEF N

\* The numbers after `from`, in order.
LEMMA InOrderOfInterval ==
  ASSUME NEW from \in Nat, NEW to \in Nat, from <= to
  PROVE  /\ InOrder(from + 1 .. to) \in Seq(Nat)
         /\ Len(InOrder(from + 1 .. to)) = to - from
         /\ \A i \in 1 .. to - from : InOrder(from + 1 .. to)[i] = from + i
<1> DEFINE S == from + 1 .. to
<1>1. \A n \in Nat : from <= n => Cardinality(from + 1 .. n) = n - from
  <2> SUFFICES ASSUME NEW n \in Nat, from <= n PROVE Cardinality(from + 1 .. n) = n - from
    OBVIOUS
  <2>1. Cardinality(from + 1 .. n) = IF from + 1 > n THEN 0 ELSE n - (from + 1) + 1
    BY FS_Interval
  <2> QED
    BY <2>1
<1>2. Cardinality(S) = to - from
  BY <1>1
<1>3. \A n \in S : {m \in S : m <= n} = from + 1 .. n
  OBVIOUS
<1>4. \A n \in S : n \in Nat /\ from <= n
  OBVIOUS
<1>5. \A n \in S : Cardinality({m \in S : m <= n}) = n - from
  BY <1>1, <1>3, <1>4, Zenon
<1>6. InOrder(S) = [i \in 1 .. to - from |->
                      CHOOSE n \in S : Cardinality({m \in S : m <= n}) = i]
  BY <1>2 DEF InOrder
<1>7. ASSUME NEW i \in 1 .. to - from PROVE InOrder(S)[i] = from + i
  <2>1. from + i \in S
    OBVIOUS
  <2>2. (CHOOSE n \in S : Cardinality({m \in S : m <= n}) = i) = from + i
    BY <1>5, <2>1
  <2> QED
    BY <1>6, <2>2
<1>8. Len(InOrder(S)) = to - from /\ InOrder(S) \in Seq(Nat)
  <2> HIDE DEF S
  <2>1. DOMAIN InOrder(S) = 1 .. to - from
    BY <1>6
  <2>2. \A i \in 1 .. to - from : InOrder(S)[i] \in Nat
    BY <1>7
  <2>3. InOrder(S) = [i \in 1 .. to - from |-> InOrder(S)[i]]
    BY <1>6
  <2>4. to - from \in Nat
    OBVIOUS
  <2> QED
    BY <2>2, <2>3, <2>4
<1> QED
  BY <1>7, <1>8

LEMMA ToSetFacts ==
  ASSUME NEW s \in Seq(Nat), NEW t \in Seq(Nat)
  PROVE  /\ s \o t \in Seq(Nat) /\ Len(s \o t) = Len(s) + Len(t)
         /\ ToSet(s \o t) = ToSet(s) \cup ToSet(t)
<1>1. /\ s \o t \in Seq(Nat) /\ Len(s \o t) = Len(s) + Len(t)
      /\ \A i \in 1 .. Len(s) + Len(t) :
           (s \o t)[i] = IF i <= Len(s) THEN s[i] ELSE t[i - Len(s)]
  BY ConcatProperties
<1>2. ToSet(s \o t) \subseteq ToSet(s) \cup ToSet(t)
  <2> SUFFICES ASSUME NEW i \in 1 .. Len(s) + Len(t)
               PROVE  (s \o t)[i] \in ToSet(s) \cup ToSet(t)
    BY <1>1 DEF ToSet
  <2>1. CASE i <= Len(s)
    BY <1>1, <2>1 DEF ToSet
  <2>2. CASE i > Len(s)
    <3>1. i - Len(s) \in 1 .. Len(t) /\ (s \o t)[i] = t[i - Len(s)]
      BY <1>1, <2>2
    <3> QED
      BY <3>1 DEF ToSet
  <2> QED
    BY <2>1, <2>2
<1>d. /\ DOMAIN s = 1 .. Len(s) /\ DOMAIN t = 1 .. Len(t)
      /\ DOMAIN (s \o t) = 1 .. Len(s) + Len(t)
      /\ Len(s) \in Nat /\ Len(t) \in Nat
  BY <1>1, LenProperties
<1>3. ToSet(s) \subseteq ToSet(s \o t)
  <2> SUFFICES ASSUME NEW i \in 1 .. Len(s) PROVE s[i] \in ToSet(s \o t)
    BY <1>d, Zenon DEF ToSet
  <2>1. i \in 1 .. Len(s \o t) /\ (s \o t)[i] = s[i]
    BY <1>1
  <2> QED
    BY <2>1 DEF ToSet
<1>4. ToSet(t) \subseteq ToSet(s \o t)
  <2> SUFFICES ASSUME NEW i \in 1 .. Len(t) PROVE t[i] \in ToSet(s \o t)
    BY <1>d, Zenon DEF ToSet
  <2>1. Len(s) + i \in 1 .. Len(s \o t) /\ (s \o t)[Len(s) + i] = t[i]
    BY <1>1
  <2> QED
    BY <2>1 DEF ToSet
<1> QED
  BY <1>1, <1>2, <1>3, <1>4

\* What a write at a place leaves in the file.
LEMMA WrittenFacts ==
  ASSUME NEW f \in Seq(Nat), NEW p \in Nat, p <= Len(f), NEW x \in Nat
  PROVE  LET g == SubSeq(f, 1, p) \o <<x>> \o SubSeq(f, p + 2, Len(f))
         IN  /\ g \in Seq(Nat) /\ p + 1 <= Len(g)
             /\ \A i \in 1 .. p : g[i] = f[i]
             /\ g[p + 1] = x
<1> DEFINE a == SubSeq(f, 1, p)
           b == SubSeq(f, p + 2, Len(f))
<1>1. a \in Seq(Nat) /\ Len(a) = p /\ \A i \in 1 .. p : a[i] = f[i]
  <2>1. \A i \in 1 .. p : f[i] \in Nat
    OBVIOUS
  <2> QED
    BY <2>1, SubSeqProperties
<1>2. b \in Seq(Nat)
  <2>1. \A i \in p + 2 .. Len(f) : f[i] \in Nat
    OBVIOUS
  <2> QED
    BY <2>1, SubSeqProperties
<1>3. <<x>> \in Seq(Nat) /\ Len(<<x>>) = 1
  OBVIOUS
<1> HIDE DEF a, b
<1>4. /\ a \o <<x>> \in Seq(Nat) /\ Len(a \o <<x>>) = p + 1
      /\ \A i \in 1 .. p : (a \o <<x>>)[i] = f[i]
      /\ (a \o <<x>>)[p + 1] = x
  BY <1>1, <1>3
<1> DEFINE c == a \o <<x>>
<1> HIDE DEF c
<1>5. c \in Seq(Nat) /\ Len(c) = p + 1 /\ (\A i \in 1 .. p : c[i] = f[i]) /\ c[p + 1] = x
  BY <1>4 DEF c
<1>6. /\ c \o b \in Seq(Nat) /\ Len(c \o b) = p + 1 + Len(b) /\ Len(b) \in Nat
      /\ \A i \in 1 .. p + 1 : (c \o b)[i] = c[i]
  BY <1>2, <1>5, ConcatProperties
<1>7. p + 1 <= Len(c \o b)
  BY <1>6
<1>8. (\A i \in 1 .. p : (c \o b)[i] = f[i]) /\ (c \o b)[p + 1] = x
  BY <1>5, <1>6
<1>9. c \o b = SubSeq(f, 1, p) \o <<x>> \o SubSeq(f, p + 2, Len(f))
  BY DEF a, b, c
<1> QED
  BY <1>6, <1>7, <1>8, <1>9

\* A sequence taken apart.
LEMMA HeadMoves ==
  ASSUME NEW s \in Seq(Nat), NEW t \in Seq(Nat), t # <<>>
  PROVE  /\ Append(s, Head(t)) \in Seq(Nat) /\ Append(s, Head(t)) # <<>>
         /\ Tail(t) \in Seq(Nat)
         /\ Append(s, Head(t)) \o Tail(t) = s \o t
<1>1. /\ Head(t) \in Nat /\ Tail(t) \in Seq(Nat)
      /\ Len(Tail(t)) = Len(t) - 1
      /\ \A i \in 1 .. Len(Tail(t)) : Tail(t)[i] = t[i + 1]
  BY HeadTailProperties
<1> DEFINE a == Append(s, Head(t))
<1>2. /\ a \in Seq(Nat) /\ a # <<>> /\ Len(a) = Len(s) + 1
      /\ \A i \in 1 .. Len(s) : a[i] = s[i]
      /\ a[Len(s) + 1] = t[1]
  BY <1>1, AppendProperties
<1> HIDE DEF a
<1>3. /\ a \o Tail(t) \in Seq(Nat) /\ s \o t \in Seq(Nat)
      /\ Len(a \o Tail(t)) = Len(s) + Len(t) /\ Len(s \o t) = Len(s) + Len(t)
  <2>1. Len(s) \in Nat /\ Len(t) \in Nat
    BY LenProperties
  <2>2. a \o Tail(t) \in Seq(Nat) /\ Len(a \o Tail(t)) = Len(a) + Len(Tail(t))
    BY <1>1, <1>2, ConcatProperties
  <2>3. s \o t \in Seq(Nat) /\ Len(s \o t) = Len(s) + Len(t)
    BY ConcatProperties
  <2>4. Len(a) + Len(Tail(t)) = Len(s) + Len(t)
    BY <1>1, <1>2, <2>1
  <2> QED
    BY <2>2, <2>3, <2>4
<1>4. ASSUME NEW i \in 1 .. Len(s) + Len(t) PROVE (a \o Tail(t))[i] = (s \o t)[i]
  <2>1. (a \o Tail(t))[i] = IF i <= Len(a) THEN a[i] ELSE Tail(t)[i - Len(a)]
    BY <1>1, <1>2, <1>3, ConcatProperties
  <2>2. (s \o t)[i] = IF i <= Len(s) THEN s[i] ELSE t[i - Len(s)]
    BY ConcatProperties
  <2>3. Len(s) \in Nat /\ Len(t) \in Nat /\ Len(a) = Len(s) + 1
    BY <1>2
  <2>4. CASE i <= Len(s)
    BY <1>2, <2>1, <2>2, <2>3, <2>4
  <2>5. CASE i = Len(s) + 1
    BY <1>2, <2>1, <2>2, <2>3, <2>5
  <2>6. CASE i > Len(s) + 1
    <3>1. i - Len(a) \in 1 .. Len(Tail(t)) /\ i - Len(a) + 1 = i - Len(s)
      BY <1>1, <2>3, <2>6
    <3>2. Tail(t)[i - Len(a)] = t[i - Len(s)]
      BY <1>1, <3>1
    <3> QED
      BY <2>1, <2>2, <2>3, <2>6, <3>2
  <2> QED
    BY <2>3, <2>4, <2>5, <2>6
<1>5. a \o Tail(t) = s \o t
  BY <1>3, <1>4, SeqEqual
<1> QED
  BY <1>1, <1>2, <1>5 DEF a

\* The middle of three sequences.
LEMMA BatchFacts ==
  ASSUME NEW p \in Seq(Nat), NEW b \in Seq(Nat), NEW r \in Seq(Nat)
  PROVE  /\ p \o b \in Seq(Nat) /\ Len(p \o b) = Len(p) + Len(b)
         /\ Len(p) \in Nat /\ Len(b) \in Nat /\ Len(r) \in Nat
         /\ p \o (b \o r) = (p \o b) \o r
         /\ (p \o b) \o r \in Seq(Nat) /\ Len((p \o b) \o r) = Len(p) + Len(b) + Len(r)
         /\ \A i \in 1 .. Len(p) + Len(b) : ((p \o b) \o r)[i] = (p \o b)[i]
         /\ \A i \in 1 .. Len(b) : ((p \o b) \o r)[Len(p) + i] = b[i]
<1>1. Len(p) \in Nat /\ Len(b) \in Nat /\ Len(r) \in Nat
  BY LenProperties
<1>2. /\ p \o b \in Seq(Nat) /\ Len(p \o b) = Len(p) + Len(b)
      /\ \A i \in 1 .. Len(p) + Len(b) : (p \o b)[i] = IF i <= Len(p) THEN p[i] ELSE b[i - Len(p)]
  BY ConcatProperties
<1> DEFINE q == p \o b
<1> HIDE DEF q
<1>3. /\ q \o r \in Seq(Nat) /\ Len(q \o r) = Len(q) + Len(r)
      /\ \A i \in 1 .. Len(q) + Len(r) : (q \o r)[i] = IF i <= Len(q) THEN q[i] ELSE r[i - Len(q)]
  <2>1. q \in Seq(Nat)
    BY <1>2 DEF q
  <2> QED
    BY <2>1, ConcatProperties
<1>4. Len(q) = Len(p) + Len(b)
  BY <1>2 DEF q
<1>5. \A i \in 1 .. Len(p) + Len(b) : (q \o r)[i] = q[i]
  BY <1>1, <1>3, <1>4
<1>6. ASSUME NEW i \in 1 .. Len(b) PROVE (q \o r)[Len(p) + i] = b[i]
  <2>1. /\ Len(p) + i \in 1 .. Len(p) + Len(b) /\ ~(Len(p) + i <= Len(p))
        /\ Len(p) + i - Len(p) = i
    BY <1>1
  <2>2. q[Len(p) + i] = b[i]
    BY <1>2, <2>1 DEF q
  <2> QED
    BY <1>5, <2>1, <2>2
<1>7. p \o (b \o r) = q \o r
  <2>1. p \o (b \o r) = (p \o b) \o r
    BY SMTT(60)
  <2> QED
    BY <2>1 DEF q
<1>8. Len(q \o r) = Len(p) + Len(b) + Len(r)
  BY <1>1, <1>3, <1>4
<1>9. q = p \o b
  BY DEF q
<1> QED
  BY <1>1, <1>2, <1>3, <1>5, <1>6, <1>7, <1>8, <1>9

\* A set of places has a last one.
LEMMA MaxFacts ==
  ASSUME NEW n \in Nat, NEW S \in SUBSET (1 .. n), S # {}
  PROVE  Max(S) \in S /\ \A i \in S : Max(S) >= i
<1> DEFINE T == {n - i : i \in S}
           Smaller == OpToRel(<, Nat)
<1>n. \A i \in S : i \in Int /\ n - i \in Nat
  OBVIOUS
<1>1. T \subseteq Nat /\ T # {}
  BY <1>n
<1>2. IsWellFoundedOn(Smaller, Nat)
  BY NatLessThanWellFounded
<1>3. PICK t \in T : \A u \in T : ~(<<u, t>> \in Smaller)
  <2> HIDE DEF T, Smaller
  <2> QED
    BY <1>1, <1>2, WFMin
<1>4. \A u \in T : u >= t
  <2>1. \A u \in T : u \in Nat /\ ~(u < t)
    BY <1>1, <1>3 DEF OpToRel
  <2>2. t \in Nat
    BY <1>1
  <2> QED
    BY <2>1, <2>2
<1>5. PICK m \in S : t = n - m
  OBVIOUS
<1>6. \A i \in S : m >= i
  <2> SUFFICES ASSUME NEW i \in S PROVE m >= i
    OBVIOUS
  <2>1. n - i >= n - m
    BY <1>4, <1>5
  <2>2. i \in Int /\ m \in Int
    BY <1>n
  <2> QED
    BY <2>1, <2>2
<1> QED
  BY <1>6 DEF Max

LEMMA LastOfInterval ==
  ASSUME NEW n \in Nat, n # 0
  PROVE  Max(1 .. n) = n
<1>1. n \in 1 .. n /\ 1 .. n # {}
  OBVIOUS
<1>2. Max(1 .. n) \in 1 .. n /\ Max(1 .. n) >= n
  BY <1>1, MaxFacts
<1> QED
  BY <1>2

LEMMA Results ==
  ASSUME NEW code
  PROVE  /\ RecordCurlResult("OK", "OK") = "OK" /\ "OK" \notin Retryable
         /\ code \notin {"OK", "PARTIAL_FILE"} => RecordCurlResult("OK", code) # "OK"
BY DEF RecordCurlResult, CurlCodeToStatus, Retryable

-----------------------------------------------------------------------------
(* S3's page and the callbacks                                             *)

LEMMA ShorterFacts ==
  ASSUME NEW m \in Nat, NEW k \in Nat \ {0}, NEW n \in Nat
  PROVE  /\ Shorter(m + k, n) \in Nat /\ Shorter(m + k, n) <= n
         /\ m <= n => m <= Shorter(m + k, n) /\ (Shorter(m + k, n) = m => m = n)
BY DEF Shorter

LEMMA IntervalFacts ==
  ASSUME NEW m \in Nat, NEW n \in Nat
  PROVE  /\ m + 1 .. n \in SUBSET Nat /\ m + 1 .. n \subseteq 1 .. n
         /\ IsFiniteSet(m + 1 .. n)
         /\ m <= n => Cardinality(m + 1 .. n) = n - m
<1>1. /\ IsFiniteSet(m + 1 .. n)
      /\ Cardinality(m + 1 .. n) = IF m + 1 > n THEN 0 ELSE n - (m + 1) + 1
  BY FS_Interval
<1> QED
  BY <1>1

\* A page has the entries that follow the marker, as far as PageEnd; there is
\* one unless the listing is at its end.
LEMMA PageFacts ==
  ASSUME TypeOK, OnlyItems
  PROVE  /\ Page \in Seq(Nat) /\ Markers \subseteq Nat
         /\ nextMarker <= Len(entries) =>
              /\ PageEnd \in Nat /\ nextMarker <= PageEnd /\ PageEnd <= Len(entries)
              /\ PageEnd = nextMarker => nextMarker = Len(entries)
              /\ ToSet(Page) = nextMarker + 1 .. PageEnd
              /\ Len(Page) = PageEnd - nextMarker
              /\ command = "list" => \A i \in 1 .. Len(Page) : Page[i] = nextMarker + i
<1> DEFINE all      == nextMarker + 1 .. PageEnd
           items    == {n \in all : IsItem(n)}
           prefixes == {n \in all : IsCommonPrefix(n)}
<1>1. /\ nextMarker \in Nat /\ maxkeys \in Nat /\ PageSize \in Nat \ {0}
      /\ entries \in Seq({"item", "prefix"}) /\ Len(entries) \in Nat
      /\ DOMAIN entries = 1 .. Len(entries)
  BY ReadCommandsAssumption, LenProperties DEF TypeOK
<1>p. PICK k \in Nat \ {0} : PageEnd = Shorter(nextMarker + k, Len(entries))
  BY <1>1 DEF PageEnd, Shorter
<1>2. PageEnd \in Nat /\ PageEnd <= Len(entries)
  BY <1>1, <1>p, ShorterFacts
<1>3. nextMarker <= Len(entries) =>
        nextMarker <= PageEnd /\ (PageEnd = nextMarker => nextMarker = Len(entries))
  BY <1>1, <1>p, ShorterFacts
<1>4. Markers \subseteq Nat
  BY <1>2 DEF Markers
<1>5. all \in SUBSET Nat /\ IsFiniteSet(all) /\ all \subseteq DOMAIN entries
  <2>1. all \in SUBSET Nat /\ IsFiniteSet(all) /\ all \subseteq 1 .. PageEnd
    BY <1>1, <1>2, IntervalFacts
  <2>2. 1 .. PageEnd \subseteq 1 .. Len(entries)
    BY <1>1, <1>2
  <2> QED
    BY <1>1, <2>1, <2>2
<1>6. items \in SUBSET Nat /\ IsFiniteSet(items) /\ prefixes \in SUBSET Nat /\ IsFiniteSet(prefixes)
  <2>1. items \in SUBSET all /\ prefixes \in SUBSET all
    OBVIOUS
  <2> HIDE DEF all, items, prefixes
  <2> QED
    BY <1>5, <2>1, FS_Subset
<1>7. items \cup prefixes = all /\ items \cap prefixes = {}
  <2>1. \A n \in all : entries[n] \in {"item", "prefix"}
    BY <1>1, <1>5
  <2> QED
    BY <2>1 DEF IsItem, IsCommonPrefix
<1>8. Page = InOrder(items) \o InOrder(prefixes)
  BY DEF Page
<1> HIDE DEF items, prefixes
<1>9. /\ InOrder(items) \in Seq(Nat) /\ InOrder(prefixes) \in Seq(Nat)
      /\ Len(InOrder(items)) = Cardinality(items) /\ Cardinality(items) \in Nat
      /\ Len(InOrder(prefixes)) = Cardinality(prefixes) /\ Cardinality(prefixes) \in Nat
      /\ ToSet(InOrder(items)) = items /\ ToSet(InOrder(prefixes)) = prefixes
  BY <1>6, InOrderFacts
<1>10. /\ Page \in Seq(Nat) /\ Len(Page) = Cardinality(items) + Cardinality(prefixes)
       /\ ToSet(Page) = items \cup prefixes
  BY <1>8, <1>9, ToSetFacts
<1>11. ASSUME nextMarker <= Len(entries)
       PROVE  Len(Page) = PageEnd - nextMarker
  <2>1. Cardinality(all) = Cardinality(items) + Cardinality(prefixes) - Cardinality({})
    <3> HIDE DEF all
    <3> QED
      BY <1>6, <1>7, FS_Union
  <2>2. Cardinality({}) = 0
    BY FS_EmptySet
  <2>3. nextMarker <= PageEnd
    BY <1>1, <1>3, <1>11
  <2>5. Cardinality(all) = PageEnd - nextMarker
    BY <1>1, <1>2, <2>3, IntervalFacts
  <2> QED
    BY <1>9, <1>10, <2>1, <2>2, <2>5
<1>12. ASSUME nextMarker <= Len(entries), command = "list"
       PROVE  \A i \in 1 .. Len(Page) : Page[i] = nextMarker + i
  <2>1. \A n \in all : IsItem(n)
    BY <1>5, <1>12 DEF OnlyItems
  <2>2. items = all /\ prefixes = {}
    BY <1>7, <2>1 DEF items
  <2>3. InOrder(prefixes) = <<>>
    BY <1>9, <2>2, FS_EmptySet
  <2>4. Page = InOrder(all)
    BY <1>8, <1>9, <2>2, <2>3
  <2>5. \A i \in 1 .. PageEnd - nextMarker : InOrder(all)[i] = nextMarker + i
    <3>1. nextMarker <= PageEnd
      BY <1>1, <1>3, <1>12
    <3> QED
      BY <1>1, <1>2, <3>1, InOrderOfInterval
  <2> QED
    BY <1>11, <1>12, <2>4, <2>5
<1> HIDE DEF all
<1> QED
  BY <1>2, <1>3, <1>4, <1>7, <1>10, <1>11, <1>12 DEF all

\* The numbers 1 .. n, with n at most that of the entries.
LEMMA WholeOfOrdered ==
  ASSUME NEW list \in Seq(Nat), Len(list) <= Len(entries),
         \A i \in DOMAIN list : list[i] = i
  PROVE  Whole(list)
<1>1. DOMAIN list = 1 .. Len(list) /\ Len(list) \in Nat
  BY LenProperties
<1>2. ToSet(list) = 1 .. Len(list)
  BY <1>1 DEF ToSet
<1> QED
  BY <1>2 DEF Whole

\* What a callback keeps has its type.
LEMMA CallbackTypes ==
  ASSUME TypeOK, NEW batch \in Seq(Nat), ListCallback(batch)
  PROVE  isTruncated' \in BOOLEAN /\ nextMarker' \in Nat /\ printed' \in Seq(Nat)
<1>1. answer.truncated \in BOOLEAN /\ answer.next \in Nat
  BY DEF TypeOK, Answers
<1>2. printed \o batch \in Seq(Nat) /\ printed \in Seq(Nat)
  BY ConcatProperties DEF TypeOK
<1>3. PrintBatch(batch)
  BY DEF ListCallback, listBucketCallback, listMultipartCallback, listPartsCallback
<1>4. isTruncated' \in BOOLEAN /\ printed' \in Seq(Nat)
  BY <1>1, <1>2, <1>3 DEF PrintBatch
<1>5. NextMarker(batch) \in Nat
  <2>1. CASE answer.next = 0 /\ ItemPlaces(batch) # {}
    <3>1. DOMAIN batch = 1 .. Len(batch) /\ Len(batch) \in Nat
      BY LenProperties
    <3>2. ItemPlaces(batch) \in SUBSET (1 .. Len(batch))
      BY <3>1 DEF ItemPlaces
    <3>3. Max(ItemPlaces(batch)) \in 1 .. Len(batch)
      BY <2>1, <3>1, <3>2, MaxFacts
    <3>4. batch[Max(ItemPlaces(batch))] \in Nat
      BY <3>1, <3>3
    <3> QED
      BY <2>1, <3>4 DEF NextMarker
  <2>2. CASE ~(answer.next = 0 /\ ItemPlaces(batch) # {})
    BY <1>1, <2>2 DEF NextMarker
  <2> QED
    BY <2>1, <2>2
<1>6. nextMarker' \in {NextMarker(batch), answer.next}
  BY DEF ListCallback, listBucketCallback, listMultipartCallback, listPartsCallback
<1> QED
  BY <1>1, <1>4, <1>5, <1>6

\* A callback prints the batch, and what it keeps as the next marker is the
\* place where the next page goes on.
LEMMA CallbackFacts ==
  ASSUME TypeOK, OnlyItems, ListInv, pc = "receive", late => command = "list",
         NEW batch \in Seq(Nat), batch # <<>>, NEW rest \in Seq(Nat),
         Answered = printed \o (batch \o rest), ListCallback(batch)
  PROVE  /\ printed' = printed \o batch /\ isTruncated' = answer.truncated
         /\ Answered = printed' \o rest
         /\ Len(printed') > answer.before /\ Len(printed') > Len(printed)
         /\ command = "list" => nextMarker' = Len(printed')
         /\ command # "list" /\ answer.truncated => nextMarker' = Len(Answered)
<1>1. /\ printed \in Seq(Nat) /\ Len(printed) \in Nat /\ Len(batch) \in Nat /\ Len(rest) \in Nat
      /\ Len(batch) # 0 /\ answer.before \in Nat /\ answer.next \in Nat
      /\ DOMAIN batch = 1 .. Len(batch)
      /\ entries \in Seq({"item", "prefix"}) /\ Len(entries) \in Nat
      /\ DOMAIN entries = 1 .. Len(entries)
  BY EmptySeq, LenProperties DEF TypeOK, Answers
<1>2. printed' = printed \o batch /\ isTruncated' = answer.truncated
  BY DEF ListCallback, listBucketCallback, listMultipartCallback, listPartsCallback, PrintBatch
<1> DEFINE q == printed \o batch
<1>b. /\ q \in Seq(Nat) /\ Len(q) = Len(printed) + Len(batch)
      /\ Answered = q \o rest /\ q \o rest \in Seq(Nat)
      /\ Len(q \o rest) = Len(printed) + Len(batch) + Len(rest)
      /\ \A i \in 1 .. Len(batch) : (q \o rest)[Len(printed) + i] = batch[i]
  <2>q. printed \in Seq(Nat)
    BY <1>1
  <2>1. /\ printed \o batch \in Seq(Nat) /\ Len(printed \o batch) = Len(printed) + Len(batch)
        /\ printed \o (batch \o rest) = (printed \o batch) \o rest
        /\ (printed \o batch) \o rest \in Seq(Nat)
        /\ Len((printed \o batch) \o rest) = Len(printed) + Len(batch) + Len(rest)
        /\ \A i \in 1 .. Len(batch) : ((printed \o batch) \o rest)[Len(printed) + i] = batch[i]
    BY <2>q, BatchFacts, ZenonT(60)
  <2> QED
    BY <2>1, Zenon
<1> HIDE DEF q
<1>3. printed' = q /\ Answered = printed' \o rest
  BY <1>2, <1>b DEF q
<1>4. Len(printed') = Len(printed) + Len(batch)
  BY <1>3, <1>b
<1>5. /\ Answered \in Seq(Nat) /\ Len(Answered) = Len(printed) + Len(batch) + Len(rest)
      /\ \A i \in 1 .. Len(batch) : Answered[Len(printed) + i] = batch[i]
  BY <1>b
<1>6. /\ answer.before <= Len(printed) /\ Whole(Answered)
      /\ answer.truncated <=> Len(Answered) < Len(entries)
      /\ Len(Answered) > answer.before \/ Len(Answered) = Len(entries)
      /\ command = "list" => answer.next = 0
      /\ command # "list" /\ answer.truncated => answer.next = Len(Answered)
  BY DEF ListInv
<1>7. Len(printed') > answer.before /\ Len(printed') > Len(printed)
  <2>1. answer.before <= Len(printed)
    BY <1>6
  <2> QED
    BY <1>1, <1>4, <2>1
<1>8. ASSUME command = "list" PROVE nextMarker' = Len(printed')
  <2>1. \A i \in DOMAIN Answered : Answered[i] = i
    BY <1>6, <1>8 DEF Whole
  <2>2. DOMAIN Answered = 1 .. Len(Answered) /\ Len(Answered) <= Len(entries)
    BY <1>5, <1>6, LenProperties DEF Whole
  <2>3. ASSUME NEW i \in 1 .. Len(batch)
        PROVE  batch[i] = Len(printed) + i /\ batch[i] \in DOMAIN entries
    <3>1. Len(printed) + i \in 1 .. Len(Answered) /\ Len(printed) + i \in 1 .. Len(entries)
      <4>1. Len(Answered) = Len(printed) + Len(batch) + Len(rest) /\ Len(Answered) <= Len(entries)
        BY <1>5, <2>2
      <4> QED
        BY <1>1, <4>1
    <3>2. Answered[Len(printed) + i] = batch[i]
      BY <1>5
    <3>3. Answered[Len(printed) + i] = Len(printed) + i
      BY <2>1, <2>2, <3>1
    <3> QED
      BY <1>1, <3>1, <3>2, <3>3
  <2>4. ItemPlaces(batch) = 1 .. Len(batch)
    BY <1>1, <1>8, <2>3 DEF ItemPlaces, OnlyItems
  <2>5. Max(1 .. Len(batch)) = Len(batch)
    BY <1>1, LastOfInterval, Zenon
  <2>6. nextMarker' = NextMarker(batch)
    BY <1>8 DEF ListCallback, listBucketCallback, listMultipartCallback, listPartsCallback
  <2>7. Len(batch) \in 1 .. Len(batch)
    BY <1>1
  <2>8. NextMarker(batch) = batch[Len(batch)]
    BY <1>6, <1>8, <2>4, <2>5, <2>7 DEF NextMarker
  <2> QED
    BY <1>1, <1>4, <2>3, <2>6, <2>7, <2>8
<1>9. ASSUME command # "list", answer.truncated PROVE nextMarker' = Len(Answered)
  <2>1. answer.next = Len(Answered)
    BY <1>6, <1>9
  <2>3. Len(Answered) # 0
    BY <1>1, <1>5
  <2>2. NextMarker(batch) = answer.next
    BY <2>1, <2>3 DEF NextMarker
  <2> QED
    BY <2>1, <2>2 DEF ListCallback, listBucketCallback, listMultipartCallback, listPartsCallback
<1> QED
  BY <1>2, <1>3, <1>7, <1>8, <1>9

-----------------------------------------------------------------------------
(* Types                                                                   *)

LEMMA InitInv == Init => IInv
<1> SUFFICES ASSUME Init PROVE IInv
  OBVIOUS
<1>1. entries \in Seq({"item", "prefix"}) /\ (command = "list" => entries \in Seq({"item"}))
  <2>1. PICK n \in 0 .. MaxEntries :
          entries \in [1 .. n -> IF command \in {"list delimiter", "listmultiparts"}
                                 THEN {"item", "prefix"} ELSE {"item"}]
    BY DEF Init
  <2>n. MaxEntries \in Nat
    BY ReadCommandsAssumption
  <2>2. n \in Nat
    BY <2>n
  <2>3. entries \in [1 .. n -> {"item", "prefix"}]
    BY <2>1
  <2>4. command = "list" => entries \in [1 .. n -> {"item"}]
    BY <2>1
  <2> QED
    BY <2>2, <2>3, <2>4
<1>i. /\ command \in Commands /\ position = 0 /\ pc = "ask" /\ answer = NoAnswer
      /\ collected = <<>> /\ isTruncated = FALSE /\ nextMarker = 0 /\ printed = <<>>
      /\ late = FALSE /\ cut = FALSE
      /\ maxkeys \in IF command = "get" THEN {0} ELSE Maxima
      /\ file \in IF command = "get" THEN {[i \in 1 .. n |-> Old] : n \in OldLengths} ELSE {<<>>}
  BY Zenon DEF Init
<1>2. file \in Seq(Nat)
  <2>1. CASE command = "get"
    <3>1. PICK n \in OldLengths : file = [i \in 1 .. n |-> Old]
      BY <1>i, <2>1
    <3>2. n \in Nat
      BY ReadCommandsAssumption
    <3> QED
      BY <3>1, <3>2 DEF Old
  <2>2. CASE command # "get"
    BY <1>i, <2>2
  <2> QED
    BY <2>1, <2>2
<1>3. maxkeys \in Nat
  <2>1. Maxima \subseteq Nat
    BY ReadCommandsAssumption
  <2> QED
    BY <1>i, <2>1
<1>e. /\ <<>> \in Seq(Nat) /\ Len(<<>>) = 0 /\ DOMAIN <<>> = 1 .. 0
  <2>1. <<>> \in Seq(Nat) /\ Len(<<>>) = 0
    BY EmptySeq
  <2>2. DOMAIN <<>> = 1 .. Len(<<>>)
    BY <2>1, LenProperties
  <2> QED
    BY <2>1, <2>2
<1>4. answer \in Answers
  <2>1. NoAnswer \in Answers
    BY <1>e DEF NoAnswer, Answers
  <2> QED
    BY <1>i, <2>1
<1>5. TypeOK
  BY <1>1, <1>2, <1>3, <1>4, <1>i, <1>e DEF TypeOK
<1>6. OnlyItems
  BY <1>1 DEF OnlyItems, IsItem
<1>7. Len(file) \in Nat /\ Len(entries) \in Nat
  BY <1>1, <1>2, LenProperties
<1>8. GetInv
  BY <1>7, <1>i DEF GetInv
<1>9. ListInv
  <2>1. Len(printed) = 0 /\ DOMAIN printed = 1 .. 0
    BY <1>e, <1>i
  <2>2. Whole(printed)
    BY <1>7, <2>1 DEF Whole, ToSet
  <2> QED
    BY <1>i, <2>1, <2>2 DEF ListInv
<1> QED
  BY <1>5, <1>6, <1>8, <1>9 DEF IInv

LEMMA ParametersStay == Next => UNCHANGED parameters
<1> SUFFICES ASSUME Next PROVE UNCHANGED parameters
  OBVIOUS
<1>1. ASSUME NEW code, Complete(code) PROVE UNCHANGED parameters
  BY <1>1 DEF Complete
<1> QED
  BY <1>1 DEF Next, Ask, EntryComes, DataWritten, DataNotWritten, NextPage, Done, Finished, vars,
              parameters

LEMMA TypeStep ==
  ASSUME TypeOK, OnlyItems, command = "get" => position <= Len(file), Next
  PROVE  TypeOK'
<1> USE DEF Answers
<1>p. UNCHANGED <<command, entries, maxkeys>>
  BY ParametersStay DEF parameters
<1>1. CASE Ask
  <2>1. answer' \in Answers
    <3>1. CASE command = "get"
      <4>1. DOMAIN entries = 1 .. Len(entries) /\ Len(entries) \in Nat
        BY LenProperties DEF TypeOK
      <4>2. [i \in DOMAIN entries |-> i] \in Seq(Nat)
        BY <4>1
      <4>3. answer' = [rest |-> [i \in DOMAIN entries |-> i], truncated |-> FALSE,
                       next |-> 0, before |-> position]
        BY <1>1, <3>1 DEF Ask, NoAnswer
      <4>4. position \in Nat
        BY DEF TypeOK
      <4> QED
        BY <4>2, <4>3, <4>4
    <3>2. CASE command # "get"
      <4>1. Page \in Seq(Nat) /\ Markers \subseteq Nat /\ Len(printed) \in Nat
        BY PageFacts, LenProperties DEF TypeOK
      <4>2. PICK marker \in Markers :
              answer' = [rest |-> Page, truncated |-> PageEnd < Len(entries),
                         next |-> marker, before |-> Len(printed)]
        BY <1>1, <3>2 DEF Ask
      <4> QED
        BY <4>1, <4>2
    <3> QED
      BY <3>1, <3>2
  <2> QED
    BY <1>1, <1>p, <2>1 DEF Ask, TypeOK, listed, outfile, results
<1>2. CASE EntryComes
  <2> DEFINE batch == Append(collected, Head(answer.rest))
  <2>1. answer.rest \in Seq(Nat) /\ answer.rest # <<>> /\ collected \in Seq(Nat)
    BY <1>2 DEF EntryComes, TypeOK
  <2>2. batch \in Seq(Nat) /\ Tail(answer.rest) \in Seq(Nat)
    BY <2>1, HeadMoves
  <2>3. answer' \in Answers
    BY <1>2, <2>2 DEF EntryComes, TypeOK
  <2>4. IF Full(batch) THEN ListCallback(batch) /\ collected' = <<>>
        ELSE collected' = batch /\ UNCHANGED listed
    BY <1>2 DEF EntryComes
  <2> HIDE DEF batch
  <2>5. /\ collected' \in Seq(Nat)
        /\ isTruncated' \in BOOLEAN /\ nextMarker' \in Nat /\ printed' \in Seq(Nat)
    <3>1. CASE Full(batch)
      BY <2>2, <2>4, <3>1, CallbackTypes
    <3>2. CASE ~Full(batch)
      BY <2>2, <2>4, <3>2 DEF TypeOK, listed
    <3> QED
      BY <3>1, <3>2
  <2> QED
    BY <1>2, <1>p, <2>3, <2>5 DEF EntryComes, TypeOK, outfile, results
<1>3. CASE DataWritten
  <2>1. answer.rest \in Seq(Nat) /\ answer.rest # <<>>
    BY <1>3 DEF DataWritten, TypeOK
  <2>2. Head(answer.rest) \in Nat /\ Tail(answer.rest) \in Seq(Nat)
    BY <2>1, HeadTailProperties
  <2>3. answer' \in Answers
    BY <1>3, <2>2 DEF DataWritten, TypeOK
  <2>4. file' \in Seq(Nat) /\ position' \in Nat
    <3>1. file \in Seq(Nat) /\ position \in Nat /\ position <= Len(file)
      BY <1>3 DEF DataWritten, TypeOK
    <3>2. /\ file' = SubSeq(file, 1, position) \o <<Head(answer.rest)>>
                      \o SubSeq(file, position + 2, Len(file))
          /\ position' = position + 1
      BY <1>3 DEF DataWritten
    <3> QED
      BY <2>2, <3>1, <3>2, WrittenFacts
  <2> QED
    BY <1>3, <1>p, <2>3, <2>4 DEF DataWritten, TypeOK, listed, results
<1>4. CASE DataNotWritten
  BY <1>4, <1>p DEF DataNotWritten, TypeOK, listed, outfile
<1>5. ASSUME NEW code \in CurlCodes, Complete(code) PROVE TypeOK'
  <2>1. isTruncated' \in BOOLEAN /\ nextMarker' \in Nat /\ printed' \in Seq(Nat)
    BY <1>5, CallbackTypes DEF Complete, TypeOK, listed
  <2>2. pc' \in {"ask", "answered"}
    BY <1>5 DEF Complete, should_retry
  <2>3. late' \in BOOLEAN /\ cut' \in BOOLEAN
    BY <1>5 DEF Complete, TypeOK
  <2>4. collected' \in Seq(Nat)
    BY <1>5 DEF Complete
  <2> QED
    BY <1>5, <1>p, <2>1, <2>2, <2>3, <2>4 DEF Complete, TypeOK, outfile
<1>6. CASE NextPage
  BY <1>6, <1>p DEF NextPage, TypeOK, outfile, results
<1>7. CASE Done
  BY <1>7, <1>p DEF Done, TypeOK, listed, outfile, results
<1>8. CASE Finished
  BY <1>8 DEF Finished, vars, TypeOK
<1> QED
  BY <1>1, <1>2, <1>3, <1>4, <1>5, <1>6, <1>7, <1>8 DEF Next

-----------------------------------------------------------------------------
(* A get                                                                   *)

\* What has not come yet follows what has.
LEMMA RestMoves ==
  ASSUME NEW s \in Seq(Nat), NEW n \in Nat, NEW k \in Nat, s # <<>>,
         Len(s) = n - k, \A i \in DOMAIN s : s[i] = k + i
  PROVE  /\ Head(s) = k + 1 /\ k + 1 <= n
         /\ Tail(s) \in Seq(Nat) /\ Len(Tail(s)) = n - (k + 1)
         /\ \A i \in DOMAIN Tail(s) : Tail(s)[i] = (k + 1) + i
<1>1. Len(s) \in Nat \ {0} /\ DOMAIN s = 1 .. Len(s) /\ Head(s) = s[1]
  BY EmptySeq, LenProperties
<1>2. /\ Tail(s) \in Seq(Nat) /\ Len(Tail(s)) = Len(s) - 1
      /\ DOMAIN Tail(s) = 1 .. Len(Tail(s))
      /\ \A i \in 1 .. Len(Tail(s)) : Tail(s)[i] = s[i + 1]
  BY HeadTailProperties, LenProperties
<1>3. 1 \in DOMAIN s
  BY <1>1
<1>4. Head(s) = k + 1 /\ k + 1 <= n /\ Len(Tail(s)) = n - (k + 1)
  BY <1>1, <1>2, <1>3
<1>5. ASSUME NEW i \in DOMAIN Tail(s) PROVE Tail(s)[i] = (k + 1) + i
  <2>1. i \in 1 .. Len(s) - 1 /\ i + 1 \in 1 .. Len(s)
    BY <1>1, <1>2
  <2>2. s[i + 1] = k + (i + 1)
    BY <1>1, <2>1
  <2> QED
    BY <1>2, <2>1, <2>2
<1> QED
  BY <1>2, <1>4, <1>5

LEMMA GetAsk ==
  ASSUME TypeOK, command = "get", GetInv, Ask
  PROVE  GetInv'
<1>p. command' = command /\ entries' = entries
  BY DEF Ask, parameters
<1>1. /\ pc = "ask" /\ pc' = "receive"
      /\ answer' = [rest |-> [i \in DOMAIN entries |-> i], truncated |-> FALSE,
                    next |-> 0, before |-> position]
      /\ UNCHANGED <<collected, printed, isTruncated, file, position, statusG, late, cut>>
  BY DEF Ask, NoAnswer, listed, outfile, results
<1>2. /\ position \in Nat /\ DOMAIN entries = 1 .. Len(entries) /\ Len(entries) \in Nat
  BY LenProperties DEF TypeOK
<1>3. answer'.before = position /\ answer'.rest = [i \in 1 .. Len(entries) |-> i]
  BY <1>1, <1>2
<1>4. Arrived' = 0
  BY <1>1, <1>2, <1>3 DEF Arrived
<1>5. InFile(Arrived)'
  BY <1>4 DEF InFile
<1>6. /\ Len(answer'.rest) = Len(entries)
      /\ \A i \in DOMAIN answer'.rest : answer'.rest[i] = i /\ i \in Nat
  BY <1>2, <1>3
<1>7. ~late => answer'.before = 0
  BY <1>1, <1>3 DEF GetInv
<1>8. /\ Arrived' \in 0 .. Len(entries')
      /\ Len(answer'.rest) = Len(entries') - Arrived'
      /\ \A i \in DOMAIN answer'.rest : answer'.rest[i] = Arrived' + i
  BY <1>2, <1>4, <1>6, <1>p
<1> QED
  BY <1>1, <1>5, <1>7, <1>8 DEF GetInv

LEMMA GetDataWritten ==
  ASSUME TypeOK, command = "get", GetInv, DataWritten
  PROVE  GetInv'
<1>1. /\ pc = "receive" /\ answer.rest # <<>>
      /\ answer'.rest = Tail(answer.rest) /\ answer'.before = answer.before
      /\ file' = SubSeq(file, 1, position) \o <<Head(answer.rest)>>
                   \o SubSeq(file, position + 2, Len(file))
      /\ position' = position + 1
      /\ UNCHANGED <<entries, pc, collected, printed, isTruncated, statusG, late, cut>>
  BY DEF DataWritten, parameters, listed, results, TypeOK, Answers
<1>2. /\ position \in Nat /\ answer.before \in Nat /\ answer.rest \in Seq(Nat) /\ file \in Seq(Nat)
      /\ Len(entries) \in Nat /\ position <= Len(file)
  BY LenProperties DEF TypeOK, Answers, GetInv
<1> DEFINE k == position - answer.before
<1>3. /\ k \in 0 .. Len(entries) /\ InFile(k)
      /\ Len(answer.rest) = Len(entries) - k
      /\ \A i \in DOMAIN answer.rest : answer.rest[i] = k + i
      /\ ~late => answer.before = 0
  BY <1>1 DEF GetInv, Arrived
<1>4. /\ Head(answer.rest) = k + 1 /\ k + 1 <= Len(entries)
      /\ Len(answer'.rest) = Len(entries) - (k + 1)
      /\ \A i \in DOMAIN answer'.rest : answer'.rest[i] = (k + 1) + i
  <2>1. k \in Nat /\ Len(entries) \in Nat /\ answer.rest \in Seq(Nat) /\ answer.rest # <<>>
    BY <1>1, <1>2, <1>3
  <2> DEFINE rest == answer.rest
             n    == Len(entries)
  <2>2. /\ rest \in Seq(Nat) /\ n \in Nat /\ k \in Nat /\ rest # <<>>
        /\ Len(rest) = n - k /\ \A i \in DOMAIN rest : rest[i] = k + i
    BY <1>3, <2>1
  <2> HIDE DEF k, rest, n
  <2>3. /\ Head(rest) = k + 1 /\ k + 1 <= n
        /\ Len(Tail(rest)) = n - (k + 1)
        /\ \A i \in DOMAIN Tail(rest) : Tail(rest)[i] = (k + 1) + i
    BY <2>2, RestMoves
  <2>4. answer'.rest = Tail(rest)
    BY <1>1 DEF rest
  <2> QED
    BY <2>3, <2>4 DEF rest, n
<1>5. Head(answer.rest) \in Nat
  BY <1>3, <1>4
<1>6. /\ position + 1 <= Len(file')
      /\ \A i \in 1 .. position : file'[i] = file[i]
      /\ file'[position + 1] = k + 1
  <2> HIDE DEF k
  <2> QED
    BY <1>1, <1>2, <1>4, <1>5, WrittenFacts, ZenonT(60)
<1>n. k \in Nat /\ k + 1 \in 0 .. Len(entries) /\ position = answer.before + k
  <2>1. k \in Nat /\ k + 1 <= Len(entries) /\ Len(entries) \in Nat
    BY <1>2, <1>3, <1>4
  <2>2. position \in Nat /\ answer.before \in Nat
    BY <1>2
  <2> QED
    BY <2>1, <2>2
<1>7. Arrived' = k + 1
  <2>1. position' = position + 1 /\ answer'.before = answer.before
    BY <1>1
  <2>2. position \in Nat /\ answer.before \in Nat
    BY <1>2
  <2> QED
    BY <2>1, <2>2 DEF Arrived
<1> HIDE DEF k
<1>8. InFile(Arrived)'
  <2> SUFFICES ASSUME NEW i \in 1 .. k + 1 PROVE file'[answer.before + i] = i
    BY <1>1, <1>7 DEF InFile
  <2>1. CASE i = k + 1
    <3>1. answer.before + i = position + 1
      BY <1>2, <1>n, <2>1
    <3> QED
      BY <1>6, <2>1, <3>1
  <2>2. CASE i # k + 1
    <3>1. i \in 1 .. k /\ answer.before + i \in 1 .. position
      <4>1. position = answer.before + k /\ k \in Nat /\ answer.before \in Nat
        BY <1>2, <1>n
      <4> QED
        BY <2>2, <4>1
    <3>2. file[answer.before + i] = i
      BY <1>3, <3>1 DEF InFile
    <3> QED
      BY <1>6, <3>1, <3>2
  <2> QED
    BY <2>1, <2>2
<1>10. position' <= Len(file')
  BY <1>1, <1>6
<1> QED
  BY <1>1, <1>3, <1>4, <1>n, <1>7, <1>8, <1>10 DEF GetInv

\* When the request is over the whole object has come, or it has failed, or it
\* was cut short.
LEMMA GetComplete ==
  ASSUME TypeOK, command = "get", GetInv, NEW code \in CurlCodes, Complete(code)
  PROVE  GetInv'
<1>1. /\ pc = "receive" /\ collected' = <<>>
      /\ UNCHANGED <<entries, answer, file, position, isTruncated, printed>>
      /\ code = "OK" => answer.rest = <<>>
      /\ statusG' = RecordCurlResult("OK", code)
      /\ IF statusG' \in Retryable THEN should_retry ELSE pc' = "answered" /\ UNCHANGED retriesG
      /\ late' = (late \/ (code # "OK" /\ Len(printed') + position > answer.before))
      /\ cut' = (code = "PARTIAL_FILE")
  BY DEF Complete, GetInv, parameters, listed, outfile
<1>2. /\ position \in Nat /\ answer.before \in Nat /\ Len(entries) \in Nat
      /\ late \in BOOLEAN /\ position <= Len(file)
  BY LenProperties DEF TypeOK, Answers, GetInv
<1>3. /\ Arrived \in 0 .. Len(entries) /\ InFile(Arrived)
      /\ Len(answer.rest) = Len(entries) - Arrived
      /\ ~late => answer.before = 0
      /\ printed = <<>> /\ ~isTruncated
  BY <1>1 DEF GetInv
<1>4. pc' \in {"ask", "answered"} /\ (pc' = "ask" => statusG' \in Retryable)
  BY <1>1 DEF should_retry
<1>5. ASSUME pc' = "ask", ~late' PROVE position' = 0
  <2>1. code # "OK"
    BY <1>1, <1>4, <1>5, Results
  <2>2. ~late /\ ~(Len(printed') + position > answer.before)
    BY <1>1, <1>5, <2>1
  <2>3. Len(printed') = 0
    BY <1>1, <1>3, EmptySeq
  <2>4. answer.before = 0
    BY <1>3, <2>2
  <2> QED
    BY <1>1, <1>2, <2>2, <2>3, <2>4
<1>6. ASSUME statusG' = "OK", ~cut'
      PROVE  Arrived = Len(entries) /\ (~late' => answer.before = 0)
  <2>1. code = "OK"
    BY <1>1, <1>6, Results
  <2>2. Len(answer.rest) = 0
    BY <1>1, <2>1, EmptySeq
  <2>3. Arrived = Len(entries)
    BY <1>2, <1>3, <2>2
  <2> QED
    BY <1>1, <1>3, <2>1, <2>3
<1>7. Arrived' = Arrived /\ (InFile(Arrived) => InFile(Arrived)')
  BY <1>1 DEF Arrived, InFile
<1> QED
  BY <1>1, <1>2, <1>3, <1>4, <1>5, <1>6, <1>7 DEF GetInv

LEMMA GetOthers ==
  ASSUME TypeOK, command = "get", GetInv, DataNotWritten \/ NextPage \/ Done \/ Finished
  PROVE  GetInv'
<1>1. ~isTruncated
  BY DEF GetInv
<1>2. UNCHANGED <<entries, answer, collected, isTruncated, printed, file, position, late, cut>>
  BY <1>1 DEF DataNotWritten, NextPage, Done, Finished, vars, parameters, listed, outfile, results
<1>3. Arrived' = Arrived /\ (InFile(Arrived) => InFile(Arrived)')
  BY <1>2 DEF Arrived, InFile
<1>4. \/ pc' \in {"answered", "done"} /\ statusG' # "OK"
      \/ pc \in {"answered", "done"} /\ pc' \in {"answered", "done"} /\ statusG' = statusG
      \/ pc' = pc /\ statusG' = statusG
  BY <1>1 DEF DataNotWritten, NextPage, Done, Finished, vars, results
<1> QED
  BY <1>2, <1>3, <1>4 DEF GetInv

LEMMA GetStep ==
  ASSUME TypeOK, command = "get", GetInv, Next
  PROVE  GetInv'
<1>1. ~EntryComes
  BY DEF EntryComes
<1> QED
  BY <1>1, GetAsk, GetDataWritten, GetComplete, GetOthers DEF Next

-----------------------------------------------------------------------------
(* A listing                                                               *)

LEMMA ListAsk ==
  ASSUME TypeOK, OnlyItems, command # "get", ListInv, Ask
  PROVE  ListInv'
<1>1. /\ pc = "ask" /\ pc' = "receive"
      /\ UNCHANGED <<command, entries, collected, isTruncated, nextMarker, printed>>
  BY DEF Ask, parameters, listed
<1>2. PICK marker \in Markers :
        answer' = [rest |-> Page, truncated |-> PageEnd < Len(entries),
                   next |-> marker, before |-> Len(printed)]
  BY DEF Ask
<1>3. Whole(printed) /\ nextMarker = Len(printed) /\ collected = <<>>
  BY <1>1 DEF ListInv
<1>4. /\ printed \in Seq(Nat) /\ Len(printed) \in Nat /\ Len(entries) \in Nat
      /\ Len(printed) <= Len(entries)
  BY <1>3, LenProperties DEF TypeOK, Whole
<1>5. /\ Page \in Seq(Nat)
      /\ PageEnd \in Nat /\ Len(printed) <= PageEnd /\ PageEnd <= Len(entries)
      /\ PageEnd = Len(printed) => Len(printed) = Len(entries)
      /\ ToSet(Page) = Len(printed) + 1 .. PageEnd
      /\ Len(Page) = PageEnd - Len(printed)
      /\ command = "list" => \A i \in 1 .. Len(Page) : Page[i] = Len(printed) + i
  BY <1>3, <1>4, PageFacts
<1> DEFINE all == printed \o Page
<1>6. Answered' = all
  BY <1>1, <1>2, <1>3, <1>5, ConcatEmptySeq DEF Answered
<1>7. /\ all \in Seq(Nat) /\ Len(all) = Len(printed) + Len(Page)
      /\ ToSet(all) = ToSet(printed) \cup ToSet(Page)
  BY <1>4, <1>5, ToSetFacts
<1>8. Len(all) = PageEnd
  BY <1>4, <1>5, <1>7
<1>9. ToSet(all) = 1 .. PageEnd
  <2>1. 1 .. Len(printed) \cup Len(printed) + 1 .. PageEnd = 1 .. PageEnd
    BY <1>4, <1>5
  <2>2. ToSet(printed) = 1 .. Len(printed)
    BY <1>3 DEF Whole
  <2> QED
    BY <1>5, <1>7, <2>1, <2>2
<1>10. ASSUME command = "list" PROVE \A i \in DOMAIN all : all[i] = i
  <2>1. /\ DOMAIN all = 1 .. Len(printed) + Len(Page) /\ DOMAIN printed = 1 .. Len(printed)
        /\ Len(Page) \in Nat
    BY <1>4, <1>5, <1>7, LenProperties
  <2> SUFFICES ASSUME NEW i \in 1 .. Len(printed) + Len(Page) PROVE all[i] = i
    BY <2>1
  <2>2. all[i] = IF i <= Len(printed) THEN printed[i] ELSE Page[i - Len(printed)]
    BY <1>4, <1>5, ConcatProperties
  <2>3. CASE i <= Len(printed)
    <3>1. i \in DOMAIN printed
      BY <2>1, <2>3
    <3> QED
      BY <1>3, <1>10, <2>2, <2>3, <3>1 DEF Whole
  <2>4. CASE i > Len(printed)
    <3>1. i - Len(printed) \in 1 .. Len(Page) /\ Len(printed) + (i - Len(printed)) = i
      BY <1>4, <2>1, <2>4
    <3> QED
      BY <1>4, <1>5, <1>10, <2>2, <2>4, <3>1
  <2> QED
    BY <1>4, <2>3, <2>4
<1> HIDE DEF all
<1>11. Whole(all)
  BY <1>5, <1>8, <1>9, <1>10 DEF Whole
<1>12. Whole(Answered)'
  BY <1>1, <1>6, <1>11 DEF Whole
<1>13. Whole(printed)' /\ nextMarker' = Len(printed') /\ ~CalledBack'
  <2>1. Whole(printed)'
    BY <1>1, <1>3 DEF Whole
  <2>2. ~CalledBack'
    BY <1>1, <1>2, <1>4 DEF CalledBack
  <2> QED
    BY <1>1, <1>3, <2>1, <2>2
<1>14. /\ answer'.before = Len(printed) /\ answer'.truncated = (PageEnd < Len(entries))
       /\ answer'.next = marker
  BY <1>2
<1>15. /\ command = "list" => marker = 0
       /\ command # "list" /\ PageEnd < Len(entries) => marker = PageEnd
  BY DEF Markers
<1>16. Len(Answered') = PageEnd /\ (PageEnd > Len(printed) \/ PageEnd = Len(entries))
  BY <1>4, <1>5, <1>6, <1>8
<1>17. answer'.before <= Len(printed')
  BY <1>1, <1>4, <1>14
<1> QED
  BY <1>1, <1>12, <1>13, <1>14, <1>15, <1>16, <1>17 DEF ListInv

\* An element that comes moves on, into the array or on to what is printed.
LEMMA ListEntryComes ==
  ASSUME TypeOK, OnlyItems, command # "get", late => command = "list", ListInv, EntryComes
  PROVE  ListInv'
<1> DEFINE batch == Append(collected, Head(answer.rest))
           rest  == Tail(answer.rest)
<1>1. /\ pc = "receive" /\ answer.rest # <<>> /\ answer'.rest = rest
      /\ answer'.before = answer.before /\ answer'.truncated = answer.truncated
      /\ answer'.next = answer.next
      /\ IF Full(batch) THEN ListCallback(batch) /\ collected' = <<>>
         ELSE collected' = batch /\ UNCHANGED listed
      /\ UNCHANGED <<command, entries, pc, statusG, late, cut>>
  BY DEF EntryComes, TypeOK, Answers, parameters, results
<1>2. /\ printed \in Seq(Nat) /\ collected \in Seq(Nat) /\ answer.rest \in Seq(Nat)
      /\ Len(printed) \in Nat /\ answer.before \in Nat /\ Len(entries) \in Nat
  BY LenProperties DEF TypeOK, Answers
<1>3. /\ batch \in Seq(Nat) /\ batch # <<>> /\ rest \in Seq(Nat)
      /\ batch \o rest = collected \o answer.rest
  BY <1>1, <1>2, HeadMoves
<1> HIDE DEF batch, rest
<1>4. /\ Whole(Answered) /\ answer.before <= Len(printed)
      /\ answer.truncated <=> Len(Answered) < Len(entries)
      /\ Len(Answered) > answer.before \/ Len(Answered) = Len(entries)
      /\ ~CalledBack => Whole(printed) /\ nextMarker = Len(printed)
      /\ CalledBack => isTruncated = answer.truncated
      /\ command = "list" => nextMarker = Len(printed) /\ answer.next = 0
      /\ command # "list" /\ answer.truncated => answer.next = Len(Answered)
      /\ command # "list" /\ CalledBack /\ answer.truncated => nextMarker = Len(Answered)
  BY <1>1 DEF ListInv
<1>5. Answered = printed \o (batch \o rest)
  BY <1>3 DEF Answered
<1>6. CASE Full(batch)
  <2>1. /\ printed' = printed \o batch /\ isTruncated' = answer.truncated
        /\ Answered = printed' \o rest
        /\ Len(printed') > answer.before /\ Len(printed') > Len(printed)
        /\ command = "list" => nextMarker' = Len(printed')
        /\ command # "list" /\ answer.truncated => nextMarker' = Len(Answered)
    BY <1>1, <1>2, <1>3, <1>5, <1>6, CallbackFacts
  <2>2. Answered' = Answered
    BY <1>1, <1>3, <1>6, <2>1, ConcatEmptySeq DEF Answered
  <2>3. Whole(Answered)'
    BY <1>1, <1>4, <2>2 DEF Whole
  <2>4. CalledBack'
    BY <1>1, <2>1 DEF CalledBack
  <2>5. answer'.before <= Len(printed')
    <3>1. Len(printed') \in Nat
      BY <1>2, <1>3, <2>1, LenProperties, ConcatProperties
    <3> QED
      BY <1>1, <1>2, <2>1, <3>1
  <2> QED
    BY <1>1, <1>4, <2>1, <2>2, <2>3, <2>4, <2>5 DEF ListInv
<1>7. CASE ~Full(batch)
  <2>1. collected' = batch /\ UNCHANGED <<isTruncated, nextMarker, printed>>
    BY <1>1, <1>7 DEF listed
  <2>2. Answered' = Answered
    BY <1>1, <1>5, <2>1 DEF Answered
  <2>3. Whole(Answered)' /\ (Whole(printed) => Whole(printed)')
    BY <1>1, <1>4, <2>1, <2>2 DEF Whole
  <2>4. CalledBack' = CalledBack
    BY <1>1, <2>1 DEF CalledBack
  <2> QED
    BY <1>1, <1>4, <2>1, <2>2, <2>3, <2>4 DEF ListInv
<1> QED
  BY <1>6, <1>7

\* What has been printed of a whole answer is whole for a `list`, whose
\* entries come in order.
LEMMA WholeOfFront ==
  ASSUME command = "list", NEW s \in Seq(Nat), NEW t \in Seq(Nat), Whole(s \o t),
         Len(entries) \in Nat
  PROVE  Whole(s)
<1>1. /\ Len(s) \in Nat /\ Len(t) \in Nat /\ DOMAIN s = 1 .. Len(s)
      /\ s \o t \in Seq(Nat) /\ Len(s \o t) = Len(s) + Len(t)
      /\ DOMAIN (s \o t) = 1 .. Len(s) + Len(t)
      /\ \A i \in 1 .. Len(s) + Len(t) : (s \o t)[i] = IF i <= Len(s) THEN s[i] ELSE t[i - Len(s)]
  BY ConcatProperties, LenProperties
<1>2. Len(s) + Len(t) <= Len(entries) /\ \A i \in DOMAIN (s \o t) : (s \o t)[i] = i
  BY <1>1 DEF Whole
<1>3. Len(s) <= Len(entries)
  BY <1>1, <1>2
<1>4. ASSUME NEW i \in 1 .. Len(s) PROVE s[i] = i
  <2>1. i \in 1 .. Len(s) + Len(t) /\ i <= Len(s)
    BY <1>1
  <2> QED
    BY <1>1, <1>2, <2>1
<1> QED
  BY <1>1, <1>3, <1>4, WholeOfOrdered

LEMMA ListComplete ==
  ASSUME TypeOK, OnlyItems, command # "get", ListInv, NEW code \in CurlCodes, Complete(code),
         late' => command = "list"
  PROVE  ListInv'
<1>1. /\ pc = "receive" /\ collected' = <<>>
      /\ UNCHANGED <<command, entries, maxkeys, answer, position>>
      /\ code = "OK" => answer.rest = <<>>
      /\ IF collected = <<>> THEN UNCHANGED listed ELSE ListCallback(collected)
      /\ statusG' = RecordCurlResult("OK", code)
      /\ IF statusG' \in Retryable THEN should_retry ELSE pc' = "answered" /\ UNCHANGED retriesG
      /\ late' = (late \/ (code # "OK" /\ Len(printed') + position > answer.before))
      /\ cut' = (code = "PARTIAL_FILE")
  BY DEF Complete, parameters, outfile
<1>2. /\ printed \in Seq(Nat) /\ collected \in Seq(Nat) /\ answer.rest \in Seq(Nat)
      /\ Len(printed) \in Nat /\ answer.before \in Nat /\ Len(entries) \in Nat /\ position \in Nat
      /\ late \in BOOLEAN
  BY LenProperties DEF TypeOK, Answers
<1>3. /\ Whole(Answered) /\ answer.before <= Len(printed)
      /\ answer.truncated <=> Len(Answered) < Len(entries)
      /\ Len(Answered) > answer.before \/ Len(Answered) = Len(entries)
      /\ ~CalledBack => Whole(printed) /\ nextMarker = Len(printed)
      /\ CalledBack => isTruncated = answer.truncated
      /\ command = "list" => nextMarker = Len(printed) /\ answer.next = 0
      /\ command # "list" /\ CalledBack /\ answer.truncated => nextMarker = Len(Answered)
  BY <1>1 DEF ListInv
<1>l. late => command = "list"
  BY <1>1
\* What holds when the last callback has been made, or there was none.
<1>4. /\ printed' \in Seq(Nat) /\ Answered = printed' \o answer.rest
      /\ command = "list" => nextMarker' = Len(printed')
      /\ Len(printed') > answer.before =>
           /\ isTruncated' = answer.truncated
           /\ command # "list" /\ answer.truncated => nextMarker' = Len(Answered)
      /\ ~(Len(printed') > answer.before) => Whole(printed)' /\ nextMarker' = Len(printed')
  <2>1. CASE collected = <<>>
    <3>1. UNCHANGED <<isTruncated, nextMarker, printed>>
      BY <1>1, <2>1 DEF listed
    <3>2. Answered = printed \o answer.rest
      BY <1>2, <2>1, ConcatEmptySeq DEF Answered
    <3>3. Whole(printed) => Whole(printed)'
      BY <1>1, <3>1 DEF Whole
    <3> QED
      BY <1>2, <1>3, <3>1, <3>2, <3>3 DEF CalledBack
  <2>2. CASE collected # <<>>
    <3>1. /\ printed' = printed \o collected /\ isTruncated' = answer.truncated
          /\ Answered = printed' \o answer.rest
          /\ Len(printed') > answer.before
          /\ command = "list" => nextMarker' = Len(printed')
          /\ command # "list" /\ answer.truncated => nextMarker' = Len(Answered)
      <4>1. ListCallback(collected) /\ Answered = printed \o (collected \o answer.rest)
        BY <1>1, <2>2 DEF Answered
      <4> QED
        BY <1>1, <1>2, <1>l, <2>2, <4>1, CallbackFacts
    <3>2. printed' \in Seq(Nat)
      BY <1>2, <3>1, ConcatProperties
    <3> QED
      BY <3>1, <3>2
  <2> QED
    BY <2>1, <2>2
<1>5. /\ Len(printed') \in Nat /\ Len(answer.rest) \in Nat
      /\ Len(Answered) = Len(printed') + Len(answer.rest)
  BY <1>2, <1>4, ConcatProperties, LenProperties
<1>6. pc' \in {"ask", "answered"} /\ (pc' = "ask" => statusG' \in Retryable)
  BY <1>1 DEF should_retry
<1>7. CASE code = "OK"
  <2>1. statusG' = "OK" /\ pc' = "answered"
    BY <1>1, <1>6, <1>7, Results
  <2>2. answer.rest = <<>> /\ Answered = printed'
    BY <1>1, <1>4, <1>7, ConcatEmptySeq
  <2>3. Whole(printed)'
    BY <1>1, <1>3, <2>2 DEF Whole
  <2>4. isTruncated' => nextMarker' = Len(printed')
    BY <1>4, <2>2
  <2>5. ASSUME Len(printed') < Len(entries) PROVE isTruncated'
    <3>1. Len(Answered) < Len(entries) /\ Len(Answered) # Len(entries)
      BY <1>2, <1>5, <2>2, <2>5
    <3>2. answer.truncated /\ Len(printed') > answer.before
      BY <1>3, <2>2, <3>1
    <3> QED
      BY <1>4, <3>2
  <2> QED
    BY <1>1, <2>1, <2>3, <2>4, <2>5 DEF ListInv
<1>8. CASE code # "OK"
  <2>1. Whole(printed)' /\ nextMarker' = Len(printed')
    <3>1. CASE command = "list"
      <4>1. Whole(printed')
        BY <1>2, <1>3, <1>4, <3>1, WholeOfFront
      <4> QED
        BY <1>1, <1>4, <3>1, <4>1 DEF Whole
    <3>2. CASE command # "list"
      <4>1. ~(Len(printed') + position > answer.before)
        BY <1>1, <1>8, <3>2
      <4>2. ~(Len(printed') > answer.before)
        BY <1>2, <1>5, <4>1
      <4> QED
        BY <1>4, <4>2
    <3> QED
      BY <3>1, <3>2
  <2>2. statusG' = "OK" => cut'
    BY <1>1, <1>8, Results
  <2> QED
    BY <1>1, <1>6, <2>1, <2>2 DEF ListInv
<1> QED
  BY <1>7, <1>8

LEMMA ListOthers ==
  ASSUME TypeOK, command # "get", ListInv, NextPage \/ Done \/ Finished
  PROVE  ListInv'
<1>1. UNCHANGED <<command, entries, maxkeys, collected, nextMarker, printed, statusG, cut>>
  BY DEF NextPage, Done, Finished, vars, parameters, listed, outfile, results
<1>2. Whole(printed) => Whole(printed)'
  BY <1>1 DEF Whole
<1>3. CASE NextPage
  BY <1>1, <1>2, <1>3 DEF NextPage, ListInv
<1>4. CASE Done
  BY <1>1, <1>2, <1>4 DEF Done, ListInv, listed
<1>5. CASE Finished
  BY <1>1, <1>2, <1>5 DEF Finished, vars, ListInv
<1> QED
  BY <1>3, <1>4, <1>5

LEMMA ListStep ==
  ASSUME TypeOK, OnlyItems, command # "get", late => command = "list", ListInv, Next,
         late' => command = "list"
  PROVE  ListInv'
<1>1. ~DataWritten /\ ~DataNotWritten
  BY DEF DataWritten, DataNotWritten
<1> QED
  BY <1>1, ListAsk, ListEntryComes, ListComplete, ListOthers DEF Next

-----------------------------------------------------------------------------
LEMMA InvStep == IInv /\ [Next]_vars => IInv'
<1> SUFFICES ASSUME IInv, [Next]_vars PROVE IInv'
  OBVIOUS
<1>1. CASE Next
  <2>1. UNCHANGED <<command, entries, maxkeys>>
    BY <1>1, ParametersStay DEF parameters
  <2>2. TypeOK'
    BY <1>1, TypeStep DEF IInv, GetInv
  <2>3. OnlyItems'
    BY <2>1 DEF IInv, OnlyItems, IsItem
  <2>4. command = "get" => GetInv'
    BY <1>1, GetStep DEF IInv
  <2>5. late => late'
    <3>1. ASSUME NEW code, Complete(code) PROVE late => late'
      BY <3>1 DEF Complete
    <3> QED
      BY <1>1, <3>1 DEF Next, Ask, EntryComes, DataWritten, DataNotWritten, NextPage, Done,
                        Finished, vars, results
  <2>6. command # "get" /\ (late' => command = "list") => ListInv'
    BY <1>1, <2>5, ListStep DEF IInv
  <2> QED
    BY <2>1, <2>2, <2>3, <2>4, <2>6 DEF IInv
<1>2. CASE UNCHANGED vars
  <2>1. TypeOK' /\ OnlyItems'
    BY <1>2 DEF IInv, vars, TypeOK, OnlyItems, IsItem
  <2>2. GetInv => GetInv'
    BY <1>2 DEF vars, GetInv, Arrived, InFile
  <2>3. ListInv => ListInv'
    BY <1>2 DEF vars, ListInv, Whole, Answered, CalledBack
  <2> QED
    BY <1>2, <2>1, <2>2, <2>3 DEF IInv, vars
<1> QED
  BY <1>1, <1>2

\* The inductive invariant, whatever the number of entries, the size of a page
\* and of a batch, the maximum, the disk and the number of retries.
THEOREM Invariance == Spec => []IInv
<1> QED
  BY InitInv, InvStep, PTL DEF Spec

\* No entry is left out of what `list`, `listmultiparts` and `listparts` print,
\* and none is printed twice, over all the pages and the batches they come in;
\* a listing without a maximum that is reported to be OK is whole, unless its
\* last answer was cut short (src/src/s3.c, list_bucket, list_multipart_uploads
\* and list_parts).  Once a request part of whose answer was printed has been
\* repeated this is said of `list` without a delimiter only: the others then do
\* leave entries out, or start again.
THEOREM EntriesListedOnce == Spec => []ListedOnce
<1>1. IInv => ListedOnce
  <2> SUFFICES ASSUME IInv, command # "get", pc \in {"answered", "done"}, late => command = "list"
               PROVE  /\ ToSet(printed) = 1 .. Len(printed)
                      /\ pc = "done" /\ statusG = "OK" /\ maxkeys = 0 /\ ~cut =>
                           Len(printed) = Len(entries)
    BY DEF ListedOnce
  <2>1. /\ Whole(printed)
        /\ statusG = "OK" /\ ~cut /\ Len(printed) < Len(entries) => isTruncated
        /\ pc = "done" /\ statusG = "OK" /\ maxkeys = 0 => ~isTruncated
    BY DEF IInv, ListInv
  <2>2. Len(printed) \in Nat /\ Len(entries) \in Nat
    BY LenProperties DEF IInv, TypeOK
  <2> QED
    BY <2>1, <2>2 DEF Whole
<1> QED
  BY <1>1, Invariance, PTL

\* A get that is reported to be OK, and was not cut short, has left the whole
\* object in the file, however often it was repeated (src/src/s3.c, get_object
\* and getObjectDataCallback).
THEOREM FileIsWhole == Spec => []SavedWhole
<1>1. IInv => SavedWhole
  <2> SUFFICES ASSUME IInv, command = "get", pc = "done", statusG = "OK", ~cut
               PROVE  /\ position >= Len(entries)
                      /\ SubSeq(file, position - Len(entries) + 1, position)
                           = [i \in DOMAIN entries |-> i]
                      /\ ~late => position = Len(entries)
    BY DEF SavedWhole
  <2> DEFINE L == Len(entries)
  <2>1. /\ Arrived = L /\ InFile(Arrived) /\ (~late => answer.before = 0)
        /\ position <= Len(file)
    BY DEF IInv, GetInv
  <2>2. /\ L \in Nat /\ DOMAIN entries = 1 .. L /\ position \in Nat /\ answer.before \in Nat
        /\ file \in Seq(Nat) /\ Len(file) \in Nat
    BY LenProperties DEF IInv, TypeOK, Answers
  <2> HIDE DEF L
  <2>3. position = answer.before + L
    BY <2>1, <2>2 DEF Arrived
  <2>4. /\ position >= L /\ (~late => position = L)
        /\ position - L + 1 = answer.before + 1
    BY <2>1, <2>2, <2>3
  <2> DEFINE part == SubSeq(file, answer.before + 1, position)
  <2>5. part = [i \in 1 .. L |-> i]
    <3>1. \A i \in 1 .. L : file[answer.before + i] = i
      BY <2>1 DEF InFile
    <3>2. \A i \in answer.before + 1 .. position : file[i] \in Nat
      <4>1. position <= Len(file) /\ DOMAIN file = 1 .. Len(file)
        BY <2>1, <2>2, LenProperties
      <4>2. \A i \in answer.before + 1 .. position : i \in DOMAIN file
        BY <2>2, <4>1
      <4> QED
        BY <2>2, <4>2
    <3>3. position - (answer.before + 1) + 1 = L /\ answer.before + 1 <= position + 1
      BY <2>2, <2>3
    <3>4. /\ part \in Seq(Nat) /\ Len(part) = L
          /\ \A i \in 1 .. L : part[i] = file[answer.before + 1 + i - 1]
      <4> DEFINE m == answer.before + 1
      <4>1. m \in Int /\ position \in Int /\ position - m + 1 = L
        BY <2>2, <3>3
      <4>2. m <= position \/ L = 0
        BY <2>2, <3>3
      <4> HIDE DEF m
      <4>3. /\ SubSeq(file, m, position) \in Seq(Nat)
            /\ Len(SubSeq(file, m, position)) = IF m <= position THEN position - m + 1 ELSE 0
            /\ \A i \in 1 .. position - m + 1 : SubSeq(file, m, position)[i] = file[m + i - 1]
        BY <3>2, <4>1, SubSeqProperties DEF m
      <4>4. Len(SubSeq(file, m, position)) = L
        BY <4>1, <4>2, <4>3
      <4> QED
        BY <4>1, <4>3, <4>4 DEF m
    <3>5. \A i \in 1 .. L : answer.before + 1 + i - 1 = answer.before + i
      BY <2>2
    <3> HIDE DEF part
    <3>6. \A i \in 1 .. L : part[i] = i
      BY <3>1, <3>4, <3>5
    <3> QED
      BY <3>4, <3>6
  <2>6. SubSeq(file, position - L + 1, position) = [i \in DOMAIN entries |-> i]
    BY <2>2, <2>4, <2>5
  <2> QED
    BY <2>4, <2>6 DEF L
<1> QED
  BY <1>1, Invariance, PTL
=============================================================================
