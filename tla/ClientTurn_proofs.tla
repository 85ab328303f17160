--------------------------- MODULE ClientTurn_proofs ---------------------------
(***************************************************************************)
(* Safety of a client's session, for every set of replies, every opening   *)
(* and every number of requests.                                           *)
(*                                                                         *)
(* Three invariants carry it.  OpenedInv and MarkupInv say what each       *)
(* splitter has shown and holds back of the chunks delivered so far;       *)
(* SessionInv says what the client's history has grown from, and what each *)
(* request therefore declares.  The parts before them are facts about the  *)
(* text operators, which search by the least or greatest position of a     *)
(* set.  What a stream says in comparison with the whole reply, and how a  *)
(* reply comes back, is the subject of ClientReply_proofs.                 *)
(***************************************************************************)
EXTENDS ClientTurn, FiniteSetTheorems, SequenceTheorems, WellFoundedInduction, TLAPS

-----------------------------------------------------------------------------
(* Least and greatest numbers.                                             *)

\* A non-empty set of numbers has a least one, and a bounded one a greatest.
LEMMA Least ==
    ASSUME NEW S, S \subseteq Nat, S # {}
    PROVE  \E m \in S : \A n \in S : m <= n
<1> DEFINE R == {p \in Nat \X Nat : p[1] < p[2]}
<1>1. IsWellFoundedOn(R, Nat)
    BY ONLY NatLessThanWellFounded DEF OpToRel
<1> HIDE DEF R
<1>2. PICK m \in S : \A n \in S : ~ (<<n, m>> \in R)
    BY <1>1, WFMin
<1>3. \A n \in S : ~ (n < m)
    BY <1>2 DEF R
<1> QED
    BY <1>3

LEMMA MinFacts ==
    ASSUME NEW S, S \subseteq Nat, S # {}
    PROVE  /\ Min(S) \in S
           /\ \A n \in S : Min(S) <= n
BY Least DEF Min

LEMMA MaxFacts ==
    ASSUME NEW S, S \subseteq Nat, S # {}, NEW top \in Nat, \A n \in S : n <= top
    PROVE  /\ Max(S) \in S
           /\ \A n \in S : n <= Max(S)
<1> DEFINE D == {k \in Nat : k <= top /\ top - k \in S}
<1>1. D \subseteq Nat /\ D # {}
    <2>1. PICK n \in S : TRUE
        OBVIOUS
    <2>2. top - n \in D
        BY <2>1
    <2> QED
        BY <2>2
<1>2. PICK k \in D : \A j \in D : k <= j
    BY <1>1, Least
<1>3. \A n \in S : top - n \in D
    OBVIOUS
<1>4. top - k \in S /\ \A n \in S : n <= top - k
    BY <1>2, <1>3
<1> QED
    BY <1>4 DEF Max

-----------------------------------------------------------------------------
(* Pick: the elements at a set of positions, in their order.               *)

Count(at, n) == Cardinality(at \cap 1 .. n)

\* How many chosen positions there are up to each position.
LEMMA CountFacts ==
    ASSUME NEW n \in Nat, NEW at, at \subseteq 1 .. n
    PROVE  /\ IsFiniteSet(at) /\ Cardinality(at) \in 0 .. n
           /\ \A i \in Nat : Count(at, i) \in Nat
           /\ Count(at, 0) = 0 /\ Count(at, n) = Cardinality(at)
           /\ \A i \in Nat \ {0} :
                 Count(at, i) = Count(at, i - 1) + (IF i \in at THEN 1 ELSE 0)
           /\ \A i, j \in Nat : i <= j => Count(at, i) <= Count(at, j)
<1>1. IsFiniteSet(1 .. n) /\ Cardinality(1 .. n) = n
    BY FS_Interval
<1>2. IsFiniteSet(at) /\ Cardinality(at) \in 0 .. n
    <2>1. IsFiniteSet(at) /\ Cardinality(at) <= n
        BY <1>1, FS_Subset
    <2> QED
        BY <2>1, FS_CardinalityType
<1>p. \A i \in at : i \in Nat /\ 1 <= i /\ i <= n
    OBVIOUS
<1>3. ASSUME NEW i \in Nat
      PROVE  IsFiniteSet(at \cap 1 .. i) /\ Count(at, i) \in Nat
    BY <1>2, FS_Subset, FS_CardinalityType DEF Count
<1>4. Count(at, 0) = 0
    <2>1. at \cap 1 .. 0 = {}
        BY <1>p
    <2> QED
        BY <2>1, FS_EmptySet DEF Count
<1>5. Count(at, n) = Cardinality(at)
    <2>1. at \cap 1 .. n = at
        BY <1>p
    <2> QED
        BY <2>1 DEF Count
<1>6. ASSUME NEW i \in Nat \ {0}
      PROVE  Count(at, i) = Count(at, i - 1) + (IF i \in at THEN 1 ELSE 0)
    <2> DEFINE A == at \cap 1 .. i   B == at \cap 1 .. (i - 1)
    <2>1. IsFiniteSet(B) /\ Cardinality(B) \in Nat
        BY <1>3 DEF Count
    <2>2. CASE i \in at
        <3>1. A = B \cup {i} /\ i \notin B
            BY <1>p, <2>2
        <3> HIDE DEF A, B
        <3>2. Cardinality(A) = Cardinality(B) + 1
            BY <2>1, <3>1, FS_AddElement
        <3> QED
            BY <2>2, <3>2 DEF Count, A, B
    <2>3. CASE i \notin at
        <3>1. A = B
            BY <1>p, <2>3
        <3> HIDE DEF A, B
        <3>2. Cardinality(A) = Cardinality(B)
            BY <3>1
        <3> QED
            BY <2>1, <2>3, <3>2 DEF Count, A, B
    <2> QED
        BY <2>2, <2>3
<1>7. ASSUME NEW i \in Nat, NEW j \in Nat, i <= j
      PROVE  Count(at, i) <= Count(at, j)
    <2> DEFINE A == at \cap 1 .. i   B == at \cap 1 .. j
    <2>1. A \subseteq B /\ IsFiniteSet(B)
        BY <1>p, <1>3, <1>7
    <2> HIDE DEF A, B
    <2>2. Cardinality(A) <= Cardinality(B)
        BY <2>1, FS_Subset
    <2> QED
        BY <2>2 DEF Count, A, B
<1> QED
    BY <1>2, <1>3, <1>4, <1>5, <1>6, <1>7

\* The chosen positions are counted off one by one.
LEMMA NthFacts ==
    ASSUME NEW n \in Nat, NEW at, at \subseteq 1 .. n
    PROVE  /\ \A k \in 1 .. Cardinality(at) :
                 Nth(at, k) \in at /\ Count(at, Nth(at, k)) = k
           /\ \A i \in at : /\ Count(at, i) \in 1 .. Cardinality(at)
                            /\ Nth(at, Count(at, i)) = i
<1>0. /\ \A i \in Nat : Count(at, i) \in Nat
      /\ Count(at, 0) = 0 /\ Count(at, n) = Cardinality(at)
      /\ \A i \in Nat : i # 0 =>
            Count(at, i) = Count(at, i - 1) + (IF i \in at THEN 1 ELSE 0)
      /\ \A i, j \in Nat : i <= j => Count(at, i) <= Count(at, j)
    BY CountFacts
<1>p. \A i \in at : i \in Nat \ {0} /\ i - 1 \in Nat /\ i <= n
    OBVIOUS
<1>1. \A i, j \in at : i < j => Count(at, i) < Count(at, j)
    <2> SUFFICES ASSUME NEW i \in at, NEW j \in at, i < j
                 PROVE  Count(at, i) < Count(at, j)
        OBVIOUS
    <2>1. Count(at, i) <= Count(at, j - 1)
        BY <1>0, <1>p
    <2>2. Count(at, j) = Count(at, j - 1) + 1
        BY <1>0, <1>p
    <2> QED
        BY <2>1, <2>2, <1>0, <1>p
<1>2. \A i, j \in at : Count(at, i) = Count(at, j) => i = j
    BY <1>0, <1>p, <1>1
<1>3. ASSUME NEW k \in 1 .. Cardinality(at)
      PROVE  \E i \in at : Count(at, i) = k
    <2> DEFINE S == {i \in Nat : Count(at, i) >= k}
    <2>1. n \in S
        BY <1>0
    <2>2. PICK i \in S : \A j \in S : i <= j
        BY <2>1, Least
    <2>3. i # 0
        BY <1>0
    <2>4. i - 1 \in Nat /\ i - 1 \notin S
        BY <2>2, <2>3
    <2>5. Count(at, i - 1) < k /\ Count(at, i) >= k
        BY <1>0, <2>2, <2>4
    <2>6. Count(at, i) = Count(at, i - 1) + (IF i \in at THEN 1 ELSE 0)
        BY <1>0, <2>3
    <2>7. Count(at, i) \in Nat /\ Count(at, i - 1) \in Nat
        BY <1>0, <2>4
    <2> QED
        BY <2>5, <2>6, <2>7
<1>4. ASSUME NEW k \in 1 .. Cardinality(at)
      PROVE  Nth(at, k) \in at /\ Count(at, Nth(at, k)) = k
    BY <1>3 DEF Nth, Count
<1>5. ASSUME NEW i \in at
      PROVE  /\ Count(at, i) \in 1 .. Cardinality(at)
             /\ Nth(at, Count(at, i)) = i
    <2>1. Count(at, i) \in 1 .. Cardinality(at)
        <3>1. Count(at, i) = Count(at, i - 1) + 1 /\ Count(at, i - 1) \in Nat
            BY <1>0, <1>p
        <3>2. Count(at, i) <= Count(at, n)
            BY <1>0, <1>p
        <3> QED
            BY <1>0, <1>p, <3>1, <3>2
    <2>2. Nth(at, Count(at, i)) \in at /\ Count(at, Nth(at, Count(at, i))) = Count(at, i)
        BY <2>1, <1>4
    <2> QED
        BY <2>1, <2>2, <1>2
<1> QED
    BY <1>4, <1>5

\* What is picked is a text of the chosen elements, in their order and without
\* a gap between two that follow each other.
Picked(T, s, at, p) ==
    /\ p \in Seq(T) /\ Len(p) \in Nat
    /\ Len(p) = Cardinality(at) /\ Cardinality(at) \in 0 .. Len(s)
    /\ \A k \in 1 .. Len(p) : Nth(at, k) \in at /\ p[k] = s[Nth(at, k)]
    /\ \A k, l \in 1 .. Len(p) : k < l => Nth(at, k) < Nth(at, l)
    /\ \A i \in at : \E k \in 1 .. Len(p) : Nth(at, k) = i

LEMMA PickedFacts ==
    ASSUME NEW T, NEW s \in Seq(T), NEW at, at \subseteq 1 .. Len(s)
    PROVE  Picked(T, s, at, Pick(s, at))
<1> DEFINE p == Pick(s, at)   n == Cardinality(at)
<1>l. Len(s) \in Nat
    BY LenProperties
<1>0. /\ \A k \in 1 .. n : Nth(at, k) \in at /\ Count(at, Nth(at, k)) = k
      /\ \A i \in at : Count(at, i) \in 1 .. n /\ Nth(at, Count(at, i)) = i
    BY ONLY <1>l, NthFacts, at \subseteq 1 .. Len(s)
<1>1. /\ n \in 0 .. Len(s)
      /\ \A i, j \in Nat : i <= j => Count(at, i) <= Count(at, j)
    BY ONLY <1>l, CountFacts, at \subseteq 1 .. Len(s)
<1>2. ASSUME NEW k \in 1 .. n
      PROVE  Nth(at, k) \in at /\ p[k] = s[Nth(at, k)] /\ p[k] \in T
    <2>1. Nth(at, k) \in at /\ Nth(at, k) \in 1 .. Len(s)
        BY <1>0
    <2>2. p[k] = s[Nth(at, k)]
        BY DEF Pick
    <2> QED
        BY <2>1, <2>2, ElementOfSeq
<1>3. p \in [1 .. n -> T]
    BY <1>2 DEF Pick
<1>4. p \in Seq(T) /\ Len(p) = n
    BY <1>1, <1>3
<1>a. \A i \in at : i \in Nat
    BY <1>l
<1>5. ASSUME NEW k \in 1 .. n, NEW l \in 1 .. n, k < l
      PROVE  Nth(at, k) < Nth(at, l)
    <2>1. Nth(at, k) \in at /\ Nth(at, l) \in at
        BY <1>0
    <2>2. Count(at, Nth(at, k)) = k /\ Count(at, Nth(at, l)) = l
        BY <1>0
    <2>3. Nth(at, k) \in Nat /\ Nth(at, l) \in Nat
        BY <1>l, <1>a, <2>1
    <2>4. Nth(at, l) <= Nth(at, k) => l <= k
        BY <2>2, <2>3, <1>1
    <2> QED
        BY <2>3, <2>4, <1>1, <1>5
<1>6. \A i \in at : \E k \in 1 .. n : Nth(at, k) = i
    BY <1>0
<1>7. n \in Nat
    BY <1>l, <1>1
<1> HIDE DEF p, n
<1>8. Picked(T, s, at, p)
    BY ONLY <1>1, <1>2, <1>4, <1>5, <1>6, <1>7 DEF n, Picked
<1> QED
    BY <1>8 DEF p

LEMMA PickFacts ==
    ASSUME NEW T, NEW s \in Seq(T), NEW at, at \subseteq 1 .. Len(s)
    PROVE  /\ Pick(s, at) \in Seq(T)
           /\ Len(Pick(s, at)) = Cardinality(at) /\ Cardinality(at) \in 0 .. Len(s)
           /\ \A k \in 1 .. Len(Pick(s, at)) :
                 Nth(at, k) \in at /\ Pick(s, at)[k] = s[Nth(at, k)]
           /\ \A k, l \in 1 .. Len(Pick(s, at)) : k < l => Nth(at, k) < Nth(at, l)
           /\ \A i \in at : \E k \in 1 .. Len(Pick(s, at)) : Nth(at, k) = i
<1>1. Picked(T, s, at, Pick(s, at))
    BY PickedFacts
<1> QED
    BY ONLY <1>1 DEF Picked

-----------------------------------------------------------------------------
(* Searching and cutting a text.                                           *)

\* Cutting a text at a position.
LEMMA CutFacts ==
    ASSUME NEW T, NEW s \in Seq(T), NEW i \in 1 .. Len(s) + 1
    PROVE  /\ Upto(s, i) \in Seq(T) /\ Len(Upto(s, i)) = i - 1
           /\ \A k \in 1 .. i - 1 : Upto(s, i)[k] = s[k]
           /\ From(s, i) \in Seq(T) /\ Len(From(s, i)) = Len(s) - i + 1
           /\ \A k \in 1 .. Len(s) - i + 1 : From(s, i)[k] = s[i + k - 1]
           /\ Upto(s, i) \o From(s, i) = s
<1>1. Len(s) \in Nat /\ \A k \in 1 .. Len(s) : s[k] \in T
    BY LenProperties, ElementOfSeq
<1>2. PICK n \in Nat : n = i - 1
    OBVIOUS
<1>3. /\ SubSeq(s, 1, n) \in Seq(T) /\ Len(SubSeq(s, 1, n)) = n
      /\ \A k \in 1 .. n : SubSeq(s, 1, n)[k] = s[k]
    BY <1>1, <1>2, SubSeqProperties
<1>4. /\ SubSeq(s, i, Len(s)) \in Seq(T) /\ Len(SubSeq(s, i, Len(s))) = Len(s) - i + 1
      /\ \A k \in 1 .. Len(s) - i + 1 : SubSeq(s, i, Len(s))[k] = s[i + k - 1]
    BY <1>1, SubSeqProperties
<1>5. SubSeq(s, 1, n) \o SubSeq(s, i, Len(s)) = s
    <2>1. SubSeq(s, 1, n) \o SubSeq(s, n + 1, Len(s)) = SubSeq(s, 1, Len(s))
        <3>1. /\ 1 \in 1 .. Len(s) + 1 /\ n \in 1 - 1 .. Len(s)
              /\ Len(s) \in n .. Len(s) /\ s \in Seq(T)
            BY <1>1, <1>2
        <3> QED
            BY ONLY <3>1, ConcatAdjacentSubSeq
    <2> QED
        <3>1. n + 1 = i /\ SubSeq(s, 1, Len(s)) = s
            BY <1>2, SubSeqFull
        <3> QED
            BY <2>1, <3>1
<1> QED
    BY <1>2, <1>3, <1>4, <1>5 DEF Upto, From

\* A tag is found where its pieces stand one after the other.
LEMMA HitFacts ==
    ASSUME NEW T, NEW s \in Seq(T), NEW tag \in Seq(T), NEW h
    PROVE  h \in Hits(s, tag) <=>
               /\ h \in 1 .. Len(s) - Len(tag) + 1
               /\ \A k \in 1 .. Len(tag) : s[h + k - 1] = tag[k]
<1>1. Len(s) \in Nat /\ Len(tag) \in Nat /\ \A k \in 1 .. Len(s) : s[k] \in T
    BY LenProperties, ElementOfSeq
<1> SUFFICES ASSUME h \in 1 .. Len(s) - Len(tag) + 1
             PROVE  SubSeq(s, h, h + Len(tag) - 1) = tag <=>
                        \A k \in 1 .. Len(tag) : s[h + k - 1] = tag[k]
    BY DEF Hits
<1>2. h + Len(tag) - 1 \in Int /\ h \in Int
    BY <1>1
<1>n. PICK n \in Int : n = h + Len(tag) - 1
    BY ONLY <1>2
<1> DEFINE p == SubSeq(s, h, n)
<1>3. /\ p \in Seq(T) /\ Len(p) = Len(tag)
      /\ \A k \in 1 .. Len(tag) : p[k] = s[h + k - 1]
    <2>1. h \in Int /\ \A k \in h .. n : s[k] \in T
        BY <1>1, <1>2, <1>n
    <2>2. /\ p \in Seq(T) /\ Len(p) = IF h <= n THEN n - h + 1 ELSE 0
          /\ \A k \in 1 .. n - h + 1 : p[k] = s[h + k - 1]
        BY ONLY <2>1, n \in Int, SubSeqProperties
    <2> QED
        BY <1>1, <1>2, <1>n, <2>2
<1>4. p = tag <=> \A k \in 1 .. Len(tag) : p[k] = tag[k]
    BY <1>3, SeqEqual
<1> QED
    BY <1>n, <1>3, <1>4

LEMMA FindFacts ==
    ASSUME NEW T, NEW s \in Seq(T), NEW tag \in Seq(T), tag # <<>>
    PROVE  /\ Find(s, tag) \in 0 .. Len(s)
           /\ Find(s, tag) = 0 <=> Hits(s, tag) = {}
           /\ Find(s, tag) # 0 => /\ Find(s, tag) \in Hits(s, tag)
                                  /\ \A h \in Hits(s, tag) : Find(s, tag) <= h
<1>1. Len(s) \in Nat /\ Len(tag) \in Nat \ {0}
    BY LenProperties, EmptySeq
<1>2. Hits(s, tag) \subseteq 1 .. Len(s)
    BY <1>1 DEF Hits
<1>3. CASE Hits(s, tag) = {}
    BY <1>1, <1>3 DEF Find
<1>4. CASE Hits(s, tag) # {}
    <2>1. Hits(s, tag) \subseteq Nat
        BY <1>2
    <2>2. Min(Hits(s, tag)) \in Hits(s, tag) /\ \A h \in Hits(s, tag) : Min(Hits(s, tag)) <= h
        BY <1>4, <2>1, MinFacts
    <2> QED
        BY <1>2, <1>4, <2>2 DEF Find
<1> QED
    BY <1>3, <1>4

LEMMA TagsAreTexts ==
    /\ OpenCall \in Seq(Pieces) /\ Len(OpenCall) = 2 /\ OpenCall # <<>>
    /\ CloseThink \in Seq(Pieces) /\ Len(CloseThink) = 3 /\ CloseThink # <<>>
    /\ Invoke \in Seq(Pieces) /\ Len(Invoke) = 2 /\ Invoke # <<>>
    /\ EndInvoke \in Seq(Pieces) /\ Len(EndInvoke) = 3 /\ EndInvoke # <<>>
BY DEF OpenCall, CloseThink, Invoke, EndInvoke, Pieces

\* The pieces of each tag.
LEMMA OpenCallHits ==
    ASSUME NEW s \in Seq(Pieces), NEW h
    PROVE  h \in Hits(s, OpenCall) <=>
               h \in 1 .. Len(s) - 1 /\ s[h] = "<" /\ s[h + 1] = "tool_call>"
<1>1. h \in Hits(s, OpenCall) <=>
          h \in 1 .. Len(s) - 1 /\ \A k \in 1 .. 2 : s[h + k - 1] = OpenCall[k]
    <2>1. h \in Hits(s, OpenCall) <=>
              /\ h \in 1 .. Len(s) - Len(OpenCall) + 1
              /\ \A k \in 1 .. Len(OpenCall) : s[h + k - 1] = OpenCall[k]
        <3>1. PICK tag \in Seq(Pieces) : tag = OpenCall
            BY TagsAreTexts
        <3>2. h \in Hits(s, tag) <=>
                  /\ h \in 1 .. Len(s) - Len(tag) + 1
                  /\ \A k \in 1 .. Len(tag) : s[h + k - 1] = tag[k]
            BY ONLY s \in Seq(Pieces), tag \in Seq(Pieces), HitFacts
        <3> QED
            BY <3>1, <3>2
    <2> QED
        BY <2>1, TagsAreTexts, LenProperties
<1>2. h \in 1 .. Len(s) - 1 =>
          ((\A k \in 1 .. 2 : s[h + k - 1] = OpenCall[k]) <=>
              s[h] = "<" /\ s[h + 1] = "tool_call>")
    <2> SUFFICES ASSUME h \in Int
                 PROVE (\A k \in 1 .. 2 : s[h + k - 1] = OpenCall[k]) <=>
                           s[h] = "<" /\ s[h + 1] = "tool_call>"
        BY LenProperties
    <2>1. h + 1 - 1 = h /\ h + 2 - 1 = h + 1 /\ 1 .. 2 = {1, 2}
        OBVIOUS
    <2> QED
        BY <2>1 DEF OpenCall
<1> QED
    BY <1>1, <1>2

LEMMA WrapperHits ==
    ASSUME NEW s \in Seq(Pieces), NEW h
    PROVE  /\ h \in Hits(s, Invoke) <=>
                  h \in 1 .. Len(s) - 1 /\ s[h] = "<" /\ s[h + 1] = "invoke>"
           /\ h \in Hits(s, EndInvoke) <=>
                  /\ h \in 1 .. Len(s) - 2
                  /\ s[h] = "<" /\ s[h + 1] = "/" /\ s[h + 2] = "invoke>"
<1>1. h \in Hits(s, Invoke) <=>
          h \in 1 .. Len(s) - 1 /\ \A k \in 1 .. 2 : s[h + k - 1] = Invoke[k]
    <2>1. h \in Hits(s, Invoke) <=>
              /\ h \in 1 .. Len(s) - Len(Invoke) + 1
              /\ \A k \in 1 .. Len(Invoke) : s[h + k - 1] = Invoke[k]
        <3>1. PICK tag \in Seq(Pieces) : tag = Invoke
            BY TagsAreTexts
        <3>2. h \in Hits(s, tag) <=>
                  /\ h \in 1 .. Len(s) - Len(tag) + 1
                  /\ \A k \in 1 .. Len(tag) : s[h + k - 1] = tag[k]
            BY ONLY s \in Seq(Pieces), tag \in Seq(Pieces), HitFacts
        <3> QED
            BY <3>1, <3>2
    <2> QED
        BY <2>1, TagsAreTexts, LenProperties
<1>2. h \in Hits(s, EndInvoke) <=>
          h \in 1 .. Len(s) - 2 /\ \A k \in 1 .. 3 : s[h + k - 1] = EndInvoke[k]
    <2>1. h \in Hits(s, EndInvoke) <=>
              /\ h \in 1 .. Len(s) - Len(EndInvoke) + 1
              /\ \A k \in 1 .. Len(EndInvoke) : s[h + k - 1] = EndInvoke[k]
        <3>1. PICK tag \in Seq(Pieces) : tag = EndInvoke
            BY TagsAreTexts
        <3>2. h \in Hits(s, tag) <=>
                  /\ h \in 1 .. Len(s) - Len(tag) + 1
                  /\ \A k \in 1 .. Len(tag) : s[h + k - 1] = tag[k]
            BY ONLY s \in Seq(Pieces), tag \in Seq(Pieces), HitFacts
        <3> QED
            BY <3>1, <3>2
    <2> QED
        BY <2>1, TagsAreTexts, LenProperties
<1>3. ASSUME h \in Int
      PROVE  /\ (\A k \in 1 .. 2 : s[h + k - 1] = Invoke[k]) <=>
                    s[h] = "<" /\ s[h + 1] = "invoke>"
             /\ (\A k \in 1 .. 3 : s[h + k - 1] = EndInvoke[k]) <=>
                    s[h] = "<" /\ s[h + 1] = "/" /\ s[h + 2] = "invoke>"
    <2>1. /\ h + 1 - 1 = h /\ h + 2 - 1 = h + 1 /\ h + 3 - 1 = h + 2
          /\ 1 .. 2 = {1, 2} /\ 1 .. 3 = {1, 2, 3}
        BY <1>3
    <2> QED
        BY <2>1 DEF Invoke, EndInvoke
<1>4. h \in 1 .. Len(s) - 1 => h \in Int
    BY LenProperties
<1>5. h \in 1 .. Len(s) - 2 => h \in Int
    BY LenProperties
<1> QED
    BY <1>1, <1>2, <1>3, <1>4, <1>5

LEMMA CloseThinkHits ==
    ASSUME NEW s \in Seq(Pieces), NEW h
    PROVE  h \in Hits(s, CloseThink) <=>
               /\ h \in 1 .. Len(s) - 2
               /\ s[h] = "<" /\ s[h + 1] = "/" /\ s[h + 2] = "think>"
<1>1. h \in Hits(s, CloseThink) <=>
          h \in 1 .. Len(s) - 2 /\ \A k \in 1 .. 3 : s[h + k - 1] = CloseThink[k]
    <2>1. h \in Hits(s, CloseThink) <=>
              /\ h \in 1 .. Len(s) - Len(CloseThink) + 1
              /\ \A k \in 1 .. Len(CloseThink) : s[h + k - 1] = CloseThink[k]
        <3>1. PICK tag \in Seq(Pieces) : tag = CloseThink
            BY TagsAreTexts
        <3>2. h \in Hits(s, tag) <=>
                  /\ h \in 1 .. Len(s) - Len(tag) + 1
                  /\ \A k \in 1 .. Len(tag) : s[h + k - 1] = tag[k]
            BY ONLY s \in Seq(Pieces), tag \in Seq(Pieces), HitFacts
        <3> QED
            BY <3>1, <3>2
    <2> QED
        BY <2>1, TagsAreTexts, LenProperties
<1>2. ASSUME h \in Int
      PROVE  (\A k \in 1 .. 3 : s[h + k - 1] = CloseThink[k]) <=>
                    s[h] = "<" /\ s[h + 1] = "/" /\ s[h + 2] = "think>"
    <2>1. /\ h + 1 - 1 = h /\ h + 2 - 1 = h + 1 /\ h + 3 - 1 = h + 2
          /\ 1 .. 3 = {1, 2, 3}
        BY <1>2
    <2> QED
        BY <2>1 DEF CloseThink
<1>3. h \in 1 .. Len(s) - 2 => h \in Int
    BY LenProperties
<1> QED
    BY <1>1, <1>2, <1>3

\* Line breaks are stripped from an end, and nothing else.
LEMMA LStripFacts ==
    ASSUME NEW T, NEW s \in Seq(T)
    PROVE  \E k \in 1 .. Len(s) + 1 :
               /\ LStrip(s) = From(s, k)
               /\ \A j \in 1 .. k - 1 : s[j] = "nl"
               /\ k <= Len(s) => s[k] # "nl"
<1>1. Len(s) \in Nat /\ DOMAIN s = 1 .. Len(s) /\ Inked(s) \subseteq Nat
    BY LenProperties DEF Inked
<1>2. CASE Inked(s) = {}
    <2>1. LStrip(s) = <<>> /\ \A j \in 1 .. Len(s) : s[j] = "nl"
        BY <1>1, <1>2 DEF LStrip, Inked
    <2>2. From(s, Len(s) + 1) = <<>>
        BY <1>1, SubSeqEmpty DEF From
    <2>3. Len(s) + 1 \in 1 .. Len(s) + 1 /\ Len(s) + 1 - 1 = Len(s)
        BY <1>1
    <2> WITNESS Len(s) + 1 \in 1 .. Len(s) + 1
    <2> QED
        BY <1>1, <2>1, <2>2, <2>3
<1>3. CASE Inked(s) # {}
    <2> DEFINE k == Min(Inked(s))
    <2>1. k \in Inked(s) /\ \A j \in Inked(s) : k <= j
        BY <1>1, <1>3, MinFacts
    <2>2. k \in 1 .. Len(s) /\ s[k] # "nl"
        BY <1>1, <2>1 DEF Inked
    <2>3. LStrip(s) = From(s, k)
        BY <1>3 DEF LStrip
    <2>4. \A j \in 1 .. k - 1 : s[j] = "nl"
        <3> HIDE DEF k
        <3> QED
            BY <1>1, <2>1, <2>2 DEF Inked
    <2> HIDE DEF k
    <2>5. k \in 1 .. Len(s) + 1
        BY <1>1, <2>2
    <2> QED
        BY <2>2, <2>3, <2>4, <2>5
<1> QED
    BY <1>2, <1>3

LEMMA RStripFacts ==
    ASSUME NEW T, NEW s \in Seq(T)
    PROVE  \E k \in 0 .. Len(s) :
               /\ RStrip(s) = Upto(s, k + 1)
               /\ \A j \in k + 1 .. Len(s) : s[j] = "nl"
               /\ k > 0 => s[k] # "nl"
<1>1. Len(s) \in Nat /\ DOMAIN s = 1 .. Len(s) /\ Inked(s) \subseteq 1 .. Len(s)
    BY LenProperties DEF Inked
<1>2. CASE Inked(s) = {}
    <2>1. RStrip(s) = <<>> /\ \A j \in 1 .. Len(s) : s[j] = "nl"
        BY <1>1, <1>2 DEF RStrip, Inked
    <2>2. Upto(s, 0 + 1) = <<>>
        BY SubSeqEmpty DEF Upto
    <2>3. 0 \in 0 .. Len(s)
        BY <1>1
    <2> WITNESS 0 \in 0 .. Len(s)
    <2> QED
        BY <1>1, <2>1, <2>2, <2>3
<1>3. CASE Inked(s) # {}
    <2> DEFINE k == Max(Inked(s))
    <2>1. k \in Inked(s) /\ \A j \in Inked(s) : j <= k
        <3>1. Inked(s) \subseteq Nat /\ \A j \in Inked(s) : j <= Len(s)
            BY <1>1
        <3> QED
            BY <1>1, <1>3, <3>1, MaxFacts
    <2>2. k \in 1 .. Len(s) /\ s[k] # "nl"
        BY <1>1, <2>1 DEF Inked
    <2>3. RStrip(s) = Upto(s, k + 1)
        BY <1>3 DEF RStrip
    <2>4. \A j \in k + 1 .. Len(s) : s[j] = "nl"
        <3> HIDE DEF k
        <3> QED
            BY <1>1, <2>1, <2>2 DEF Inked
    <2> HIDE DEF k
    <2>5. k \in 0 .. Len(s)
        BY <1>1, <2>2
    <2> QED
        BY <2>2, <2>3, <2>4, <2>5
<1> QED
    BY <1>2, <1>3

\* An end of a text that a tag may complete holds the first pieces of the tag.
LEMMA EndFacts ==
    ASSUME NEW s \in Seq(Pieces), NEW tag \in Seq(Pieces), NEW n \in 1 .. Len(s),
           n <= Len(tag)
    PROVE  From(s, Len(s) - n + 1) = SubSeq(tag, 1, n) <=>
               \A k \in 1 .. n : s[Len(s) - n + k] = tag[k]
<1>1. Len(s) \in Nat /\ Len(tag) \in Nat /\ n \in Int /\ \A k \in 1 .. n : tag[k] \in Pieces
    BY LenProperties, ElementOfSeq
<1>2. /\ SubSeq(tag, 1, n) \in Seq(Pieces) /\ Len(SubSeq(tag, 1, n)) = n
      /\ \A k \in 1 .. n : SubSeq(tag, 1, n)[k] = tag[k]
    BY <1>1, SubSeqProperties
<1>3. Len(s) - n + 1 \in 1 .. Len(s) + 1
    BY <1>1
<1> DEFINE p == From(s, Len(s) - n + 1)
<1>4. /\ p \in Seq(Pieces) /\ Len(p) = n
      /\ \A k \in 1 .. n : p[k] = s[Len(s) - n + k]
    <2>1. PICK i \in 1 .. Len(s) + 1 : i = Len(s) - n + 1
        BY <1>3
    <2>2. /\ From(s, i) \in Seq(Pieces) /\ Len(From(s, i)) = Len(s) - i + 1
          /\ \A k \in 1 .. Len(s) - i + 1 : From(s, i)[k] = s[i + k - 1]
        BY CutFacts
    <2>3. Len(s) - i + 1 = n /\ \A k \in 1 .. n : i + k - 1 = Len(s) - n + k
        BY <1>1, <2>1
    <2> QED
        BY <2>1, <2>2, <2>3
<1>5. p = SubSeq(tag, 1, n) <=> \A k \in 1 .. n : p[k] = SubSeq(tag, 1, n)[k]
    BY <1>2, <1>4, SeqEqual
<1> QED
    BY <1>2, <1>4, <1>5

LEMMA HeldBackFacts ==
    ASSUME NEW s \in Seq(Pieces), NEW tags, tags \subseteq Seq(Pieces)
    PROVE  /\ HeldBack(s, tags) \in 0 .. Len(s)
           /\ \A n \in 1 .. Len(s) : (\E tag \in tags : /\ n < Len(tag)
                                                        /\ \A k \in 1 .. n : s[Len(s) - n + k] = tag[k])
                                     => n <= HeldBack(s, tags)
           /\ HeldBack(s, tags) # 0 =>
                 \E tag \in tags : /\ HeldBack(s, tags) < Len(tag)
                                   /\ \A k \in 1 .. HeldBack(s, tags) :
                                         s[Len(s) - HeldBack(s, tags) + k] = tag[k]
<1> DEFINE N == {n \in 1 .. Len(s) : \E tag \in tags :
                    n < Len(tag) /\ From(s, Len(s) - n + 1) = SubSeq(tag, 1, n)}
<1>1. Len(s) \in Nat
    BY LenProperties
<1>2. HeldBack(s, tags) \in {0} \cup N /\ \A n \in {0} \cup N : n <= HeldBack(s, tags)
    <2>1. {0} \cup N \subseteq Nat /\ \A n \in {0} \cup N : n <= Len(s)
        BY <1>1
    <2>2. {0} \cup N # {}
        OBVIOUS
    <2>3. HeldBack(s, tags) = Max({0} \cup N)
        BY DEF HeldBack
    <2> HIDE DEF N
    <2> QED
        BY <1>1, <2>1, <2>2, <2>3, MaxFacts
<1>3. \A n \in 1 .. Len(s) : \A tag \in tags : n < Len(tag) =>
          (From(s, Len(s) - n + 1) = SubSeq(tag, 1, n) <=>
              \A k \in 1 .. n : s[Len(s) - n + k] = tag[k])
    <2> SUFFICES ASSUME NEW n \in 1 .. Len(s), NEW tag \in tags, n < Len(tag)
                 PROVE  From(s, Len(s) - n + 1) = SubSeq(tag, 1, n) <=>
                            \A k \in 1 .. n : s[Len(s) - n + k] = tag[k]
        OBVIOUS
    <2>1. tag \in Seq(Pieces) /\ n <= Len(tag)
        BY LenProperties
    <2> QED
        BY <2>1, EndFacts
<1>4. HeldBack(s, tags) \in 0 .. Len(s)
    BY <1>1, <1>2
<1>5. ASSUME NEW n \in 1 .. Len(s), NEW tag \in tags, n < Len(tag),
             \A k \in 1 .. n : s[Len(s) - n + k] = tag[k]
      PROVE  n <= HeldBack(s, tags)
    <2>1. From(s, Len(s) - n + 1) = SubSeq(tag, 1, n)
        BY <1>3, <1>5
    <2>2. n \in N
        BY <1>5, <2>1
    <2> QED
        BY <1>2, <2>2
<1>6. ASSUME HeldBack(s, tags) # 0
      PROVE  \E tag \in tags : /\ HeldBack(s, tags) < Len(tag)
                               /\ \A k \in 1 .. HeldBack(s, tags) :
                                     s[Len(s) - HeldBack(s, tags) + k] = tag[k]
    <2>1. HeldBack(s, tags) \in N
        BY <1>2, <1>6
    <2> QED
        BY <1>3, <2>1
<1> QED
    BY <1>4, <1>5, <1>6

\* Only a "<" can be the beginning of <tool_call>.
LEMMA HeldOpenCall ==
    ASSUME NEW s \in Seq(Pieces)
    PROVE  HeldBack(s, {OpenCall}) = IF Len(s) > 0 /\ s[Len(s)] = "<" THEN 1 ELSE 0
<1> DEFINE n == HeldBack(s, {OpenCall})
<1>1. Len(s) \in Nat /\ Len(OpenCall) = 2 /\ OpenCall[1] = "<" /\ 1 .. 1 = {1}
    BY TagsAreTexts, LenProperties DEF OpenCall
<1>2. /\ n \in 0 .. Len(s)
      /\ \A m \in 1 .. Len(s) : (m < 2 /\ \A k \in 1 .. m : s[Len(s) - m + k] = OpenCall[k])
                                => m <= n
      /\ n # 0 => n < 2 /\ \A k \in 1 .. n : s[Len(s) - n + k] = OpenCall[k]
    <2>1. {OpenCall} \subseteq Seq(Pieces)
        BY TagsAreTexts
    <2>2. /\ n \in 0 .. Len(s)
          /\ \A m \in 1 .. Len(s) : (\E tag \in {OpenCall} :
                 m < Len(tag) /\ \A k \in 1 .. m : s[Len(s) - m + k] = tag[k]) => m <= n
          /\ n # 0 => \E tag \in {OpenCall} :
                 n < Len(tag) /\ \A k \in 1 .. n : s[Len(s) - n + k] = tag[k]
        BY <2>1, HeldBackFacts
    <2> HIDE DEF n
    <2> QED
        BY <1>1, <2>2
<1> HIDE DEF n
<1>3. n # 0 => n = 1 /\ s[Len(s)] = "<" /\ Len(s) > 0
    BY <1>1, <1>2
<1>4. Len(s) > 0 /\ s[Len(s)] = "<" => 1 <= n
    BY <1>1, <1>2
<1> QED
    BY <1>1, <1>2, <1>3, <1>4 DEF n

\* What the reasoning splitter can hold back is "<" or "</".
Opener(s) == IF Len(s) > 0 /\ s[Len(s)] = "<" THEN 1
             ELSE IF Len(s) > 1 /\ s[Len(s) - 1] = "<" /\ s[Len(s)] = "/" THEN 2 ELSE 0

LEMMA HeldThink ==
    ASSUME NEW s \in Seq(Pieces), NEW tags, NEW long \in tags, long \in {CloseThink, EndInvoke},
           tags \subseteq {CloseThink, OpenCall, Invoke, EndInvoke}
    PROVE  HeldBack(s, tags) = Opener(s)
<1> DEFINE n == HeldBack(s, tags)
<1>1. Len(s) \in Nat /\ Len(long) = 3 /\ 1 .. 1 = {1} /\ 1 .. 2 = {1, 2}
    BY TagsAreTexts, LenProperties
<1>2. \A tag \in tags : /\ Len(tag) \in {2, 3} /\ tag[1] = "<"
                        /\ Len(tag) = 3 => tag[2] = "/"
    <2>1. /\ CloseThink[1] = "<" /\ CloseThink[2] = "/"
          /\ OpenCall[1] = "<" /\ Invoke[1] = "<"
          /\ EndInvoke[1] = "<" /\ EndInvoke[2] = "/"
        BY DEF CloseThink, OpenCall, Invoke, EndInvoke
    <2> SUFFICES ASSUME NEW tag \in tags
                 PROVE  /\ Len(tag) \in {2, 3} /\ tag[1] = "<"
                        /\ Len(tag) = 3 => tag[2] = "/"
        OBVIOUS
    <2>2. \/ tag = CloseThink \/ tag = OpenCall \/ tag = Invoke \/ tag = EndInvoke
        OBVIOUS
    <2>3. CASE tag = CloseThink
        BY <2>1, <2>3, TagsAreTexts
    <2>4. CASE tag = OpenCall
        BY <2>1, <2>4, TagsAreTexts
    <2>5. CASE tag = Invoke
        BY <2>1, <2>5, TagsAreTexts
    <2>6. CASE tag = EndInvoke
        BY <2>1, <2>6, TagsAreTexts
    <2> QED
        BY <2>2, <2>3, <2>4, <2>5, <2>6
<1>3. long[1] = "<" /\ long[2] = "/"
    BY DEF CloseThink, EndInvoke
<1>4. /\ n \in 0 .. Len(s)
      /\ \A m \in 1 .. Len(s) : (m < 3 /\ \A k \in 1 .. m : s[Len(s) - m + k] = long[k])
                                => m <= n
      /\ n # 0 => \E tag \in tags : n < Len(tag) /\ \A k \in 1 .. n : s[Len(s) - n + k] = tag[k]
    <2>1. tags \subseteq Seq(Pieces)
        BY TagsAreTexts
    <2>2. /\ n \in 0 .. Len(s)
          /\ \A m \in 1 .. Len(s) : (\E tag \in tags :
                 m < Len(tag) /\ \A k \in 1 .. m : s[Len(s) - m + k] = tag[k]) => m <= n
          /\ n # 0 => \E tag \in tags :
                 n < Len(tag) /\ \A k \in 1 .. n : s[Len(s) - n + k] = tag[k]
        BY <2>1, HeldBackFacts
    <2> HIDE DEF n
    <2> QED
        BY <1>1, <2>2
<1> HIDE DEF n
<1>5. n # 0 => \/ n = 1 /\ s[Len(s)] = "<"
               \/ n = 2 /\ s[Len(s) - 1] = "<" /\ s[Len(s)] = "/" /\ Len(s) > 1
    <2> SUFFICES ASSUME n # 0
                 PROVE  \/ n = 1 /\ s[Len(s)] = "<"
                        \/ n = 2 /\ s[Len(s) - 1] = "<" /\ s[Len(s)] = "/" /\ Len(s) > 1
        OBVIOUS
    <2>1. PICK tag \in tags : n < Len(tag) /\ \A k \in 1 .. n : s[Len(s) - n + k] = tag[k]
        BY <1>4
    <2>l. n \in Nat /\ (Len(tag) = 2 \/ Len(tag) = 3)
        BY <1>1, <1>2, <1>4
    <2>2. n = 1 \/ (n = 2 /\ Len(tag) = 3)
        <3>1. n < Len(tag)
            BY <2>1
        <3>2. n \in Nat \ {0}
            BY <2>l
        <3>3. CASE Len(tag) = 2
            <4>1. n < 2
                BY <3>1, <3>3
            <4> QED
                BY <3>2, <4>1
        <3>4. CASE Len(tag) = 3
            <4>1. n < 3
                BY <3>1, <3>4
            <4> QED
                BY <3>2, <3>4, <4>1
        <3> QED
            BY <2>l, <3>3, <3>4
    <2> QED
        BY <1>1, <1>2, <1>4, <2>1, <2>2
<1>6. Len(s) > 0 /\ s[Len(s)] = "<" => 1 <= n
    BY <1>1, <1>3, <1>4
<1>7. Len(s) > 1 /\ s[Len(s) - 1] = "<" /\ s[Len(s)] = "/" => 2 <= n
    BY <1>1, <1>3, <1>4
<1> QED
    BY <1>1, <1>4, <1>5, <1>6, <1>7 DEF n, Opener

-----------------------------------------------------------------------------
(* Dropping wrappers.                                                      *)

\* A wrapper ends with "invoke>".
LEMMA InsideFacts ==
    ASSUME NEW s \in Seq(Pieces), NEW tag \in Wrappers, NEW i, Inside(s, i, tag)
    PROVE  /\ i \in 1 .. Len(s)
           /\ s[i] \in {"<", "/", "invoke>"}
           /\ s[i] # "invoke>" => i + 1 \in 1 .. Len(s) /\ Inside(s, i + 1, tag)
<1>1. Len(s) \in Nat /\ Len(Invoke) = 2 /\ Len(EndInvoke) = 3
    BY LenProperties, TagsAreTexts
<1>2. PICK h \in Hits(s, tag) : i \in h .. h + Len(tag) - 1
    BY DEF Inside
<1>3. CASE tag = Invoke
    <2>1. h \in 1 .. Len(s) - 1 /\ s[h] = "<" /\ s[h + 1] = "invoke>"
        BY <1>2, <1>3, WrapperHits
    <2>l. Len(tag) = 2 /\ h \in Int
        BY <1>1, <1>3, <2>1
    <2>2. i = h \/ i = h + 1
        BY <1>2, <2>l
    <2>3. h + 1 \in h .. h + Len(tag) - 1
        BY <2>l
    <2> QED
        BY <1>1, <1>2, <2>1, <2>2, <2>3 DEF Inside
<1>4. CASE tag = EndInvoke
    <2>1. h \in 1 .. Len(s) - 2 /\ s[h] = "<" /\ s[h + 1] = "/" /\ s[h + 2] = "invoke>"
        BY <1>2, <1>4, WrapperHits
    <2>l. Len(tag) = 3 /\ h \in Int
        BY <1>1, <1>4, <2>1
    <2>2. i = h \/ i = h + 1 \/ i = h + 2
        BY <1>2, <2>l
    <2>3. h + 1 \in h .. h + Len(tag) - 1 /\ h + 2 \in h .. h + Len(tag) - 1
        BY <2>l
    <2>4. (h + 1) + 1 = h + 2
        BY <2>1
    <2> QED
        BY <1>1, <1>2, <2>1, <2>2, <2>3, <2>4, SMTT(30) DEF Inside
<1> QED
    BY <1>3, <1>4 DEF Wrappers

\* The last piece of a tool-call tag never stands alone in a text, except
\* where the text was cut.
Sound(s) == \A i \in 2 .. Len(s) : s[i] = "tool_call>" => s[i - 1] \in {"<", "/"}

LEMMA DropTagFacts ==
    ASSUME NEW s \in Seq(Pieces), NEW tag \in Wrappers
    PROVE  /\ DropTag(s, tag) \in Seq(Pieces) /\ Len(DropTag(s, tag)) <= Len(s)
           /\ Sound(s) =>
                 /\ Sound(DropTag(s, tag))
                 /\ Len(DropTag(s, tag)) > 0 /\ DropTag(s, tag)[1] = "tool_call>" =>
                       s[1] = "tool_call>"
           /\ Len(s) > 0 /\ s[Len(s)] # "invoke>" =>
                 /\ Len(DropTag(s, tag)) > 0
                 /\ DropTag(s, tag)[Len(DropTag(s, tag))] = s[Len(s)]
<1> DEFINE at == {i \in DOMAIN s : ~Inside(s, i, tag)}   p == DropTag(s, tag)
<1>1. Len(s) \in Nat /\ DOMAIN s = 1 .. Len(s)
    BY LenProperties
<1>2. at \subseteq 1 .. Len(s)
    BY <1>1
<1>3. p = Pick(s, at)
    BY DEF DropTag
<1>i. \A i \in 1 .. Len(s) : i \notin at => Inside(s, i, tag)
    BY <1>1
<1> HIDE DEF at, p
<1>4. /\ p \in Seq(Pieces) /\ Len(p) \in 0 .. Len(s)
      /\ \A k \in 1 .. Len(p) : Nth(at, k) \in at /\ p[k] = s[Nth(at, k)]
      /\ \A k, l \in 1 .. Len(p) : k < l => Nth(at, k) < Nth(at, l)
      /\ \A i \in at : \E k \in 1 .. Len(p) : Nth(at, k) = i
    <2>1. s \in Seq(Pieces)
        OBVIOUS
    <2>2. /\ Pick(s, at) \in Seq(Pieces)
          /\ Len(Pick(s, at)) = Cardinality(at) /\ Cardinality(at) \in 0 .. Len(s)
          /\ \A k \in 1 .. Len(Pick(s, at)) :
                Nth(at, k) \in at /\ Pick(s, at)[k] = s[Nth(at, k)]
          /\ \A k, l \in 1 .. Len(Pick(s, at)) : k < l => Nth(at, k) < Nth(at, l)
          /\ \A i \in at : \E k \in 1 .. Len(Pick(s, at)) : Nth(at, k) = i
        BY ONLY <1>2, <2>1, PickFacts, ZenonT(40)
    <2> QED
        BY ONLY <1>3, <2>2
<1>5. \A k \in 1 .. Len(p) : Nth(at, k) \in 1 .. Len(s)
    BY <1>2, <1>4
<1>6. ASSUME Sound(s), NEW k \in 1 .. Len(p), p[k] = "tool_call>", Nth(at, k) # 1
      PROVE  /\ k > 1 /\ Nth(at, k - 1) = Nth(at, k) - 1
             /\ p[k - 1] \in {"<", "/"}
    <2> DEFINE j == Nth(at, k)
    <2>1. j \in 2 .. Len(s) /\ s[j] = "tool_call>" /\ j \in at
        BY <1>1, <1>4, <1>5, <1>6
    <2>2. j - 1 \in 1 .. Len(s) /\ s[j - 1] \in {"<", "/"} /\ (j - 1) + 1 = j
        BY <1>1, <1>6, <2>1 DEF Sound
    <2>3. j - 1 \in at
        <3> SUFFICES ASSUME j - 1 \notin at
                     PROVE  FALSE
            OBVIOUS
        <3>1. Inside(s, j - 1, tag)
            BY <1>i, <2>2
        <3>2. Inside(s, j, tag)
            BY <2>2, <3>1, InsideFacts
        <3> QED
            BY <2>1, <3>2, <1>1 DEF at
    <2> HIDE DEF j
    <2>4. PICK l \in 1 .. Len(p) : Nth(at, l) = j - 1
        BY <1>4, <2>3
    <2>5. l < k
        <3>1. ~(l = k) /\ ~(k < l)
            BY <1>4, <2>1, <2>4 DEF j
        <3> QED
            BY <1>1, <1>4, <3>1
    <2>6. k - 1 \in 1 .. Len(p) /\ l <= k - 1
        BY <1>4, <2>5
    <2>7. Nth(at, k - 1) = j - 1
        <3>1. Nth(at, k - 1) < j /\ (l < k - 1 => j - 1 < Nth(at, k - 1))
            BY <1>4, <2>4, <2>6 DEF j
        <3>2. l = k - 1
            BY <1>5, <2>1, <2>6, <3>1
        <3> QED
            BY <2>4, <3>2
    <2>8. k > 1
        BY <1>4, <2>5
    <2>9. p[k - 1] = s[Nth(at, k - 1)]
        BY ONLY <1>4, <2>6
    <2>10. p[k - 1] \in {"<", "/"}
        BY ONLY <2>2, <2>7, <2>9
    <2> QED
        BY ONLY <2>7, <2>8, <2>10 DEF j
<1>7. Sound(s) => /\ Sound(p)
                  /\ Len(p) > 0 /\ p[1] = "tool_call>" => s[1] = "tool_call>"
    <2> SUFFICES ASSUME Sound(s)
                 PROVE  /\ Sound(p)
                        /\ Len(p) > 0 /\ p[1] = "tool_call>" => s[1] = "tool_call>"
        OBVIOUS
    <2>1. ASSUME NEW k \in 2 .. Len(p), p[k] = "tool_call>"
          PROVE  p[k - 1] \in {"<", "/"}
        <3>1. k \in 1 .. Len(p) /\ 1 \in 1 .. Len(p) /\ 1 < k
            BY <1>4
        <3>2. Nth(at, k) # 1
            BY <1>4, <1>5, <3>1
        <3> QED
            BY <1>6, <2>1, <3>1, <3>2
    <2>2. ASSUME Len(p) > 0, p[1] = "tool_call>"
          PROVE  s[1] = "tool_call>"
        <3>1. 1 \in 1 .. Len(p)
            BY <1>4, <2>2
        <3>2. Nth(at, 1) = 1
            BY <1>6, <2>2, <3>1
        <3> QED
            BY <1>4, <2>2, <3>1, <3>2
    <2> QED
        BY <2>1, <2>2 DEF Sound
<1>8. ASSUME Len(s) > 0, s[Len(s)] # "invoke>"
      PROVE  Len(p) > 0 /\ p[Len(p)] = s[Len(s)]
    <2>1. Len(s) \in at
        <3> SUFFICES ASSUME Len(s) \notin at
                     PROVE  FALSE
            OBVIOUS
        <3>1. Inside(s, Len(s), tag)
            BY <1>1, <1>8, <1>i
        <3>2. Len(s) + 1 \in 1 .. Len(s)
            BY <1>8, <3>1, InsideFacts
        <3> QED
            BY <1>1, <3>2
    <2>2. PICK k \in 1 .. Len(p) : Nth(at, k) = Len(s)
        BY <1>4, <2>1
    <2>3. Len(p) \in 1 .. Len(p)
        BY <1>4, <2>2
    <2>4. k = Len(p)
        <3>1. k < Len(p) => Len(s) < Nth(at, Len(p))
            BY <1>4, <2>2, <2>3
        <3> QED
            BY <1>1, <1>4, <1>5, <2>2, <2>3, <3>1
    <2> QED
        BY <1>4, <2>2, <2>3, <2>4
<1> QED
    BY <1>4, <1>7, <1>8 DEF p

\* Two positions that follow each other are picked one after the other.
LEMMA PickPrev ==
    ASSUME NEW T, NEW s \in Seq(T), NEW at, at \subseteq 1 .. Len(s),
           NEW k \in 1 .. Len(Pick(s, at)), Nth(at, k) - 1 \in at
    PROVE  k > 1 /\ Nth(at, k - 1) = Nth(at, k) - 1
<1> DEFINE n == Len(Pick(s, at))   j == Nth(at, k)
<1>1. /\ n \in Nat /\ Len(s) \in Nat
      /\ \A l \in 1 .. n : Nth(at, l) \in at
      /\ \A l, m \in 1 .. n : l < m => Nth(at, l) < Nth(at, m)
      /\ \A i \in at : \E l \in 1 .. n : Nth(at, l) = i
    <2>1. s \in Seq(T) /\ at \subseteq 1 .. Len(s)
        OBVIOUS
    <2>2. /\ Pick(s, at) \in Seq(T)
          /\ Len(Pick(s, at)) = Cardinality(at) /\ Cardinality(at) \in 0 .. Len(s)
          /\ \A l \in 1 .. Len(Pick(s, at)) :
                Nth(at, l) \in at /\ Pick(s, at)[l] = s[Nth(at, l)]
          /\ \A l, m \in 1 .. Len(Pick(s, at)) : l < m => Nth(at, l) < Nth(at, m)
          /\ \A i \in at : \E l \in 1 .. Len(Pick(s, at)) : Nth(at, l) = i
        <3> HIDE DEF n, j
        <3> QED
            BY ONLY <2>1, PickFacts
    <2> QED
        BY <2>2, LenProperties
<1>2. k \in 1 .. n
    OBVIOUS
<1> HIDE DEF n
<1>3. \A l \in 1 .. n : Nth(at, l) \in 1 .. Len(s)
    BY <1>1
<1>4. PICK l \in 1 .. n : Nth(at, l) = j - 1
    BY <1>1
<1>5. l < k
    <2>1. ~(l = k) /\ ~(k < l)
        BY <1>1, <1>2, <1>3, <1>4
    <2> QED
        BY <1>1, <1>2, <2>1
<1>6. k - 1 \in 1 .. n /\ l <= k - 1
    BY <1>1, <1>2, <1>5
<1>7. l = k - 1
    <2>1. Nth(at, k - 1) < j /\ (l < k - 1 => j - 1 < Nth(at, k - 1))
        BY <1>1, <1>2, <1>4, <1>6
    <2>2. j \in Int /\ Nth(at, k - 1) \in Int
        BY <1>1, <1>2, <1>3, <1>6
    <2> QED
        BY <1>1, <1>2, <1>6, <2>1, <2>2
<1> QED
    BY <1>2, <1>4, <1>5, <1>7

\* Noise ends with a wrapper or a line break.
LEMMA NoiseEnd ==
    ASSUME NEW s \in Seq(Pieces), NEW i \in 1 .. Len(s) - 1, Noise(s, i), ~Noise(s, i + 1)
    PROVE  s[i] \notin {"<", "/"}
<1>1. Len(s) \in Nat /\ Len(Invoke) = 2 /\ Len(EndInvoke) = 3 /\ i \in Int
    BY LenProperties, TagsAreTexts
<1>a. PICK tag \in Wrappers : \E h \in Hits(s, tag) :
          i >= h /\ \A j \in h + Len(tag) .. i : s[j] = "nl"
    BY DEF Noise
<1>2. PICK h \in Hits(s, tag) : i >= h /\ \A j \in h + Len(tag) .. i : s[j] = "nl"
    BY <1>a
<1>3. ~ \A j \in h + Len(tag) .. i + 1 : s[j] = "nl"
    <2>1. h \in Int
        BY DEF Hits
    <2>2. i + 1 >= h
        BY <1>1, <1>2, <2>1
    <2> QED
        BY <2>2 DEF Noise
<1>4. ASSUME NEW n \in Nat, n = Len(tag), h \in Int, h + n <= i
      PROVE  s[i] = "nl"
    BY <1>1, <1>2, <1>4
<1>5. CASE tag = Invoke
    <2>1. h \in 1 .. Len(s) - 1 /\ s[h] = "<" /\ s[h + 1] = "invoke>"
        BY <1>5, <1>2, WrapperHits
    <2>2. Len(tag) = 2 /\ h \in Int
        BY <1>1, <1>5, <2>1
    <2>3. i = h + 1 \/ h + 2 <= i
        BY <1>1, <1>2, <1>3, <2>2
    <2> QED
        BY <1>4, <2>1, <2>2, <2>3
<1>6. CASE tag = EndInvoke
    <2>1. h \in 1 .. Len(s) - 2 /\ s[h] = "<" /\ s[h + 1] = "/" /\ s[h + 2] = "invoke>"
        BY <1>6, <1>2, WrapperHits
    <2>2. Len(tag) = 3 /\ h \in Int
        BY <1>1, <1>6, <2>1
    <2>3. i = h + 2 \/ h + 3 <= i
        BY <1>1, <1>2, <1>3, <2>2
    <2> QED
        BY <1>4, <2>1, <2>2, <2>3
<1> QED
    BY <1>5, <1>6 DEF Wrappers

LEMMA RStripTypes ==
    ASSUME NEW T, NEW s \in Seq(T)
    PROVE  /\ RStrip(s) \in Seq(T) /\ Len(RStrip(s)) <= Len(s)
           /\ \A k \in 1 .. Len(RStrip(s)) : RStrip(s)[k] = s[k]
<1>1. PICK k \in 0 .. Len(s) : RStrip(s) = Upto(s, k + 1)
    BY RStripFacts
<1>2. Len(s) \in Nat
    BY LenProperties
<1>3. PICK i \in 1 .. Len(s) + 1 : i = k + 1
    BY <1>2
<1>4. /\ Upto(s, i) \in Seq(T) /\ Len(Upto(s, i)) = i - 1
      /\ \A m \in 1 .. i - 1 : Upto(s, i)[m] = s[m]
    BY CutFacts
<1>5. RStrip(s) = Upto(s, i) /\ i - 1 \in 0 .. Len(s)
    BY <1>1, <1>2, <1>3
<1> QED
    BY <1>2, <1>4, <1>5

LEMMA LStripTypes ==
    ASSUME NEW T, NEW s \in Seq(T)
    PROVE  /\ LStrip(s) \in Seq(T) /\ Len(LStrip(s)) <= Len(s)
           /\ Len(s) = 0 => LStrip(s) = <<>>
<1>1. PICK k \in 1 .. Len(s) + 1 : LStrip(s) = From(s, k)
    BY LStripFacts
<1>2. LStrip(s) \in Seq(T) /\ Len(LStrip(s)) = Len(s) - k + 1
    BY <1>1, CutFacts, ZenonT(40)
<1>3. Len(s) = 0 => LStrip(s) = <<>>
    <2>1. Len(s) = 0 => Len(LStrip(s)) = 0
        BY <1>2
    <2> QED
        BY <1>2, <2>1, EmptySeq
<1> QED
    BY <1>2, <1>3, LenProperties

LEMMA StripNoiseTypes ==
    ASSUME NEW s \in Seq(Pieces)
    PROVE  /\ StripNoise(s) \in Seq(Pieces)
           /\ s = <<>> => StripNoise(s) = <<>>
<1> DEFINE at == {i \in DOMAIN s : ~Noise(s, i)}
<1>1. at \subseteq 1 .. Len(s)
    BY LenProperties
<1> HIDE DEF at
<1>2. Pick(s, at) \in Seq(Pieces) /\ Len(Pick(s, at)) \in 0 .. Len(s)
    <2>1. s \in Seq(Pieces)
        OBVIOUS
    <2>2. /\ Pick(s, at) \in Seq(Pieces)
          /\ Len(Pick(s, at)) = Cardinality(at) /\ Cardinality(at) \in 0 .. Len(s)
        BY ONLY <1>1, <2>1, PickFacts
    <2> QED
        BY ONLY <2>2
<1>3. StripNoise(s) = RStrip(Pick(s, at))
    BY DEF StripNoise, at
<1>4. /\ StripNoise(s) \in Seq(Pieces) /\ Len(StripNoise(s)) <= Len(Pick(s, at))
    BY <1>2, <1>3, RStripTypes
<1>5. ASSUME s = <<>>
      PROVE  StripNoise(s) = <<>>
    <2>1. Len(s) = 0
        BY <1>5
    <2>2. Len(StripNoise(s)) = 0
        BY <1>2, <1>4, <2>1, LenProperties
    <2> QED
        BY <1>4, <2>2, EmptySeq
<1> QED
    BY <1>4, <1>5

LEMMA StripTypes ==
    ASSUME NEW T, NEW s \in Seq(T)
    PROVE  Strip(s) \in Seq(T) /\ (s = <<>> => Strip(s) = <<>>)
<1>1. RStrip(s) \in Seq(T) /\ Len(RStrip(s)) <= Len(s)
    BY RStripTypes
<1>2. s = <<>> => Len(RStrip(s)) = 0
    BY <1>1, LenProperties
<1> QED
    BY <1>1, <1>2, LStripTypes DEF Strip

\* No <tool_call> appears where a text was stripped of noise, unless its own
\* pieces were torn apart in the text.
LEMMA StrippedQuietly ==
    ASSUME NEW a \in Seq(Pieces), NEW b \in Seq(Pieces),
           Sound(a \o b), Hits(a \o b, OpenCall) = {}
    PROVE  Hits(a \o StripNoise(b), OpenCall) = {}
<1> DEFINE at == {i \in DOMAIN b : ~Noise(b, i)}   p == Pick(b, at)   q == StripNoise(b)
<1>1. Len(a) \in Nat /\ Len(b) \in Nat /\ DOMAIN b = 1 .. Len(b)
    BY LenProperties
<1>2. /\ a \o b \in Seq(Pieces) /\ Len(a \o b) = Len(a) + Len(b)
      /\ \A i \in 1 .. Len(a) : (a \o b)[i] = a[i]
      /\ \A i \in 1 .. Len(b) : (a \o b)[Len(a) + i] = b[i]
    <2>1. /\ a \o b \in Seq(Pieces) /\ Len(a \o b) = Len(a) + Len(b)
          /\ \A i \in 1 .. Len(a) + Len(b) :
                (a \o b)[i] = IF i <= Len(a) THEN a[i] ELSE b[i - Len(a)]
        BY ConcatProperties
    <2>2. \A i \in 1 .. Len(b) : /\ Len(a) + i \in 1 .. Len(a) + Len(b)
                                 /\ ~(Len(a) + i <= Len(a)) /\ Len(a) + i - Len(a) = i
        BY <1>1
    <2>3. \A i \in 1 .. Len(a) : i \in 1 .. Len(a) + Len(b) /\ i <= Len(a)
        BY <1>1
    <2> QED
        BY <2>1, <2>2, <2>3
<1>3. at \subseteq 1 .. Len(b)
    BY <1>1
<1>4. q = RStrip(p)
    BY DEF StripNoise
<1>i. \A i \in 1 .. Len(b) : i \in at <=> ~Noise(b, i)
    BY <1>1
<1> HIDE DEF at, q
<1>5. /\ p \in Seq(Pieces) /\ Len(p) \in 0 .. Len(b)
      /\ \A k \in 1 .. Len(p) : Nth(at, k) \in at /\ p[k] = b[Nth(at, k)]
      /\ \A k, l \in 1 .. Len(p) : k < l => Nth(at, k) < Nth(at, l)
    <2>1. b \in Seq(Pieces)
        OBVIOUS
    <2>2. /\ p \in Seq(Pieces)
          /\ Len(p) = Cardinality(at) /\ Cardinality(at) \in 0 .. Len(b)
          /\ \A k \in 1 .. Len(p) : Nth(at, k) \in at /\ p[k] = b[Nth(at, k)]
          /\ \A k, l \in 1 .. Len(p) : k < l => Nth(at, k) < Nth(at, l)
        BY ONLY <1>3, <2>1, PickFacts
    <2> QED
        BY ONLY <2>2
<1>p. \A k \in 1 .. Len(p) : Nth(at, k) - 1 \in at => k > 1 /\ Nth(at, k - 1) = Nth(at, k) - 1
    BY <1>3, PickPrev
<1> HIDE DEF p
<1>6. q \in Seq(Pieces) /\ Len(q) \in 0 .. Len(p) /\ \A k \in 1 .. Len(q) : q[k] = p[k]
    <2>1. RStrip(p) \in Seq(Pieces) /\ Len(RStrip(p)) <= Len(p) /\ Len(RStrip(p)) \in Nat
        BY <1>5, RStripTypes, LenProperties
    <2>2. \A k \in 1 .. Len(RStrip(p)) : RStrip(p)[k] = p[k]
        BY <1>5, RStripTypes
    <2> QED
        BY <1>4, <1>5, <2>1, <2>2
<1>7. /\ a \o q \in Seq(Pieces) /\ Len(a \o q) = Len(a) + Len(q)
      /\ \A i \in 1 .. Len(a) + Len(q) :
            (a \o q)[i] = IF i <= Len(a) THEN a[i] ELSE q[i - Len(a)]
    BY <1>6, ConcatProperties
<1> SUFFICES ASSUME NEW h \in Hits(a \o q, OpenCall)
             PROVE  FALSE
    BY DEF q
<1>8. h \in 1 .. Len(a) + Len(q) - 1 /\ (a \o q)[h] = "<" /\ (a \o q)[h + 1] = "tool_call>"
    <2>1. a \o q \in Seq(Pieces) /\ h \in Hits(a \o q, OpenCall)
        BY <1>7
    <2>2. /\ h \in 1 .. Len(a \o q) - 1
          /\ (a \o q)[h] = "<" /\ (a \o q)[h + 1] = "tool_call>"
        BY ONLY <2>1, OpenCallHits
    <2> QED
        BY ONLY <1>7, <2>2
<1>9. \A i \in 1 .. Len(a) + Len(b) - 1 : ~((a \o b)[i] = "<" /\ (a \o b)[i + 1] = "tool_call>")
    <2>1. a \o b \in Seq(Pieces) /\ Hits(a \o b, OpenCall) = {}
        BY <1>2
    <2>2. \A i : ~ (/\ i \in 1 .. Len(a \o b) - 1
                    /\ (a \o b)[i] = "<" /\ (a \o b)[i + 1] = "tool_call>")
        BY ONLY <2>1, OpenCallHits
    <2>3. \A i \in 1 .. Len(a) + Len(b) - 1 : i \in 1 .. Len(a \o b) - 1
        BY ONLY <1>2
    <2> QED
        BY ONLY <2>2, <2>3
<1>10. h >= Len(a)
    <2> SUFFICES ASSUME h < Len(a)
                 PROVE  FALSE
        BY <1>1, <1>8
    <2>1. h \in 1 .. Len(a) /\ h + 1 \in 1 .. Len(a) /\ h \in 1 .. Len(a) + Len(b) - 1
        BY <1>1, <1>8
    <2>2. (a \o q)[h] = a[h] /\ (a \o q)[h + 1] = a[h + 1]
        BY <1>1, <1>6, <1>7, <2>1
    <2> QED
        BY <1>2, <1>8, <1>9, <2>1, <2>2
<1>11. PICK k \in 1 .. Len(q) : k = h + 1 - Len(a)
    BY <1>1, <1>6, <1>8, <1>10
<1> DEFINE j == Nth(at, k)
<1>12. k \in 1 .. Len(p) /\ p[k] = "tool_call>" /\ j \in at /\ b[j] = "tool_call>"
    <2>1. (a \o q)[h + 1] = q[k]
        <3>1. PICK m \in 1 .. Len(a) + Len(q) : m = h + 1
            BY ONLY <1>1, <1>6, <1>8
        <3>2. ~(m <= Len(a)) /\ m - Len(a) = k
            BY ONLY <1>1, <1>6, <1>8, <1>10, <1>11, <3>1
        <3>3. (a \o q)[m] = q[k]
            BY ONLY <1>7, <3>1, <3>2
        <3> QED
            BY ONLY <3>1, <3>3
    <2> QED
        BY <1>5, <1>6, <1>8, <1>11, <2>1
<1>13. j \in 1 .. Len(b)
    BY <1>3, <1>12
<1> HIDE DEF j
<1>14. CASE j = 1
    <2>1. k = 1
        <3>1. k > 1 => Nth(at, 1) < 1
            BY <1>5, <1>12, <1>14, <1>1 DEF j
        <3>2. 1 \in 1 .. Len(p)
            BY <1>5, <1>12
        <3>3. Nth(at, 1) \in 1 .. Len(b)
            BY <1>3, <1>5, <3>2
        <3> QED
            BY <1>12, <3>1, <3>3
    <2>2. h = Len(a) /\ h \in 1 .. Len(a) /\ h \in 1 .. Len(a) + Len(b) - 1
        BY <1>1, <1>8, <1>11, <1>13, <2>1
    <2>3. (a \o q)[h] = a[h]
        BY <1>1, <1>6, <1>7, <2>2
    <2>4. (a \o b)[h] = "<" /\ (a \o b)[h + 1] = "tool_call>"
        BY <1>2, <1>8, <1>12, <1>13, <1>14, <2>2, <2>3
    <2> QED
        BY <1>9, <2>2, <2>4
<1>15. CASE j # 1
    <2>1. j - 1 \in 1 .. Len(b) - 1 /\ j - 1 \in 1 .. Len(b) /\ (j - 1) + 1 = j
        BY <1>1, <1>13, <1>15
    <2>2. b[j - 1] \in {"<", "/"}
        <3>1. Len(a) + j \in 2 .. Len(a) + Len(b) /\ Len(a) + j - 1 = Len(a) + (j - 1)
            BY <1>1, <1>13, <1>15
        <3>2. (a \o b)[Len(a) + j] = "tool_call>" /\ (a \o b)[Len(a) + (j - 1)] = b[j - 1]
            BY <1>2, <1>12, <1>13, <2>1
        <3>3. PICK m \in 2 .. Len(a \o b) : m = Len(a) + j
            BY <1>2, <3>1
        <3>4. (a \o b)[m] = "tool_call>" => (a \o b)[m - 1] \in {"<", "/"}
            BY DEF Sound
        <3>5. m - 1 = Len(a) + (j - 1)
            BY <1>1, <1>13, <3>3
        <3> QED
            BY ONLY <3>2, <3>3, <3>4, <3>5
    <2>3. j - 1 \in at
        <3>1. ~Noise(b, j)
            BY <1>i, <1>12, <1>13
        <3>2. ~Noise(b, j - 1)
            BY <2>1, <2>2, <3>1, NoiseEnd
        <3> QED
            BY <1>i, <2>1, <3>2
    <2>4. k > 1 /\ Nth(at, k - 1) = j - 1
        BY <1>p, <1>12, <2>3 DEF j
    <2>5. k - 1 \in 1 .. Len(q) /\ k - 1 \in 1 .. Len(p) /\ h - Len(a) = k - 1 /\ ~(h <= Len(a))
        BY <1>1, <1>6, <1>8, <1>11, <1>12, <2>4
    <2>6. b[j - 1] = "<"
        <3>1. (a \o q)[h] = q[k - 1]
            <4>1. h \in 1 .. Len(a) + Len(q)
                BY ONLY <1>1, <1>6, <1>8
            <4> QED
                BY ONLY <1>7, <2>5, <4>1
        <3>2. q[k - 1] = p[k - 1] /\ p[k - 1] = b[j - 1]
            BY <1>5, <1>6, <2>4, <2>5
        <3> QED
            BY <1>8, <3>1, <3>2
    <2>7. PICK m \in 1 .. Len(a) + Len(b) - 1 : m = Len(a) + (j - 1)
        BY <1>1, <2>1
    <2>8. (a \o b)[m] = "<" /\ (a \o b)[m + 1] = "tool_call>"
        <3>1. m + 1 = Len(a) + j
            BY <1>1, <1>13, <2>7
        <3> QED
            BY <1>2, <1>12, <1>13, <2>1, <2>6, <2>7, <3>1
    <2> QED
        BY <1>9, <2>8
<1> QED
    BY <1>14, <1>15

LEMMA DropFacts ==
    ASSUME NEW s \in Seq(Pieces)
    PROVE  /\ DropWrappers(s) \in Seq(Pieces) /\ Len(DropWrappers(s)) <= Len(s)
           /\ Sound(s) =>
                 /\ Sound(DropWrappers(s))
                 /\ Len(DropWrappers(s)) > 0 /\ DropWrappers(s)[1] = "tool_call>" =>
                       s[1] = "tool_call>"
           /\ Len(s) > 0 /\ s[Len(s)] # "invoke>" =>
                 /\ Len(DropWrappers(s)) > 0
                 /\ DropWrappers(s)[Len(DropWrappers(s))] = s[Len(s)]
<1> DEFINE m == DropTag(s, Invoke)
<1>1. Invoke \in Wrappers /\ EndInvoke \in Wrappers
    BY DEF Wrappers
<1>2. /\ m \in Seq(Pieces) /\ Len(m) <= Len(s)
      /\ Sound(s) => Sound(m) /\ (Len(m) > 0 /\ m[1] = "tool_call>" => s[1] = "tool_call>")
      /\ Len(s) > 0 /\ s[Len(s)] # "invoke>" => Len(m) > 0 /\ m[Len(m)] = s[Len(s)]
    BY <1>1, DropTagFacts
<1> HIDE DEF m
<1> DEFINE d == DropTag(m, EndInvoke)
<1>3. /\ d \in Seq(Pieces) /\ Len(d) <= Len(m)
      /\ Sound(m) => Sound(d) /\ (Len(d) > 0 /\ d[1] = "tool_call>" => m[1] = "tool_call>")
      /\ Len(m) > 0 /\ m[Len(m)] # "invoke>" => Len(d) > 0 /\ d[Len(d)] = m[Len(m)]
    BY <1>1, <1>2, DropTagFacts
<1>4. d = DropWrappers(s)
    BY DEF d, m, DropWrappers
<1> HIDE DEF d
<1>5. Len(s) \in Nat /\ Len(m) \in Nat /\ Len(d) \in Nat
    BY <1>2, <1>3, LenProperties
<1>6. Len(d) <= Len(s)
    BY <1>2, <1>3, <1>5
<1>7. Len(d) > 0 => Len(m) > 0
    BY <1>3, <1>5
<1> QED
    BY <1>2, <1>3, <1>4, <1>6, <1>7

\* Where a text is cut at a found tag.
LEMMA FoundFacts ==
    ASSUME NEW s \in Seq(Pieces), NEW tag \in {OpenCall, CloseThink}
    PROVE  /\ Find(s, tag) \in 0 .. Len(s)
           /\ Find(s, tag) # 0 => Find(s, tag) + Len(tag) \in 1 .. Len(s) + 1
           /\ Find(s, tag) # 0 => Find(s, tag) \in 1 .. Len(s) + 1
<1>1. /\ Find(s, tag) \in 0 .. Len(s)
      /\ Find(s, tag) # 0 => Find(s, tag) \in Hits(s, tag)
    BY TagsAreTexts, FindFacts
<1>2. Len(s) \in Nat /\ Len(tag) \in Nat
    BY LenProperties, TagsAreTexts
<1>3. \A h \in Hits(s, tag) : h + Len(tag) \in 1 .. Len(s) + 1
    BY <1>2 DEF Hits
<1> QED
    BY <1>1, <1>2, <1>3

ThinkStates == [buffer : Seq(Pieces), done : BOOLEAN]
CallStates  == [buffer : Seq(Pieces), stopped : BOOLEAN]

\* Keeping the end of a text back.
LEMMA KeptFacts ==
    ASSUME NEW s \in Seq(Pieces), NEW keep \in 0 .. Len(s)
    PROVE  LET i == Len(s) - keep + 1
           IN  /\ Upto(s, i) \in Seq(Pieces) /\ Len(Upto(s, i)) = Len(s) - keep
               /\ \A k \in 1 .. Len(s) - keep : Upto(s, i)[k] = s[k]
               /\ From(s, i) \in Seq(Pieces) /\ Len(From(s, i)) = keep
               /\ \A k \in 1 .. keep : From(s, i)[k] = s[Len(s) - keep + k]
               /\ Upto(s, i) \o From(s, i) = s
<1>1. Len(s) \in Nat
    BY LenProperties
<1>a. Len(s) - keep + 1 \in 1 .. Len(s) + 1
    BY <1>1
<1>2. PICK i \in 1 .. Len(s) + 1 : i = Len(s) - keep + 1
    BY ONLY <1>a
<1>3. /\ Upto(s, i) \in Seq(Pieces) /\ Len(Upto(s, i)) = i - 1
      /\ \A k \in 1 .. i - 1 : Upto(s, i)[k] = s[k]
      /\ From(s, i) \in Seq(Pieces) /\ Len(From(s, i)) = Len(s) - i + 1
      /\ \A k \in 1 .. Len(s) - i + 1 : From(s, i)[k] = s[i + k - 1]
      /\ Upto(s, i) \o From(s, i) = s
    BY CutFacts
<1>4. i - 1 = Len(s) - keep /\ Len(s) - i + 1 = keep
    BY <1>1, <1>2
<1>5. \A k \in 1 .. keep : i + k - 1 = Len(s) - keep + k
    BY <1>1, <1>2
<1> QED
    BY <1>2, <1>3, <1>4, <1>5

ThinkTags(tools) == {CloseThink} \cup (IF tools THEN Wrappers \cup {OpenCall} ELSE {})

LEMMA ThinkTagsFacts ==
    ASSUME NEW tools \in BOOLEAN, NEW s \in Seq(Pieces)
    PROVE  HeldBack(s, ThinkTags(tools)) = Opener(s) /\ Opener(s) \in 0 .. Len(s)
<1>1. ThinkTags(tools) \subseteq {CloseThink, OpenCall, Invoke, EndInvoke}
    BY DEF ThinkTags, Wrappers
<1>2. CloseThink \in ThinkTags(tools)
    BY DEF ThinkTags
<1>3. Opener(s) \in 0 .. Len(s)
    BY LenProperties DEF Opener
<1>4. HeldBack(s, ThinkTags(tools)) = Opener(s)
    BY <1>1, <1>2, HeldThink
<1> QED
    BY <1>3, <1>4

\* Nor can more than that begin a wrapper.
LEMMA HeldWrapper ==
    ASSUME NEW s \in Seq(Pieces)
    PROVE  HeldBack(s, Wrappers) = Opener(s) /\ Opener(s) \in 0 .. Len(s)
<1>1. EndInvoke \in Wrappers /\ Wrappers \subseteq {CloseThink, OpenCall, Invoke, EndInvoke}
    BY DEF Wrappers
<1>2. Opener(s) \in 0 .. Len(s)
    BY LenProperties DEF Opener
<1> QED
    BY <1>1, <1>2, HeldThink

\* The reasoning splitter by cases: over already, a tool call first, the
\* boundary, or neither.
LEMMA ThinkCases ==
    ASSUME NEW t \in ThinkStates, NEW u \in Seq(Pieces), NEW tools \in BOOLEAN
    PROVE  LET all  == t.buffer \o u
               seen == IF tools THEN DropWrappers(all) ELSE all
               fed  == ThinkFeed(t, u, tools)
               tool == Find(seen, OpenCall)
               stop == Find(seen, CloseThink)
               cut  == Len(seen) - Opener(seen) + 1
           IN  \/ /\ t.done /\ fed.next = t /\ fed.reason = <<>> /\ fed.rest = u
               \/ /\ ~t.done /\ tools /\ tool # 0 /\ (stop = 0 \/ tool < stop)
                  /\ fed.next = [buffer |-> <<>>, done |-> TRUE]
                  /\ fed.reason = RStrip(Upto(seen, tool)) /\ fed.rest = From(seen, tool)
               \/ /\ ~t.done /\ stop # 0 /\ (tools => tool = 0 \/ stop <= tool)
                  /\ fed.next = [buffer |-> <<>>, done |-> TRUE]
                  /\ fed.reason = Upto(seen, stop)
                  /\ fed.rest = LStrip(From(seen, stop + Len(CloseThink)))
               \/ /\ ~t.done /\ stop = 0 /\ (tools => tool = 0)
                  /\ fed.next = [buffer |-> From(seen, cut), done |-> t.done]
                  /\ fed.reason = Upto(seen, cut) /\ fed.rest = <<>>
<1> DEFINE all  == t.buffer \o u
           seen == IF tools THEN DropWrappers(all) ELSE all
           fed  == ThinkFeed(t, u, tools)
           tool == Find(seen, OpenCall)
           stop == Find(seen, CloseThink)
           cut  == Len(seen) - Opener(seen) + 1
           over == [buffer |-> <<>>, done |-> TRUE]
           keep == HeldBack(seen, ThinkTags(tools))
<1>1. all \in Seq(Pieces)
    BY ConcatProperties DEF ThinkStates
<1>2. seen \in Seq(Pieces)
    BY <1>1, DropFacts
<1>3. keep = Opener(seen)
    BY <1>2, ThinkTagsFacts
<1>4. tool \in Nat /\ stop \in Nat
    <2>1. tool \in 0 .. Len(seen) /\ stop \in 0 .. Len(seen) /\ Len(seen) \in Nat
        BY <1>2, FoundFacts, LenProperties
    <2> QED
        BY <2>1
<1>5. fed = IF t.done THEN [next |-> t, reason |-> <<>>, rest |-> u]
            ELSE IF ToolFirst(IF tools THEN tool ELSE 0, stop)
            THEN [next |-> over, reason |-> RStrip(Upto(seen, IF tools THEN tool ELSE 0)),
                  rest |-> From(seen, IF tools THEN tool ELSE 0)]
            ELSE IF stop > 0
            THEN [next |-> over, reason |-> Upto(seen, stop),
                  rest |-> LStrip(From(seen, stop + Len(CloseThink)))]
            ELSE [next |-> [t EXCEPT !.buffer = From(seen, Len(seen) - keep + 1)],
                  reason |-> Upto(seen, Len(seen) - keep + 1), rest |-> <<>>]
    BY DEF ThinkFeed, ThinkTags
<1>6. [t EXCEPT !.buffer = From(seen, cut)] = [buffer |-> From(seen, cut), done |-> t.done]
    <2> HIDE DEF seen, cut
    <2> QED
        BY DEF ThinkStates
<1> DEFINE Cases ==
           \/ /\ t.done /\ fed.next = t /\ fed.reason = <<>> /\ fed.rest = u
           \/ /\ ~t.done /\ tools /\ tool # 0 /\ (stop = 0 \/ tool < stop)
              /\ fed.next = [buffer |-> <<>>, done |-> TRUE]
              /\ fed.reason = RStrip(Upto(seen, tool)) /\ fed.rest = From(seen, tool)
           \/ /\ ~t.done /\ stop # 0 /\ (tools => tool = 0 \/ stop <= tool)
              /\ fed.next = [buffer |-> <<>>, done |-> TRUE]
              /\ fed.reason = Upto(seen, stop)
              /\ fed.rest = LStrip(From(seen, stop + Len(CloseThink)))
           \/ /\ ~t.done /\ stop = 0 /\ (tools => tool = 0)
              /\ fed.next = [buffer |-> From(seen, cut), done |-> t.done]
              /\ fed.reason = Upto(seen, cut) /\ fed.rest = <<>>
<1> SUFFICES Cases
    OBVIOUS
<1> HIDE DEF all, seen, fed, tool, stop, cut, keep, over
<1>7. Len(seen) - keep + 1 = cut
    BY <1>3 DEF cut
<1>8. CASE t.done
    BY <1>5, <1>8
<1>9. CASE ~t.done /\ tools /\ tool # 0 /\ (stop = 0 \/ tool < stop)
    <2>1. ToolFirst(tool, stop)
        BY <1>4, <1>9 DEF ToolFirst
    <2> QED
        BY <1>5, <1>9, <2>1 DEF over
<1>10. CASE ~t.done /\ stop # 0 /\ (tools => tool = 0 \/ stop <= tool)
    <2>1. ~ToolFirst(IF tools THEN tool ELSE 0, stop) /\ stop > 0
        BY <1>4, <1>10 DEF ToolFirst
    <2> QED
        BY <1>5, <1>10, <2>1 DEF over
<1>11. CASE ~t.done /\ stop = 0 /\ (tools => tool = 0)
    <2>1. ~ToolFirst(IF tools THEN tool ELSE 0, stop) /\ ~(stop > 0)
        BY <1>4, <1>11 DEF ToolFirst
    <2> QED
        BY <1>5, <1>6, <1>7, <1>11, <2>1
<1>12. \/ t.done
       \/ ~t.done /\ tools /\ tool # 0 /\ (stop = 0 \/ tool < stop)
       \/ ~t.done /\ stop # 0 /\ (tools => tool = 0 \/ stop <= tool)
       \/ ~t.done /\ stop = 0 /\ (tools => tool = 0)
    BY <1>4
<1> QED
    BY <1>8, <1>9, <1>10, <1>11, <1>12

LEMMA ThinkTypes ==
    ASSUME NEW t \in ThinkStates, t.done => t.buffer = <<>>,
           NEW u \in Seq(Pieces), NEW tools \in BOOLEAN
    PROVE  LET fed == ThinkFeed(t, u, tools)
           IN  /\ fed.next \in ThinkStates /\ (fed.next.done => fed.next.buffer = <<>>)
               /\ fed.reason \in Seq(Pieces) /\ fed.rest \in Seq(Pieces)
<1> DEFINE all  == t.buffer \o u
           seen == IF tools THEN DropWrappers(all) ELSE all
           fed  == ThinkFeed(t, u, tools)
           tool == Find(seen, OpenCall)
           stop == Find(seen, CloseThink)
           cut  == Len(seen) - Opener(seen) + 1
<1>1. all \in Seq(Pieces)
    BY ConcatProperties DEF ThinkStates
<1>2. seen \in Seq(Pieces)
    BY <1>1, DropFacts
<1> HIDE DEF all, seen
<1>3. /\ tool # 0 => tool \in 1 .. Len(seen) + 1
      /\ stop # 0 => stop \in 1 .. Len(seen) + 1 /\ stop + Len(CloseThink) \in 1 .. Len(seen) + 1
    BY <1>2, FoundFacts
<1> HIDE DEF tool, stop
<1>4. /\ tool # 0 => Upto(seen, tool) \in Seq(Pieces) /\ From(seen, tool) \in Seq(Pieces)
      /\ stop # 0 => /\ Upto(seen, stop) \in Seq(Pieces)
                     /\ From(seen, stop + Len(CloseThink)) \in Seq(Pieces)
    BY <1>2, <1>3, CutFacts
<1>5. Upto(seen, cut) \in Seq(Pieces) /\ From(seen, cut) \in Seq(Pieces)
    <2>1. Opener(seen) \in 0 .. Len(seen)
        BY <1>2, ThinkTagsFacts
    <2> QED
        BY <1>2, <2>1, KeptFacts
<1> HIDE DEF cut
<1>6. /\ tool # 0 => RStrip(Upto(seen, tool)) \in Seq(Pieces)
      /\ stop # 0 => LStrip(From(seen, stop + Len(CloseThink))) \in Seq(Pieces)
    BY <1>4, RStripTypes, LStripTypes
<1>7. <<>> \in Seq(Pieces)
    OBVIOUS
<1>8. \/ /\ t.done /\ fed.next = t /\ fed.reason = <<>> /\ fed.rest = u
      \/ /\ tool # 0 /\ fed.next = [buffer |-> <<>>, done |-> TRUE]
         /\ fed.reason = RStrip(Upto(seen, tool)) /\ fed.rest = From(seen, tool)
      \/ /\ stop # 0 /\ fed.next = [buffer |-> <<>>, done |-> TRUE]
         /\ fed.reason = Upto(seen, stop)
         /\ fed.rest = LStrip(From(seen, stop + Len(CloseThink)))
      \/ /\ ~t.done /\ fed.next = [buffer |-> From(seen, cut), done |-> t.done]
         /\ fed.reason = Upto(seen, cut) /\ fed.rest = <<>>
    BY ThinkCases DEF all, seen, tool, stop, cut
<1> HIDE DEF fed
<1>9. /\ fed.next \in ThinkStates /\ (fed.next.done => fed.next.buffer = <<>>)
      /\ fed.reason \in Seq(Pieces) /\ fed.rest \in Seq(Pieces)
    <2>1. CASE t.done /\ fed.next = t /\ fed.reason = <<>> /\ fed.rest = u
        BY <1>7, <2>1
    <2>2. CASE /\ tool # 0 /\ fed.next = [buffer |-> <<>>, done |-> TRUE]
               /\ fed.reason = RStrip(Upto(seen, tool)) /\ fed.rest = From(seen, tool)
        BY <1>4, <1>6, <1>7, <2>2 DEF ThinkStates
    <2>3. CASE /\ stop # 0 /\ fed.next = [buffer |-> <<>>, done |-> TRUE]
               /\ fed.reason = Upto(seen, stop)
               /\ fed.rest = LStrip(From(seen, stop + Len(CloseThink)))
        BY <1>4, <1>6, <1>7, <2>3 DEF ThinkStates
    <2>4. CASE /\ ~t.done /\ fed.next = [buffer |-> From(seen, cut), done |-> t.done]
               /\ fed.reason = Upto(seen, cut) /\ fed.rest = <<>>
        BY <1>5, <1>7, <2>4 DEF ThinkStates
    <2> QED
        BY <1>8, <2>1, <2>2, <2>3, <2>4
<1> QED
    BY <1>9 DEF fed

\* A "<" at the end may become a tool call.
Bracket(s) == IF Len(s) > 0 /\ s[Len(s)] = "<" THEN 1 ELSE 0

\* The tool-call splitter by cases: stopped, a call found, or none yet.
LEMMA CallCases ==
    ASSUME NEW c \in CallStates, NEW u \in Seq(Pieces)
    PROVE  LET seen == c.buffer \o u
               fed  == CallFeed(c, u)
               tool == Find(seen, OpenCall)
               cut  == Len(seen) - Bracket(seen) + 1
           IN  \/ c.stopped /\ fed.next = c /\ fed.visible = <<>>
               \/ /\ ~c.stopped /\ tool # 0
                  /\ fed.next = [buffer |-> <<>>, stopped |-> TRUE]
                  /\ fed.visible = StripNoise(Upto(seen, tool))
               \/ /\ ~c.stopped /\ tool = 0
                  /\ fed.next = [buffer |-> From(seen, cut), stopped |-> c.stopped]
                  /\ fed.visible = Upto(seen, cut)
<1> DEFINE seen == c.buffer \o u
           fed  == CallFeed(c, u)
           tool == Find(seen, OpenCall)
           keep == HeldBack(seen, {OpenCall})
           cut  == Len(seen) - Bracket(seen) + 1
           over == [buffer |-> <<>>, stopped |-> TRUE]
<1>1. seen \in Seq(Pieces)
    BY ConcatProperties DEF CallStates
<1>2. keep = Bracket(seen)
    BY <1>1, HeldOpenCall DEF Bracket
<1>3. tool \in Nat
    <2>1. tool \in 0 .. Len(seen) /\ Len(seen) \in Nat
        BY <1>1, FoundFacts, LenProperties
    <2> QED
        BY <2>1
<1>4. fed = IF c.stopped THEN [next |-> c, visible |-> <<>>]
            ELSE IF tool > 0
            THEN [next |-> over, visible |-> StripNoise(Upto(seen, tool))]
            ELSE [next |-> [c EXCEPT !.buffer = From(seen, Len(seen) - keep + 1)],
                  visible |-> Upto(seen, Len(seen) - keep + 1)]
    BY DEF CallFeed
<1>5. [c EXCEPT !.buffer = From(seen, cut)] = [buffer |-> From(seen, cut), stopped |-> c.stopped]
    <2> HIDE DEF seen, cut
    <2> QED
        BY DEF CallStates
<1>6. Len(seen) - keep + 1 = cut
    BY <1>2
<1> DEFINE Cases ==
           \/ c.stopped /\ fed.next = c /\ fed.visible = <<>>
           \/ /\ ~c.stopped /\ tool # 0
              /\ fed.next = [buffer |-> <<>>, stopped |-> TRUE]
              /\ fed.visible = StripNoise(Upto(seen, tool))
           \/ /\ ~c.stopped /\ tool = 0
              /\ fed.next = [buffer |-> From(seen, cut), stopped |-> c.stopped]
              /\ fed.visible = Upto(seen, cut)
<1> SUFFICES Cases
    OBVIOUS
<1> HIDE DEF seen, fed, tool, cut, keep
<1> QED
    BY <1>3, <1>4, <1>5, <1>6

LEMMA CallTypes ==
    ASSUME NEW c \in CallStates, c.stopped => c.buffer = <<>>, NEW u \in Seq(Pieces)
    PROVE  LET fed == CallFeed(c, u)
           IN  /\ fed.next \in CallStates /\ (fed.next.stopped => fed.next.buffer = <<>>)
               /\ fed.visible \in Seq(Pieces)
<1> DEFINE seen == c.buffer \o u
           fed  == CallFeed(c, u)
           tool == Find(seen, OpenCall)
           cut  == Len(seen) - Bracket(seen) + 1
<1>1. seen \in Seq(Pieces)
    BY ConcatProperties DEF CallStates
<1>2. \/ c.stopped /\ fed.next = c /\ fed.visible = <<>>
      \/ /\ tool # 0 /\ fed.next = [buffer |-> <<>>, stopped |-> TRUE]
         /\ fed.visible = StripNoise(Upto(seen, tool))
      \/ /\ ~c.stopped /\ fed.next = [buffer |-> From(seen, cut), stopped |-> c.stopped]
         /\ fed.visible = Upto(seen, cut)
    BY CallCases
<1> HIDE DEF seen, fed
<1>3. tool # 0 => StripNoise(Upto(seen, tool)) \in Seq(Pieces)
    <2>1. tool # 0 => tool \in 1 .. Len(seen) + 1
        BY <1>1, FoundFacts
    <2> HIDE DEF tool
    <2>2. tool # 0 => Upto(seen, tool) \in Seq(Pieces)
        BY <1>1, <2>1, CutFacts
    <2> QED
        BY <2>2, StripNoiseTypes
<1>4. Upto(seen, cut) \in Seq(Pieces) /\ From(seen, cut) \in Seq(Pieces)
    <2>1. Bracket(seen) \in 0 .. Len(seen)
        BY <1>1, LenProperties DEF Bracket
    <2> QED
        BY <1>1, <2>1, KeptFacts
<1>5. <<>> \in Seq(Pieces)
    OBVIOUS
<1> HIDE DEF tool, cut
<1>6. /\ fed.next \in CallStates /\ (fed.next.stopped => fed.next.buffer = <<>>)
      /\ fed.visible \in Seq(Pieces)
    <2>1. CASE c.stopped /\ fed.next = c /\ fed.visible = <<>>
        BY <1>5, <2>1
    <2>2. CASE /\ tool # 0 /\ fed.next = [buffer |-> <<>>, stopped |-> TRUE]
               /\ fed.visible = StripNoise(Upto(seen, tool))
        BY <1>3, <1>5, <2>2 DEF CallStates
    <2>3. CASE /\ ~c.stopped /\ fed.next = [buffer |-> From(seen, cut), stopped |-> c.stopped]
               /\ fed.visible = Upto(seen, cut)
        BY <1>4, <2>3 DEF CallStates
    <2> QED
        BY <1>2, <2>1, <2>2, <2>3
<1> QED
    BY <1>6 DEF fed

LEMMA SplitTypes ==
    ASSUME NEW s \in Seq(Pieces), NEW thinking \in BOOLEAN, NEW tools \in BOOLEAN
    PROVE  /\ SplitFinished(s, thinking, tools).reason \in Seq(Pieces)
           /\ SplitFinished(s, thinking, tools).rest \in Seq(Pieces)
<1> DEFINE stop == Find(s, CloseThink)
           tool == Find(s, OpenCall)
<1>1. /\ tool # 0 => tool \in 1 .. Len(s) + 1
      /\ stop # 0 => stop \in 1 .. Len(s) + 1 /\ stop + Len(CloseThink) \in 1 .. Len(s) + 1
      /\ tool \in 0 .. Len(s) /\ stop \in 0 .. Len(s) /\ Len(s) \in Nat
    BY FoundFacts, LenProperties
<1>2. SplitFinished(s, thinking, tools) =
          IF ~thinking THEN [reason |-> <<>>, rest |-> s]
          ELSE IF ToolFirst(IF tools THEN tool ELSE 0, stop)
          THEN [reason |-> StripNoise(Upto(s, IF tools THEN tool ELSE 0)),
                rest |-> From(s, IF tools THEN tool ELSE 0)]
          ELSE IF stop > 0
          THEN [reason |-> Upto(s, stop), rest |-> LStrip(From(s, stop + Len(CloseThink)))]
          ELSE [reason |-> s, rest |-> <<>>]
    BY DEF SplitFinished
<1> HIDE DEF tool, stop
<1>3. /\ tool # 0 => Upto(s, tool) \in Seq(Pieces) /\ From(s, tool) \in Seq(Pieces)
      /\ stop # 0 => /\ Upto(s, stop) \in Seq(Pieces)
                     /\ From(s, stop + Len(CloseThink)) \in Seq(Pieces)
    BY <1>1, CutFacts
<1>4. /\ tool # 0 => StripNoise(Upto(s, tool)) \in Seq(Pieces)
      /\ stop # 0 => LStrip(From(s, stop + Len(CloseThink))) \in Seq(Pieces)
    BY <1>3, StripNoiseTypes, LStripTypes
<1>5. <<>> \in Seq(Pieces) /\ tool \in Nat /\ stop \in Nat
    BY <1>1
<1>6. ToolFirst(IF tools THEN tool ELSE 0, stop) => tools /\ tool # 0
    BY <1>5 DEF ToolFirst
<1>7. CASE ~thinking
    BY <1>2, <1>5, <1>7
<1>8. CASE thinking /\ ToolFirst(IF tools THEN tool ELSE 0, stop)
    BY <1>2, <1>3, <1>4, <1>6, <1>8
<1>9. CASE thinking /\ ~ToolFirst(IF tools THEN tool ELSE 0, stop) /\ stop > 0
    BY <1>2, <1>3, <1>4, <1>5, <1>9
<1>10. CASE thinking /\ ~ToolFirst(IF tools THEN tool ELSE 0, stop) /\ ~(stop > 0)
    BY <1>2, <1>5, <1>10
<1> QED
    BY <1>7, <1>8, <1>9, <1>10

LEMMA PickTypes ==
    ASSUME NEW T, NEW s \in Seq(T), NEW at, at \subseteq 1 .. Len(s),
           NEW table, \A i \in at : s[i] \in table
    PROVE  Pick(s, at) \in Seq(table)
<1>1. Len(s) \in Nat
    BY LenProperties
<1>2. \A k \in 1 .. Cardinality(at) : Nth(at, k) \in at
    BY ONLY <1>1, NthFacts, at \subseteq 1 .. Len(s)
<1>3. Cardinality(at) \in 0 .. Len(s)
    BY ONLY <1>1, CountFacts, at \subseteq 1 .. Len(s)
<1>4. PICK n \in Nat : n = Cardinality(at)
    BY <1>1, <1>3
<1>5. Pick(s, at) \in [1 .. n -> table]
    BY <1>2, <1>4 DEF Pick
<1> QED
    BY <1>4, <1>5

LEMMA ParseTypes ==
    ASSUME NEW s \in Seq(Pieces), NEW table
    PROVE  /\ ParseCalls(s, table).leading \in Seq(Pieces)
           /\ ParseCalls(s, table).calls \in Seq(table)
<1> DEFINE tool == Find(s, OpenCall)
           body == IF tool = 0 THEN s ELSE Upto(s, tool)
           at   == {i \in DOMAIN s : s[i] \in table /\ InCall(s, i)}
           p    == Pick(s, at)
<1>1. /\ ParseCalls(s, table).leading = Strip(StripNoise(body))
      /\ ParseCalls(s, table).calls = p
    BY DEF ParseCalls
<1>2. body \in Seq(Pieces)
    <2>1. tool # 0 => tool \in 1 .. Len(s) + 1
        BY FoundFacts
    <2> HIDE DEF tool
    <2> QED
        BY <2>1, CutFacts
<1>3. Strip(StripNoise(body)) \in Seq(Pieces)
    <2> HIDE DEF body
    <2> QED
        BY <1>2, StripNoiseTypes, StripTypes
<1>4. p \in Seq(table)
    <2>1. at \subseteq 1 .. Len(s) /\ (\A i \in at : s[i] \in table) /\ s \in Seq(Pieces)
        BY LenProperties
    <2> HIDE DEF at
    <2> QED
        BY ONLY <2>1, PickTypes DEF p
<1> QED
    BY <1>1, <1>3, <1>4

-----------------------------------------------------------------------------
(* Types.                                                                  *)

LEMMA TypeFacts ==
    ASSUME TypeOK
    PROVE  /\ mode.api \in {"chat", "responses"} /\ mode.thinking \in BOOLEAN
           /\ mode.tools \in BOOLEAN /\ mode.stream \in BOOLEAN
           /\ Len(text) \in Nat /\ sent \in 0 .. Len(text)
           /\ text \in Seq(Pieces) /\ answer \in Seq(Pieces)
           /\ think \in ThinkStates /\ (think.done => think.buffer = <<>>)
           /\ think.buffer \in Seq(Pieces)
           /\ splitter \in CallStates /\ (splitter.stopped => splitter.buffer = <<>>)
           /\ splitter.buffer \in Seq(Pieces)
           /\ got.content \in Seq(Pieces) /\ got.reason \in Seq(Pieces)
           /\ got.calls \in Seq({"f", "n"}) /\ got.opened \in BOOLEAN
<1>1. mode \in Modes /\ sent \in 0 .. Len(text) /\ text \in Seq(Pieces)
    BY DEF TypeOK
<1>2. Len(text) \in Nat
    BY <1>1, LenProperties
<1> QED
    BY <1>1, <1>2 DEF TypeOK, Modes, ThinkStates, CallStates

\* One chunk of the reply.
Chunk(n) == SubSeq(text, sent + 1, sent + n)

LEMMA ChunkFacts ==
    ASSUME TypeOK, NEW n \in 1 .. Len(text), sent + n <= Len(text)
    PROVE  /\ Chunk(n) \in Seq(Pieces) /\ Len(Chunk(n)) = n
           /\ \A k \in 1 .. n : Chunk(n)[k] = text[sent + k]
           /\ n \in Nat \ {0} /\ sent \in Nat /\ sent + n \in 1 .. Len(text)
<1>1. /\ text \in Seq(Pieces) /\ Len(text) \in Nat /\ sent \in Nat /\ n \in Nat \ {0}
    BY TypeFacts
<1>2. sent + 1 \in Int /\ sent + n \in Int /\ \A i \in sent + 1 .. sent + n : text[i] \in Pieces
    <2>1. \A i \in sent + 1 .. sent + n : i \in 1 .. Len(text)
        BY <1>1
    <2> QED
        BY <1>1, <2>1, ElementOfSeq
<1>3. /\ Chunk(n) \in Seq(Pieces)
      /\ Len(Chunk(n)) = IF sent + 1 <= sent + n THEN (sent + n) - (sent + 1) + 1 ELSE 0
      /\ \A k \in 1 .. (sent + n) - (sent + 1) + 1 : Chunk(n)[k] = text[(sent + 1) + k - 1]
    BY ONLY <1>2, SubSeqProperties DEF Chunk
<1>4. (sent + n) - (sent + 1) + 1 = n /\ sent + 1 <= sent + n
    BY <1>1
<1>5. \A k \in 1 .. n : (sent + 1) + k - 1 = sent + k
    BY <1>1
<1> QED
    BY <1>1, <1>3, <1>4, <1>5

\* What a handler has to say of the reply.
LEMMA TableFacts == Table \subseteq {"f", "n"}
BY DEF Table

LEMMA PlainTypes ==
    ASSUME TypeOK
    PROVE  /\ PlainReply.content \in Seq(Pieces) /\ PlainReply.reason \in Seq(Pieces)
           /\ PlainReply.calls \in Seq({"f", "n"}) /\ PlainReply.opened = FALSE
           /\ PlainReply \in [content : Seq(Pieces), reason : Seq(Pieces),
                              calls : Seq({"f", "n"}), opened : BOOLEAN]
<1> DEFINE split  == SplitFinished(text, mode.thinking, mode.tools)
           parsed == ParseCalls(split.rest, Table)
<1>1. split.reason \in Seq(Pieces) /\ split.rest \in Seq(Pieces)
    BY TypeFacts, SplitTypes
<1>2. parsed.leading \in Seq(Pieces) /\ parsed.calls \in Seq(Table)
    <2> HIDE DEF split
    <2> QED
        BY <1>1, ParseTypes
<1>3. parsed.calls \in Seq({"f", "n"})
    <2> HIDE DEF parsed
    <2> QED
        BY <1>2, TableFacts, SeqMonotonic
<1>4. PlainReply = [content |-> IF Chat /\ parsed.calls = <<>> THEN split.rest ELSE parsed.leading,
                    reason  |-> split.reason, calls |-> parsed.calls, opened |-> FALSE]
    BY DEF PlainReply
<1> HIDE DEF split, parsed
<1> QED
    BY <1>1, <1>2, <1>3, <1>4

\* One chunk through both splitters.
Fed(n)  == ThinkFeed(think, Chunk(n), mode.tools)
Told(n) == Shown(Fed(n).rest)

LEMMA FeedTypes ==
    ASSUME TypeOK, NEW n \in 1 .. Len(text), sent + n <= Len(text)
    PROVE  /\ Fed(n).next \in ThinkStates /\ (Fed(n).next.done => Fed(n).next.buffer = <<>>)
           /\ Fed(n).reason \in Seq(Pieces) /\ Fed(n).rest \in Seq(Pieces)
           /\ Told(n).next \in CallStates /\ (Told(n).next.stopped => Told(n).next.buffer = <<>>)
           /\ Told(n).visible \in Seq(Pieces)
<1>1. /\ Fed(n).next \in ThinkStates /\ (Fed(n).next.done => Fed(n).next.buffer = <<>>)
      /\ Fed(n).reason \in Seq(Pieces) /\ Fed(n).rest \in Seq(Pieces)
    BY TypeFacts, ChunkFacts, ThinkTypes DEF Fed
<1>2. CASE Splitting
    <2>1. Told(n) = CallFeed(splitter, Fed(n).rest)
        BY <1>2 DEF Told, Shown
    <2> QED
        BY <1>1, <2>1, TypeFacts, CallTypes
<1>3. CASE ~Splitting
    <2>1. Told(n) = [next |-> splitter, visible |-> Fed(n).rest]
        BY <1>3 DEF Told, Shown
    <2> QED
        BY <1>1, <2>1, TypeFacts
<1> QED
    BY <1>1, <1>2, <1>3

\* What a chunk does to the state.
LEMMA DeliverFacts ==
    ASSUME TypeOK, NEW n \in 1 .. Len(text), Deliver(n)
    PROVE  /\ phase = "engine" /\ mode.stream /\ sent + n <= Len(text) /\ sent' = sent + n
           /\ think' = Fed(n).next /\ answer' = answer \o Fed(n).rest
           /\ splitter' = IF Fed(n).rest = <<>> THEN splitter ELSE Told(n).next
           /\ got'.reason = got.reason \o Fed(n).reason
           /\ got'.content = IF Fed(n).rest = <<>> THEN got.content
                             ELSE got.content \o Told(n).visible
           /\ got'.opened = (got.opened \/ (~Chat /\ Fed(n).rest # <<>> /\ Told(n).visible # <<>>))
           /\ got'.calls = got.calls
           /\ got' \in [content : Seq(Pieces), reason : Seq(Pieces), calls : Seq({"f", "n"}),
                        opened : BOOLEAN]
           /\ UNCHANGED <<session, phase, text>>
<1> DEFINE fed == Fed(n)   show == Told(n)
<1>1. /\ phase = "engine" /\ mode.stream /\ sent + n <= Len(text) /\ sent' = sent + n
      /\ think' = fed.next /\ answer' = answer \o fed.rest
      /\ splitter' = IF fed.rest = <<>> THEN splitter ELSE show.next
      /\ got' = [got EXCEPT
                !.reason = @ \o fed.reason,
                !.content = IF fed.rest = <<>> THEN @ ELSE @ \o show.visible,
                !.opened = @ \/ (~Chat /\ fed.rest # <<>> /\ show.visible # <<>>)]
      /\ UNCHANGED <<session, phase, text>>
    BY DEF Deliver, Fed, Told, Chunk
<1>2. fed.reason \in Seq(Pieces) /\ fed.rest \in Seq(Pieces) /\ show.visible \in Seq(Pieces)
    BY <1>1, FeedTypes
<1> HIDE DEF fed, show
<1>3. got \in [content : Seq(Pieces), reason : Seq(Pieces), calls : Seq({"f", "n"}),
               opened : BOOLEAN]
    BY DEF TypeOK
<1>4. /\ got.reason \o fed.reason \in Seq(Pieces)
      /\ got.content \o show.visible \in Seq(Pieces)
    BY <1>2, <1>3, ConcatProperties
<1>5. /\ got'.reason = got.reason \o fed.reason
      /\ got'.content = IF fed.rest = <<>> THEN got.content ELSE got.content \o show.visible
      /\ got'.opened = (got.opened \/ (~Chat /\ fed.rest # <<>> /\ show.visible # <<>>))
      /\ got'.calls = got.calls
    BY <1>1, <1>3
<1>6. got' \in [content : Seq(Pieces), reason : Seq(Pieces), calls : Seq({"f", "n"}),
                opened : BOOLEAN]
    BY <1>1, <1>3, <1>4
<1> QED
    BY <1>1, <1>5, <1>6 DEF fed, show

\* What the end of a stream does to the state.
Left == IF Splitting THEN CallFlush(splitter) ELSE <<>>

LEMMA FinishFacts ==
    ASSUME TypeOK, FinishStream
    PROVE  /\ phase = "engine" /\ mode.stream /\ sent = Len(text) /\ phase' = "answered"
           /\ think'.buffer = <<>> /\ think'.done = think.done /\ think' \in ThinkStates
           /\ splitter'.buffer = <<>> /\ splitter'.stopped = splitter.stopped
           /\ splitter' \in CallStates /\ Left \in Seq(Pieces)
           /\ Left = IF Splitting THEN splitter.buffer ELSE <<>>
           /\ got'.reason = IF Chat THEN got.reason \o ThinkFlush(think, mode.tools)
                            ELSE got.reason
           /\ got'.content = got.content \o Left
           /\ got'.opened = (got.opened \/ (~Chat /\ Left # <<>>))
           /\ got'.calls = ParseCalls(answer, Table).calls
           /\ got' \in [content : Seq(Pieces), reason : Seq(Pieces), calls : Seq({"f", "n"}),
                        opened : BOOLEAN]
           /\ UNCHANGED <<mode, history, turn, prompt, prefix, text, sent, answer>>
<1> DEFINE tail == ThinkFlush(think, mode.tools)
           calls == ParseCalls(answer, Table).calls
<1>1. /\ phase = "engine" /\ mode.stream /\ sent = Len(text) /\ phase' = "answered"
      /\ think' = [think EXCEPT !.buffer = <<>>]
      /\ splitter' = [splitter EXCEPT !.buffer = <<>>]
      /\ got' = [got EXCEPT !.reason = IF Chat THEN @ \o tail ELSE @,
                            !.content = @ \o Left,
                            !.opened = @ \/ (~Chat /\ Left # <<>>),
                            !.calls = calls]
      /\ UNCHANGED <<mode, history, turn, prompt, prefix, text, sent, answer>>
    BY DEF FinishStream, Left, LeftoverOpens
<1>2. /\ think \in ThinkStates /\ splitter \in CallStates /\ splitter.buffer \in Seq(Pieces)
      /\ (splitter.stopped => splitter.buffer = <<>>) /\ think.buffer \in Seq(Pieces)
      /\ answer \in Seq(Pieces) /\ <<>> \in Seq(Pieces)
    BY TypeFacts
<1>3. Left = (IF Splitting THEN splitter.buffer ELSE <<>>) /\ Left \in Seq(Pieces)
    BY <1>2 DEF Left, CallFlush
<1>4. tail \in Seq(Pieces)
    BY <1>2, DropFacts DEF ThinkFlush
<1>5. calls \in Seq({"f", "n"})
    <2>1. calls \in Seq(Table)
        BY <1>2, ParseTypes
    <2> HIDE DEF calls
    <2> QED
        BY <2>1, TableFacts, SeqMonotonic
<1> HIDE DEF tail, calls
<1>6. got \in [content : Seq(Pieces), reason : Seq(Pieces), calls : Seq({"f", "n"}),
               opened : BOOLEAN]
    BY DEF TypeOK
<1>7. got.reason \o tail \in Seq(Pieces) /\ got.content \o Left \in Seq(Pieces)
    BY <1>3, <1>4, <1>6, ConcatProperties
<1>8. /\ got'.reason = IF Chat THEN got.reason \o tail ELSE got.reason
      /\ got'.content = got.content \o Left
      /\ got'.opened = (got.opened \/ (~Chat /\ Left # <<>>))
      /\ got'.calls = calls
    BY <1>1, <1>6
<1>9. got' \in [content : Seq(Pieces), reason : Seq(Pieces), calls : Seq({"f", "n"}),
                opened : BOOLEAN]
    BY <1>1, <1>5, <1>6, <1>7
<1>10. /\ think'.buffer = <<>> /\ think'.done = think.done /\ think' \in ThinkStates
       /\ splitter'.buffer = <<>> /\ splitter'.stopped = splitter.stopped
       /\ splitter' \in CallStates
    BY <1>1, <1>2 DEF ThinkStates, CallStates
<1> QED
    BY <1>1, <1>3, <1>8, <1>9, <1>10 DEF tail, calls

LEMMA TypeInit == Init => TypeOK
<1> SUFFICES ASSUME Init
             PROVE  TypeOK
    OBVIOUS
<1> USE DEF Init
<1>1. Nothing \in [content : Seq(Pieces), reason : Seq(Pieces), calls : Seq({"f", "n"}),
                   opened : BOOLEAN]
    BY DEF Nothing
<1>2. /\ think = [buffer |-> <<>>, done |-> TRUE]
      /\ splitter = [buffer |-> <<>>, stopped |-> FALSE]
    BY DEF NewThink, NewCalls
<1>3. /\ think \in [buffer : Seq(Pieces), done : BOOLEAN] /\ think.buffer = <<>>
      /\ splitter \in [buffer : Seq(Pieces), stopped : BOOLEAN] /\ splitter.buffer = <<>>
    BY ONLY <1>2
<1>4. turn \in 0 .. MaxTurns /\ sent \in 0 .. Len(text)
    BY TurnAssumption DEF TurnAssumption
<1> QED
    BY <1>1, <1>3, <1>4 DEF TypeOK

LEMMA TypeStep ==
    ASSUME TypeOK, [Next]_vars
    PROVE  TypeOK'
<1>1. CASE Ask
    <2>1. /\ mode' = mode /\ phase' = "engine" /\ sent' = 0 /\ answer' = <<>> /\ got' = Nothing
          /\ think' = [buffer |-> <<>>, done |-> ~mode.thinking]
          /\ splitter' = [buffer |-> <<>>, stopped |-> FALSE]
          /\ turn' = turn + 1 /\ turn < MaxTurns /\ text' \in Replies[turn + 1]
        BY <1>1 DEF Ask, NewThink, NewCalls
    <2>2. turn + 1 \in 1 .. MaxTurns
        BY <2>1, TurnAssumption DEF TypeOK, TurnAssumption
    <2>3. text' \in Seq(Pieces) /\ turn' \in 0 .. MaxTurns
        BY <2>1, <2>2, TurnAssumption DEF TurnAssumption
    <2>4. sent' \in 0 .. Len(text')
        BY <2>1, <2>3, LenProperties
    <2>5. /\ think' \in [buffer : Seq(Pieces), done : BOOLEAN] /\ think'.buffer = <<>>
          /\ splitter' \in [buffer : Seq(Pieces), stopped : BOOLEAN] /\ splitter'.buffer = <<>>
        BY <2>1
    <2>6. got' \in [content : Seq(Pieces), reason : Seq(Pieces), calls : Seq({"f", "n"}),
                    opened : BOOLEAN]
        BY <2>1 DEF Nothing
    <2> QED
        BY <2>1, <2>3, <2>4, <2>5, <2>6 DEF TypeOK
<1>2. ASSUME NEW n \in 1 .. Len(text), Deliver(n)
      PROVE  TypeOK'
    <2>1. /\ sent + n <= Len(text) /\ sent' = sent + n /\ UNCHANGED <<session, phase, text>>
          /\ think' = Fed(n).next /\ answer' = answer \o Fed(n).rest
          /\ splitter' = IF Fed(n).rest = <<>> THEN splitter ELSE Told(n).next
          /\ got' \in [content : Seq(Pieces), reason : Seq(Pieces), calls : Seq({"f", "n"}),
                       opened : BOOLEAN]
        BY <1>2, DeliverFacts
    <2>2. /\ think' \in ThinkStates /\ (think'.done => think'.buffer = <<>>)
          /\ Fed(n).rest \in Seq(Pieces)
          /\ splitter' \in CallStates /\ (splitter'.stopped => splitter'.buffer = <<>>)
        BY <2>1, FeedTypes, TypeFacts
    <2>3. answer' \in Seq(Pieces)
        BY <2>1, <2>2, TypeFacts, ConcatProperties
    <2>4. sent' \in 0 .. Len(text)
        BY <2>1, ChunkFacts, TypeFacts
    <2>5. /\ mode' = mode /\ phase' = phase /\ turn' = turn /\ text' = text
        BY <2>1 DEF session
    <2> QED
        BY <2>1, <2>2, <2>3, <2>4, <2>5 DEF TypeOK, ThinkStates, CallStates
<1>3. CASE FinishStream
    <2>1. /\ phase' = "answered" /\ mode' = mode /\ turn' = turn /\ text' = text
          /\ sent' = sent /\ answer' = answer
          /\ think'.buffer = <<>> /\ think' \in ThinkStates
          /\ splitter'.buffer = <<>> /\ splitter' \in CallStates
          /\ got' \in [content : Seq(Pieces), reason : Seq(Pieces), calls : Seq({"f", "n"}),
                       opened : BOOLEAN]
        BY <1>3, FinishFacts
    <2> QED
        BY <2>1 DEF TypeOK, ThinkStates, CallStates
<1>4. CASE AnswerPlain
    <2>1. /\ got' = PlainReply /\ sent' = Len(text) /\ phase' = "answered"
          /\ answer' = SplitFinished(text, mode.thinking, mode.tools).rest
          /\ mode' = mode /\ turn' = turn /\ text' = text /\ think' = think
          /\ splitter' = splitter
        BY <1>4 DEF AnswerPlain
    <2>2. /\ got' \in [content : Seq(Pieces), reason : Seq(Pieces), calls : Seq({"f", "n"}),
                       opened : BOOLEAN]
        BY <2>1, PlainTypes
    <2>3. answer' \in Seq(Pieces) /\ sent' \in 0 .. Len(text)
        BY <2>1, TypeFacts, SplitTypes
    <2> QED
        BY <2>1, <2>2, <2>3 DEF TypeOK
<1>5. CASE Abort
    BY <1>5 DEF Abort, TypeOK
<1>6. CASE Continue
    BY <1>6 DEF Continue, TypeOK
<1>7. CASE UNCHANGED vars
    BY <1>7 DEF vars, session, TypeOK
<1> QED
    BY <1>1, <1>2, <1>3, <1>4, <1>5, <1>6, <1>7 DEF Next

\* A handler's state and what it sends are of the declared types.
THEOREM TurnTypes == Spec => []TypeOK
<1>1. TypeOK /\ [Next]_vars => TypeOK'
    BY TypeStep
<1> QED
    BY TypeInit, <1>1, PTL DEF Spec

-----------------------------------------------------------------------------
(* The invariants of the two splitters.                                    *)

Ends(s, piece) == Len(s) > 0 /\ s[Len(s)] = piece

\* What the tool-call splitter has shown of the answer: all but an opening
\* "<", or, once a call was found, the text before it without noise.
CallFlowOf(content, c, ans) ==
    IF c.stopped
    THEN /\ Find(ans, OpenCall) # 0
         /\ \E a, b \in Seq(Pieces) : /\ a \o b = Upto(ans, Find(ans, OpenCall))
                                      /\ content = a \o StripNoise(b)
    ELSE /\ content \o c.buffer = ans /\ Find(ans, OpenCall) = 0
         /\ c.buffer \in {<<>>, <<"<">>}
         /\ Ends(ans, "<") => c.buffer # <<>>

\* What the reasoning splitter has shown of the reasoning.
ThinkFlowOf(reason, b, last) ==
    /\ Hits(reason \o b, OpenCall) = {}
    /\ last = "<" => Ends(b, "<")
    /\ last = "/" => Ends(reason \o b, "/")

Held == {<<>>, <<"<">>, <<"<", "/">>}
Recent == IF sent = 0 THEN "" ELSE text[sent]

Streaming == mode.stream /\ phase = "engine"

CallFlow  == Streaming /\ Splitting => CallFlowOf(got.content, splitter, answer)
Opened    == Streaming /\ ~Chat /\ ~got.opened => got.content = <<>>
ThinkFlow == Streaming /\ ~think.done =>
                 /\ answer = <<>> /\ think.buffer \in Held
                 /\ mode.tools => ThinkFlowOf(got.reason, think.buffer, Recent)
AnswerFlow == Streaming /\ think.done =>
                 Sound(answer) /\ (Recent \in {"<", "/"} => Ends(answer, Recent))

-----------------------------------------------------------------------------
(* Tool calls in a text that grows.                                        *)

LEMMA Reassociated ==
    ASSUME NEW T
    PROVE  \A x, y, z \in Seq(T) : (x \o y) \o z = x \o (y \o z)
BY ConcatAssociative, SMTT(60)

LEMMA JoinFacts ==
    ASSUME NEW T, NEW a \in Seq(T), NEW b \in Seq(T)
    PROVE  /\ a \o b \in Seq(T) /\ Len(a) \in Nat /\ Len(b) \in Nat
           /\ Len(a \o b) = Len(a) + Len(b)
           /\ \A i \in 1 .. Len(a) : (a \o b)[i] = a[i]
           /\ \A i \in 1 .. Len(b) : (a \o b)[Len(a) + i] = b[i]
           /\ \A i \in Len(a) + 1 .. Len(a) + Len(b) : (a \o b)[i] = b[i - Len(a)]
<1>1. Len(a) \in Nat /\ Len(b) \in Nat
    BY LenProperties
<1>2. /\ a \o b \in Seq(T) /\ Len(a \o b) = Len(a) + Len(b)
      /\ \A i \in 1 .. Len(a) + Len(b) :
            (a \o b)[i] = IF i <= Len(a) THEN a[i] ELSE b[i - Len(a)]
    BY ConcatProperties
<1>3. \A i \in 1 .. Len(b) : /\ Len(a) + i \in 1 .. Len(a) + Len(b)
                             /\ ~(Len(a) + i <= Len(a)) /\ Len(a) + i - Len(a) = i
    BY <1>1
<1>4. \A i \in 1 .. Len(a) : i \in 1 .. Len(a) + Len(b) /\ i <= Len(a)
    BY <1>1
<1>5. \A i \in Len(a) + 1 .. Len(a) + Len(b) : i \in 1 .. Len(a) + Len(b) /\ ~(i <= Len(a))
    BY <1>1
<1> QED
    BY <1>1, <1>2, <1>3, <1>4, <1>5

LEMMA FoundOpenCall ==
    ASSUME NEW s \in Seq(Pieces)
    PROVE  /\ Find(s, OpenCall) \in 0 .. Len(s)
           /\ Find(s, OpenCall) = 0 <=> Hits(s, OpenCall) = {}
           /\ Find(s, OpenCall) # 0 => Find(s, OpenCall) \in Hits(s, OpenCall)
           /\ \A h \in Hits(s, OpenCall) : Find(s, OpenCall) <= h
BY TagsAreTexts, FindFacts

\* A call that was found stays where it is when the text goes on.
LEMMA FoundStays ==
    ASSUME NEW s \in Seq(Pieces), NEW u \in Seq(Pieces), Find(s, OpenCall) # 0
    PROVE  /\ Find(s \o u, OpenCall) = Find(s, OpenCall)
           /\ Upto(s \o u, Find(s, OpenCall)) = Upto(s, Find(s, OpenCall))
<1> DEFINE t == Find(s, OpenCall)   w == s \o u
<1>1. /\ w \in Seq(Pieces) /\ Len(s) \in Nat /\ Len(u) \in Nat /\ Len(w) = Len(s) + Len(u)
      /\ \A i \in 1 .. Len(s) : w[i] = s[i]
    BY JoinFacts
<1> HIDE DEF w
<1>2. t \in Hits(s, OpenCall) /\ \A h \in Hits(s, OpenCall) : t <= h
    BY FoundOpenCall
<1>3. t \in 1 .. Len(s) - 1 /\ s[t] = "<" /\ s[t + 1] = "tool_call>"
    BY <1>2, OpenCallHits
<1> HIDE DEF t
<1>4. t \in Hits(w, OpenCall)
    <2>1. t \in 1 .. Len(w) - 1 /\ t \in 1 .. Len(s) /\ t + 1 \in 1 .. Len(s)
        BY <1>1, <1>3
    <2> QED
        BY <1>1, <1>3, <2>1, OpenCallHits
<1>5. ASSUME NEW h \in Hits(w, OpenCall)
      PROVE  t <= h
    <2>1. h \in 1 .. Len(w) - 1 /\ w[h] = "<" /\ w[h + 1] = "tool_call>"
        BY <1>1, OpenCallHits
    <2>2. CASE h + 1 <= Len(s)
        <3>1. h \in 1 .. Len(s) /\ h + 1 \in 1 .. Len(s) /\ h \in 1 .. Len(s) - 1
            BY <1>1, <2>1, <2>2
        <3>2. s[h] = "<" /\ s[h + 1] = "tool_call>"
            BY <1>1, <2>1, <3>1
        <3>3. h \in Hits(s, OpenCall)
            BY ONLY s \in Seq(Pieces), <3>1, <3>2, OpenCallHits
        <3> QED
            BY ONLY <1>2, <3>3
    <2>3. CASE h + 1 > Len(s)
        BY <1>1, <1>3, <2>1, <2>3
    <2> QED
        BY <1>1, <2>1, <2>2, <2>3
<1>6. Find(w, OpenCall) = t
    <2>1. /\ Find(w, OpenCall) \in Hits(w, OpenCall)
          /\ \A h \in Hits(w, OpenCall) : Find(w, OpenCall) <= h
        BY <1>1, <1>4, FoundOpenCall
    <2>2. Find(w, OpenCall) <= t /\ t <= Find(w, OpenCall)
        BY <1>4, <1>5, <2>1
    <2>3. Find(w, OpenCall) \in Int /\ t \in Int
        BY <1>1, <1>3, FoundOpenCall
    <2> QED
        BY <2>2, <2>3
<1>7. Upto(w, t) = Upto(s, t)
    <2>1. t \in 1 .. Len(s) + 1 /\ t \in 1 .. Len(w) + 1
        BY <1>1, <1>3
    <2>2. /\ Upto(s, t) \in Seq(Pieces) /\ Len(Upto(s, t)) = t - 1
          /\ \A k \in 1 .. t - 1 : Upto(s, t)[k] = s[k]
        BY <2>1, CutFacts
    <2>3. /\ Upto(w, t) \in Seq(Pieces) /\ Len(Upto(w, t)) = t - 1
          /\ \A k \in 1 .. t - 1 : Upto(w, t)[k] = w[k]
        BY <1>1, <2>1, CutFacts
    <2>4. \A k \in 1 .. t - 1 : w[k] = s[k]
        BY <1>1, <1>3
    <2> QED
        BY <2>2, <2>3, <2>4, SeqEqual
<1> QED
    BY <1>6, <1>7 DEF t, w

\* Behind a text without a call, and without a tag split at the seam, calls
\* are found where the rest has them.
LEMMA FoundBehind ==
    ASSUME NEW a \in Seq(Pieces), NEW s \in Seq(Pieces), Hits(a, OpenCall) = {},
           ~(Ends(a, "<") /\ Len(s) > 0 /\ s[1] = "tool_call>")
    PROVE  /\ Find(s, OpenCall) = 0 => Hits(a \o s, OpenCall) = {}
           /\ Find(s, OpenCall) # 0 => Find(a \o s, OpenCall) = Len(a) + Find(s, OpenCall)
<1> DEFINE t == Find(s, OpenCall)   w == a \o s
<1>1. /\ w \in Seq(Pieces) /\ Len(a) \in Nat /\ Len(s) \in Nat /\ Len(w) = Len(a) + Len(s)
      /\ \A i \in 1 .. Len(a) : w[i] = a[i]
      /\ \A i \in 1 .. Len(s) : w[Len(a) + i] = s[i]
    BY JoinFacts
<1> HIDE DEF w
<1>2. ASSUME NEW h \in Hits(w, OpenCall)
      PROVE  h - Len(a) \in Hits(s, OpenCall)
    <2>1. h \in 1 .. Len(w) - 1 /\ w[h] = "<" /\ w[h + 1] = "tool_call>"
        BY <1>1, OpenCallHits
    <2>2. CASE h < Len(a)
        <3>1. h \in 1 .. Len(a) /\ h + 1 \in 1 .. Len(a) /\ h \in 1 .. Len(a) - 1
            BY <1>1, <2>1, <2>2
        <3>2. h \in Hits(a, OpenCall)
            BY <1>1, <2>1, <3>1, OpenCallHits
        <3> QED
            BY <3>2
    <2>3. CASE h = Len(a)
        <3>1. Len(a) > 0 /\ a[Len(a)] = "<"
            BY <1>1, <2>1, <2>3
        <3>2. Len(s) > 0 /\ 1 \in 1 .. Len(s)
            BY <1>1, <2>1, <2>3
        <3>3. s[1] = "tool_call>"
            BY <1>1, <2>1, <2>3, <3>2
        <3> QED
            BY <3>1, <3>2, <3>3 DEF Ends
    <2>4. CASE h > Len(a)
        <3>a. h - Len(a) \in 1 .. Len(s) - 1
            BY <1>1, <2>1, <2>4
        <3>1. PICK k \in 1 .. Len(s) - 1 : k = h - Len(a)
            BY ONLY <3>a
        <3>2. /\ k \in 1 .. Len(s) /\ k + 1 \in 1 .. Len(s)
              /\ h = Len(a) + k /\ h + 1 = Len(a) + (k + 1)
            BY <1>1, <2>1, <3>1
        <3>3. s[k] = "<" /\ s[k + 1] = "tool_call>"
            BY <1>1, <2>1, <3>2
        <3> QED
            BY <3>1, <3>3, OpenCallHits
    <2> QED
        BY <1>1, <2>1, <2>2, <2>3, <2>4
<1>3. t = 0 => Hits(w, OpenCall) = {}
    BY <1>2, FoundOpenCall
<1>4. ASSUME t # 0
      PROVE  Find(w, OpenCall) = Len(a) + t
    <2>1. t \in Hits(s, OpenCall) /\ \A h \in Hits(s, OpenCall) : t <= h
        BY <1>4, FoundOpenCall
    <2>2. t \in 1 .. Len(s) - 1 /\ s[t] = "<" /\ s[t + 1] = "tool_call>"
        BY <2>1, OpenCallHits
    <2> HIDE DEF t
    <2>3. /\ t \in 1 .. Len(s) /\ t + 1 \in 1 .. Len(s) /\ Len(a) + t \in 1 .. Len(w) - 1
          /\ (Len(a) + t) + 1 = Len(a) + (t + 1)
        BY <1>1, <2>2
    <2>4. Len(a) + t \in Hits(w, OpenCall)
        BY <1>1, <2>2, <2>3, OpenCallHits
    <2>5. /\ Find(w, OpenCall) \in Hits(w, OpenCall) /\ Find(w, OpenCall) <= Len(a) + t
          /\ Find(w, OpenCall) \in Nat
        BY <1>1, <2>4, FoundOpenCall
    <2>6. t <= Find(w, OpenCall) - Len(a)
        BY <1>2, <2>1, <2>5
    <2>7. t \in Nat
        BY <2>2
    <2>8. PICK f \in Nat : f = Find(w, OpenCall)
        BY <2>5
    <2>9. f <= Len(a) + t /\ t <= f - Len(a) /\ Len(a) \in Nat
        BY <1>1, <2>5, <2>6, <2>8
    <2>10. f = Len(a) + t
        BY ONLY f \in Nat, <2>7, <2>9
    <2> QED
        BY <2>8, <2>10
<1> QED
    BY <1>3, <1>4 DEF t, w

\* A beginning has no calls but those of the whole, and a part of a sound
\* text is sound.
LEMMA BeginningQuiet ==
    ASSUME NEW w \in Seq(Pieces), NEW p \in Seq(Pieces), Len(p) <= Len(w),
           \A i \in 1 .. Len(p) : p[i] = w[i],
           \A h \in Hits(w, OpenCall) : h >= Len(p)
    PROVE  Hits(p, OpenCall) = {}
<1> SUFFICES ASSUME NEW h \in Hits(p, OpenCall)
             PROVE  FALSE
    OBVIOUS
<1>1. h \in 1 .. Len(p) - 1 /\ p[h] = "<" /\ p[h + 1] = "tool_call>"
    BY OpenCallHits
<1>2. /\ h \in 1 .. Len(p) /\ h + 1 \in 1 .. Len(p) /\ h \in 1 .. Len(w) - 1
      /\ ~(h >= Len(p))
    BY <1>1, LenProperties
<1>3. h \in Hits(w, OpenCall)
    BY <1>1, <1>2, OpenCallHits
<1> QED
    BY <1>2, <1>3

LEMMA SoundParts ==
    ASSUME NEW s \in Seq(Pieces), Sound(s), NEW i \in 1 .. Len(s) + 1
    PROVE  Sound(Upto(s, i)) /\ Sound(From(s, i))
<1>1. Len(s) \in Nat
    BY LenProperties
<1>2. /\ Len(Upto(s, i)) = i - 1 /\ \A k \in 1 .. i - 1 : Upto(s, i)[k] = s[k]
      /\ Len(From(s, i)) = Len(s) - i + 1
      /\ \A k \in 1 .. Len(s) - i + 1 : From(s, i)[k] = s[i + k - 1]
    BY CutFacts
<1>3. ASSUME NEW k \in 2 .. Len(Upto(s, i)), Upto(s, i)[k] = "tool_call>"
      PROVE  Upto(s, i)[k - 1] \in {"<", "/"}
    <2>1. k \in 1 .. i - 1 /\ k - 1 \in 1 .. i - 1 /\ k \in 2 .. Len(s)
        BY <1>1, <1>2
    <2> QED
        BY <1>2, <1>3, <2>1 DEF Sound
<1>4. ASSUME NEW k \in 2 .. Len(From(s, i)), From(s, i)[k] = "tool_call>"
      PROVE  From(s, i)[k - 1] \in {"<", "/"}
    <2>1. PICK m \in 2 .. Len(s) : m = i + k - 1
        BY <1>1, <1>2
    <2>2. /\ k \in 1 .. Len(s) - i + 1 /\ k - 1 \in 1 .. Len(s) - i + 1
          /\ i + (k - 1) - 1 = m - 1
        BY <1>1, <1>2, <2>1
    <2>3. s[m] = "tool_call>" /\ From(s, i)[k - 1] = s[m - 1]
        BY <1>2, <1>4, <2>1, <2>2
    <2> QED
        BY <2>3 DEF Sound
<1> QED
    BY <1>3, <1>4 DEF Sound

\* A chunk of the answer through the tool-call splitter.
LEMMA CallFlowKept ==
    ASSUME NEW content \in Seq(Pieces), NEW c \in CallStates, c.stopped => c.buffer = <<>>,
           NEW ans \in Seq(Pieces), NEW u \in Seq(Pieces), u # <<>>,
           CallFlowOf(content, c, ans)
    PROVE  CallFlowOf(content \o CallFeed(c, u).visible, CallFeed(c, u).next, ans \o u)
<1> DEFINE seen == c.buffer \o u
           fed  == CallFeed(c, u)
           tool == Find(seen, OpenCall)
           cut  == Len(seen) - Bracket(seen) + 1
           all  == ans \o u
<1>1. c.buffer \in Seq(Pieces) /\ Len(u) \in Nat \ {0}
    BY LenProperties, EmptySeq DEF CallStates
<1>2. /\ all \in Seq(Pieces) /\ Len(all) = Len(ans) + Len(u) /\ Len(ans) \in Nat
      /\ \A i \in 1 .. Len(u) : all[Len(ans) + i] = u[i]
    BY JoinFacts
<1>3. /\ seen \in Seq(Pieces) /\ Len(seen) = Len(c.buffer) + Len(u) /\ Len(c.buffer) \in Nat
      /\ \A i \in 1 .. Len(c.buffer) : seen[i] = c.buffer[i]
      /\ \A i \in 1 .. Len(u) : seen[Len(c.buffer) + i] = u[i]
    BY <1>1, JoinFacts
<1>4. \/ c.stopped /\ fed.next = c /\ fed.visible = <<>>
      \/ /\ ~c.stopped /\ tool # 0
         /\ fed.next = [buffer |-> <<>>, stopped |-> TRUE]
         /\ fed.visible = StripNoise(Upto(seen, tool))
      \/ /\ ~c.stopped /\ tool = 0
         /\ fed.next = [buffer |-> From(seen, cut), stopped |-> c.stopped]
         /\ fed.visible = Upto(seen, cut)
    BY CallCases
<1> HIDE DEF seen, fed, all
<1>5. CASE c.stopped /\ fed.next = c /\ fed.visible = <<>>
    <2>1. content \o fed.visible = content
        BY <1>5, ConcatEmptySeq
    <2>2. /\ Find(ans, OpenCall) # 0
          /\ \E a, b \in Seq(Pieces) : /\ a \o b = Upto(ans, Find(ans, OpenCall))
                                       /\ content = a \o StripNoise(b)
        BY <1>5 DEF CallFlowOf
    <2>3. /\ Find(all, OpenCall) = Find(ans, OpenCall)
          /\ Upto(all, Find(ans, OpenCall)) = Upto(ans, Find(ans, OpenCall))
        BY <2>2, FoundStays DEF all
    <2> QED
        BY <1>5, <2>1, <2>2, <2>3 DEF CallFlowOf, all, fed
<1>6. ASSUME ~c.stopped
      PROVE  /\ tool = 0 => Find(all, OpenCall) = 0
             /\ tool # 0 => Find(all, OpenCall) = Len(content) + tool
             /\ content \o seen = all
    <2>1. /\ content \o c.buffer = ans /\ Find(ans, OpenCall) = 0
          /\ c.buffer \in {<<>>, <<"<">>}
          /\ Ends(ans, "<") => c.buffer # <<>>
        BY <1>6 DEF CallFlowOf
    <2>2. content \o seen = all
        <3>1. (content \o c.buffer) \o u = content \o (c.buffer \o u)
            <4>1. content \in Seq(Pieces) /\ c.buffer \in Seq(Pieces) /\ u \in Seq(Pieces)
                BY <1>1
            <4>2. PICK e \in Seq(Pieces) : e = c.buffer
                BY <4>1
            <4>3. (content \o e) \o u = content \o (e \o u)
                BY ONLY <4>1, e \in Seq(Pieces), ConcatAssociative, SMTT(60)
            <4> QED
                BY <4>2, <4>3
        <3> QED
            BY <2>1, <3>1 DEF seen, all
    <2>3. /\ Len(ans) = Len(content) + Len(c.buffer) /\ Len(content) \in Nat
          /\ \A i \in 1 .. Len(content) : ans[i] = content[i]
        BY <1>1, <2>1, JoinFacts
    <2>4. Hits(content, OpenCall) = {}
        <3>1. Hits(ans, OpenCall) = {}
            BY <2>1, FoundOpenCall
        <3>2. Len(content) <= Len(ans)
            BY <1>3, <2>3
        <3> QED
            BY <2>3, <3>1, <3>2, BeginningQuiet
    <2>5. ~(Ends(content, "<") /\ Len(seen) > 0 /\ seen[1] = "tool_call>")
        <3>1. CASE c.buffer = <<>>
            <4>1. Len(c.buffer) = 0
                BY <3>1
            <4>2. Len(ans) = Len(content)
                BY <2>3, <4>1
            <4>3. Ends(content, "<") => Ends(ans, "<")
                <5> SUFFICES ASSUME Len(content) > 0, content[Len(content)] = "<"
                             PROVE  Len(ans) > 0 /\ ans[Len(ans)] = "<"
                    BY DEF Ends
                <5>1. Len(content) \in 1 .. Len(content)
                    BY <2>3
                <5> QED
                    BY <2>3, <4>2, <5>1
            <4> QED
                BY <2>1, <3>1, <4>3
        <3>2. CASE c.buffer = <<"<">>
            <4>1. Len(c.buffer) = 1 /\ c.buffer[1] = "<"
                BY <3>2
            <4>2. seen[1] = "<"
                BY <1>3, <4>1
            <4> QED
                BY <4>2
        <3> QED
            BY <2>1, <3>1, <3>2
    <2>6. /\ tool = 0 => Hits(content \o seen, OpenCall) = {}
          /\ tool # 0 => Find(content \o seen, OpenCall) = Len(content) + tool
        BY <1>3, <2>4, <2>5, FoundBehind
    <2> HIDE DEF tool
    <2> QED
        BY <1>2, <2>2, <2>6, FoundOpenCall
<1>t. tool # 0 => tool \in 1 .. Len(seen) + 1
    BY <1>3, FoundFacts
<1>7. CASE /\ ~c.stopped /\ tool # 0
           /\ fed.next = [buffer |-> <<>>, stopped |-> TRUE]
           /\ fed.visible = StripNoise(Upto(seen, tool))
    <2> HIDE DEF tool
    <2>1. /\ Find(all, OpenCall) = Len(content) + tool /\ content \o seen = all
          /\ tool \in 1 .. Len(seen) + 1 /\ Len(content) \in Nat
        BY <1>6, <1>7, <1>t, LenProperties
    <2> DEFINE b == Upto(seen, tool)   t == Len(content) + tool
    <2>2. /\ b \in Seq(Pieces) /\ Len(b) = tool - 1
          /\ \A k \in 1 .. tool - 1 : b[k] = seen[k]
        BY <1>3, <2>1, CutFacts
    <2>3. /\ Len(all) = Len(content) + Len(seen)
          /\ \A i \in 1 .. Len(content) : all[i] = content[i]
          /\ \A i \in Len(content) + 1 .. Len(content) + Len(seen) : all[i] = seen[i - Len(content)]
        <3>1. /\ Len(content \o seen) = Len(content) + Len(seen)
              /\ \A i \in 1 .. Len(content) : (content \o seen)[i] = content[i]
              /\ \A i \in Len(content) + 1 .. Len(content) + Len(seen) :
                    (content \o seen)[i] = seen[i - Len(content)]
            <4>1. content \in Seq(Pieces) /\ seen \in Seq(Pieces)
                BY <1>3
            <4> QED
                BY ONLY <4>1, JoinFacts
        <3> QED
            BY ONLY <2>1, <3>1
    <2>4. t \in 1 .. Len(all) + 1 /\ t # 0
        <3>1. Len(seen) \in Nat
            BY ONLY <1>3, LenProperties
        <3> QED
            BY ONLY <2>1, <2>3, <3>1
    <2>5. /\ Upto(all, t) \in Seq(Pieces) /\ Len(Upto(all, t)) = t - 1
          /\ \A k \in 1 .. t - 1 : Upto(all, t)[k] = all[k]
        <3> HIDE DEF t
        <3> QED
            BY <1>2, <2>4, CutFacts
    <2> HIDE DEF b
    <2>6. /\ content \o b \in Seq(Pieces) /\ Len(content \o b) = Len(content) + Len(b)
          /\ \A i \in 1 .. Len(content) : (content \o b)[i] = content[i]
          /\ \A i \in Len(content) + 1 .. Len(content) + Len(b) :
                (content \o b)[i] = b[i - Len(content)]
        BY <2>2, JoinFacts, ZenonT(40)
    <2>7. content \o b = Upto(all, t)
        <3>1. Len(content \o b) = t - 1
            BY <1>3, <2>1, <2>2, <2>6
        <3>2. ASSUME NEW k \in 1 .. t - 1
              PROVE  (content \o b)[k] = all[k]
            <4>k. k \in Int
                OBVIOUS
            <4>1. CASE k <= Len(content)
                <5>1. k \in 1 .. Len(content)
                    BY <2>1, <3>2, <4>1
                <5> QED
                    BY <2>3, <2>6, <5>1
            <4>2. CASE k > Len(content)
                <5>1. /\ k \in Len(content) + 1 .. Len(content) + Len(b)
                      /\ k \in Len(content) + 1 .. Len(content) + Len(seen)
                      /\ k - Len(content) \in 1 .. tool - 1
                    <6>1. /\ Len(content) \in Nat /\ tool \in 1 .. Len(seen) + 1 /\ Len(seen) \in Nat
                          /\ Len(b) = tool - 1
                        BY ONLY <1>3, <2>1, <2>2, LenProperties
                    <6>2. k \in 1 .. (Len(content) + tool) - 1
                        BY <3>2
                    <6> QED
                        BY ONLY <4>2, <6>1, <6>2
                <5>2. all[k] = seen[k - Len(content)] /\ (content \o b)[k] = b[k - Len(content)]
                    BY ONLY <2>3, <2>6, <5>1
                <5> QED
                    BY ONLY <2>2, <5>1, <5>2
            <4> QED
                <5>1. Len(content) \in Nat
                    BY <2>1
                <5>2. k <= Len(content) \/ k > Len(content)
                    BY ONLY <4>k, <5>1
                <5> QED
                    BY ONLY <4>1, <4>2, <5>2
        <3>3. Len(content \o b) = Len(Upto(all, t))
            BY <2>5, <3>1
        <3>4. \A k \in 1 .. Len(content \o b) : (content \o b)[k] = Upto(all, t)[k]
            BY ONLY <2>5, <3>1, <3>2
        <3> QED
            BY ONLY <2>5, <2>6, <3>3, <3>4, SeqEqual
    <2>8. Find(all, OpenCall) = t /\ t # 0
        BY <2>1, <2>4
    <2>9. content \o fed.visible = content \o StripNoise(b)
        BY <1>7 DEF b
    <2>10. fed.next.stopped
        BY <1>7
    <2> HIDE DEF t
    <2>11. /\ Find(all, OpenCall) # 0
           /\ \E a, d \in Seq(Pieces) : /\ a \o d = Upto(all, Find(all, OpenCall))
                                        /\ content \o fed.visible = a \o StripNoise(d)
        BY <2>2, <2>7, <2>8, <2>9
    <2> QED
        BY <2>10, <2>11 DEF CallFlowOf, fed, all
<1>8. CASE /\ ~c.stopped /\ tool = 0
           /\ fed.next = [buffer |-> From(seen, cut), stopped |-> c.stopped]
           /\ fed.visible = Upto(seen, cut)
    <2> HIDE DEF tool
    <2>1. Find(all, OpenCall) = 0 /\ content \o seen = all
        BY <1>6, <1>8
    <2> DEFINE keep == Bracket(seen)   v == Upto(seen, cut)   b == From(seen, cut)
    <2>2. keep \in 0 .. Len(seen) /\ keep \in {0, 1} /\ Len(seen) \in Nat \ {0}
        BY <1>1, <1>3 DEF Bracket
    <2>3. /\ v \in Seq(Pieces) /\ b \in Seq(Pieces) /\ Len(b) = keep
          /\ \A k \in 1 .. keep : b[k] = seen[Len(seen) - keep + k]
          /\ v \o b = seen
        BY <1>3, <2>2, KeptFacts
    <2>k. keep = IF Len(seen) > 0 /\ seen[Len(seen)] = "<" THEN 1 ELSE 0
        BY DEF Bracket
    <2> HIDE DEF v, b, keep
    <2>4. (content \o v) \o b = all
        <3>1. (content \o v) \o b = content \o (v \o b)
            <4>1. content \in Seq(Pieces) /\ v \in Seq(Pieces) /\ b \in Seq(Pieces)
                BY <2>3
            <4> QED
                BY ONLY <4>1, ConcatAssociative, SMTT(60)
        <3> QED
            BY <2>1, <2>3, <3>1
    <2>5. b \in {<<>>, <<"<">>}
        <3>1. CASE keep = 0
            BY <2>3, <3>1, EmptySeq
        <3>2. CASE keep = 1
            <4>1. Len(b) = 1 /\ 1 \in 1 .. keep /\ Len(seen) - keep + 1 = Len(seen)
                BY <2>2, <2>3, <3>2
            <4>2. b[1] = "<"
                BY <2>k, <2>3, <3>2, <4>1
            <4>3. b = <<"<">>
                BY <2>3, <4>1, <4>2
            <4> QED
                BY <4>3
        <3> QED
            BY <2>2, <3>1, <3>2
    <2>6. Ends(all, "<") => b # <<>>
        <3> SUFFICES ASSUME all[Len(all)] = "<"
                     PROVE  Len(b) # 0
            BY DEF Ends
        <3>1. all[Len(all)] = u[Len(u)] /\ seen[Len(seen)] = u[Len(u)]
            <4>1. Len(u) \in 1 .. Len(u)
                BY <1>1
            <4> QED
                BY <1>2, <1>3, <4>1
        <3> QED
            BY <2>2, <2>k, <2>3, <3>1
    <2>7. fed.next.buffer = b /\ fed.visible = v /\ ~fed.next.stopped
        BY <1>8 DEF v, b
    <2> QED
        BY <2>1, <2>4, <2>5, <2>6, <2>7 DEF CallFlowOf, fed, all
<1> HIDE DEF tool, cut
<1> QED
    BY <1>4, <1>5, <1>7, <1>8

\* What it has shown holds no call, and neither does it with what is held back.
LEMMA CallFlowQuiet ==
    ASSUME NEW content \in Seq(Pieces), NEW c \in CallStates, c.stopped => c.buffer = <<>>,
           NEW ans \in Seq(Pieces), Sound(ans), CallFlowOf(content, c, ans)
    PROVE  Hits(content, OpenCall) = {} /\ Hits(content \o c.buffer, OpenCall) = {}
<1>1. c.buffer \in Seq(Pieces)
    BY DEF CallStates
<1>2. /\ Len(content \o c.buffer) = Len(content) + Len(c.buffer) /\ Len(content) \in Nat
      /\ content \o c.buffer \in Seq(Pieces) /\ Len(c.buffer) \in Nat
      /\ \A i \in 1 .. Len(content) : (content \o c.buffer)[i] = content[i]
    BY <1>1, JoinFacts
<1>3. CASE ~c.stopped
    <2>1. Hits(content \o c.buffer, OpenCall) = {}
        BY <1>3, FoundOpenCall DEF CallFlowOf
    <2>2. Len(content) <= Len(content \o c.buffer)
        BY <1>2
    <2> QED
        BY <1>2, <2>1, <2>2, BeginningQuiet
<1>4. CASE c.stopped
    <2> DEFINE t == Find(ans, OpenCall)
    <2>1. PICK a \in Seq(Pieces), b \in Seq(Pieces) :
              a \o b = Upto(ans, t) /\ content = a \o StripNoise(b)
        BY <1>4 DEF CallFlowOf
    <2>2. t # 0 /\ t \in 1 .. Len(ans) + 1 /\ \A h \in Hits(ans, OpenCall) : h >= t
        <3>1. t # 0 /\ t \in 0 .. Len(ans) /\ (\A h \in Hits(ans, OpenCall) : t <= h)
            BY <1>4, FoundOpenCall DEF CallFlowOf
        <3>2. \A h \in Hits(ans, OpenCall) : h \in Int
            BY DEF Hits
        <3> HIDE DEF t
        <3> QED
            BY <3>1, <3>2, LenProperties
    <2> HIDE DEF t
    <2>3. /\ Upto(ans, t) \in Seq(Pieces) /\ Len(Upto(ans, t)) = t - 1
          /\ \A k \in 1 .. t - 1 : Upto(ans, t)[k] = ans[k]
        BY <2>2, CutFacts
    <2>4. Hits(Upto(ans, t), OpenCall) = {}
        <3>1. /\ Len(Upto(ans, t)) <= Len(ans)
              /\ \A h \in Hits(ans, OpenCall) : h >= Len(Upto(ans, t))
            <4>1. \A h \in Hits(ans, OpenCall) : h \in Int
                BY DEF Hits
            <4> QED
                BY <2>2, <2>3, <4>1, LenProperties
        <3> QED
            BY <2>3, <3>1, BeginningQuiet
    <2>5. Sound(Upto(ans, t))
        BY <2>2, SoundParts
    <2>6. Hits(content, OpenCall) = {}
        BY <2>1, <2>4, <2>5, StrippedQuietly
    <2>7. content \o c.buffer = content
        BY <1>4, ConcatEmptySeq
    <2> QED
        BY <2>6, <2>7
<1> QED
    BY <1>3, <1>4

\* When nothing was shown to the end, nothing leads the calls.
LEMMA CallFlowSilent ==
    ASSUME NEW content \in Seq(Pieces), NEW c \in CallStates,
           NEW ans \in Seq(Pieces), CallFlowOf(content, c, ans), NEW table,
           content = <<>>, ~c.stopped => c.buffer = <<>>
    PROVE  ParseCalls(ans, table).leading = <<>>
<1> DEFINE t == Find(ans, OpenCall)
<1>1. ParseCalls(ans, table).leading = Strip(StripNoise(IF t = 0 THEN ans ELSE Upto(ans, t)))
    BY DEF ParseCalls
<1>2. <<>> \in Seq(Pieces)
    OBVIOUS
<1>3. CASE ~c.stopped
    <2>1. t = 0 /\ ans = content \o c.buffer
        BY <1>3 DEF CallFlowOf
    <2>2. ans = <<>>
        BY <1>2, <1>3, <2>1, ConcatEmptySeq
    <2>3. StripNoise(<<>>) = <<>> /\ Strip(<<>>) = <<>>
        BY <1>2, StripNoiseTypes, StripTypes
    <2> QED
        BY <1>1, <2>1, <2>2, <2>3
<1>4. CASE c.stopped
    <2>1. t # 0
        BY <1>4 DEF CallFlowOf
    <2>2. PICK a \in Seq(Pieces), b \in Seq(Pieces) :
              a \o b = Upto(ans, t) /\ content = a \o StripNoise(b)
        BY <1>4 DEF CallFlowOf
    <2> HIDE DEF t
    <2>3. StripNoise(b) \in Seq(Pieces)
        BY StripNoiseTypes
    <2>4. a = <<>> /\ StripNoise(b) = <<>>
        <3>1. a \in Seq(Pieces) /\ StripNoise(b) \in Seq(Pieces) /\ a \o StripNoise(b) = <<>>
            BY <2>2, <2>3
        <3> QED
            BY ONLY <3>1, ConcatEqualIffEmpty
    <2>5. a \o b = b
        BY <2>4, ConcatEmptySeq
    <2>6. Strip(<<>>) = <<>>
        BY <1>2, StripTypes
    <2> QED
        BY <1>1, <2>1, <2>2, <2>4, <2>5, <2>6
<1> QED
    BY <1>3, <1>4

LEMMA HeldFacts ==
    /\ Held \subseteq Seq(Pieces)
    /\ \A b \in Held : /\ b # <<>> => Len(b) > 0 /\ b[1] = "<"
                       /\ b = <<>> => Len(b) = 0
                       /\ \A i \in 1 .. Len(b) : b[i] \in {"<", "/"}
<1>1. ASSUME NEW b \in Held
      PROVE  /\ b \in Seq(Pieces) /\ (b # <<>> => Len(b) > 0 /\ b[1] = "<")
             /\ (b = <<>> => Len(b) = 0)
             /\ \A i \in 1 .. Len(b) : b[i] \in {"<", "/"}
    <2>1. CASE b = <<>>
        BY <2>1
    <2>2. CASE b = <<"<">>
        BY <2>2 DEF Pieces
    <2>3. CASE b = <<"<", "/">>
        BY <2>3 DEF Pieces
    <2> QED
        BY <2>1, <2>2, <2>3 DEF Held
<1> QED
    BY <1>1

\* What the reasoning splitter sees: what it held back and the chunk, without
\* wrappers.
Seen(b, u, tools) == IF tools THEN DropWrappers(b \o u) ELSE b \o u

LEMMA SeenFacts ==
    ASSUME NEW b \in Held, NEW u \in Seq(Pieces), u # <<>>, NEW tools \in BOOLEAN,
           NEW last, Sound(u), u[1] = "tool_call>" => last \in {"<", "/"}
    PROVE  LET seen == Seen(b, u, tools)
           IN  /\ seen \in Seq(Pieces) /\ Sound(seen)
               /\ Len(seen) > 0 /\ seen[1] = "tool_call>" => b = <<>> /\ u[1] = "tool_call>"
               /\ u[Len(u)] \in {"<", "/"} => Ends(seen, u[Len(u)])
<1> DEFINE all == b \o u   seen == Seen(b, u, tools)
<1>1. /\ b \in Seq(Pieces) /\ Len(u) \in Nat \ {0}
      /\ b # <<>> => Len(b) > 0 /\ b[1] = "<"
      /\ b = <<>> => Len(b) = 0
      /\ \A i \in 1 .. Len(b) : b[i] \in {"<", "/"}
    BY HeldFacts, LenProperties, EmptySeq
<1>2. /\ all \in Seq(Pieces) /\ Len(b) \in Nat /\ Len(all) = Len(b) + Len(u)
      /\ \A i \in 1 .. Len(b) : all[i] = b[i]
      /\ \A i \in 1 .. Len(u) : all[Len(b) + i] = u[i]
    BY <1>1, JoinFacts
<1> HIDE DEF all
<1>3. Sound(all)
    <2> SUFFICES ASSUME NEW i \in 2 .. Len(all), all[i] = "tool_call>"
                 PROVE  all[i - 1] \in {"<", "/"}
        BY DEF Sound
    <2>1. i > Len(b)
        <3> SUFFICES ASSUME ~(i > Len(b))
                     PROVE  FALSE
            OBVIOUS
        <3>1. i \in 1 .. Len(b)
            BY <1>2
        <3> QED
            BY <1>1, <1>2, <3>1
    <2>2. PICK k \in 1 .. Len(u) : i = Len(b) + k
        <3>1. i - Len(b) \in 1 .. Len(u)
            BY <1>1, <1>2, <2>1
        <3>2. i = Len(b) + (i - Len(b))
            BY <1>2
        <3> QED
            BY <3>1, <3>2
    <2>3. u[k] = "tool_call>"
        BY <1>2, <2>2
    <2>4. CASE k = 1
        <3>1. Len(b) \in 1 .. Len(b) /\ i - 1 = Len(b)
            BY <1>2, <2>2, <2>4
        <3> QED
            BY <1>1, <1>2, <3>1
    <2>5. CASE k # 1
        <3>1. k \in 2 .. Len(u) /\ k - 1 \in 1 .. Len(u) /\ i - 1 = Len(b) + (k - 1)
            BY <1>1, <1>2, <2>2, <2>5
        <3>2. u[k - 1] \in {"<", "/"}
            BY <2>3, <3>1 DEF Sound
        <3> QED
            BY <1>2, <3>1, <3>2
    <2> QED
        BY <2>4, <2>5
<1>4. Len(all) > 0 /\ all[1] = "tool_call>" => b = <<>> /\ u[1] = "tool_call>"
    <2> SUFFICES ASSUME all[1] = "tool_call>"
                 PROVE  b = <<>> /\ u[1] = "tool_call>"
        OBVIOUS
    <2>1. b = <<>>
        <3> SUFFICES ASSUME b # <<>>
                     PROVE  FALSE
            OBVIOUS
        <3>1. 1 \in 1 .. Len(b) /\ b[1] = "<"
            BY <1>1, <1>2
        <3> QED
            BY <1>2, <3>1
    <2>2. 1 \in 1 .. Len(u) /\ Len(b) + 1 = 1
        BY <1>1, <2>1
    <2> QED
        BY <1>2, <2>1, <2>2
<1>5. all[Len(all)] = u[Len(u)] /\ Len(all) > 0
    <2>1. Len(u) \in 1 .. Len(u)
        BY <1>1
    <2> QED
        BY <1>1, <1>2, <2>1
<1>6. CASE tools
    <2>1. seen = DropWrappers(all)
        BY <1>6 DEF Seen, all
    <2> HIDE DEF seen
    <2>2. /\ seen \in Seq(Pieces) /\ Sound(seen)
          /\ Len(seen) > 0 /\ seen[1] = "tool_call>" => all[1] = "tool_call>"
          /\ all[Len(all)] # "invoke>" => Len(seen) > 0 /\ seen[Len(seen)] = all[Len(all)]
        BY <1>2, <1>3, <1>5, <2>1, DropFacts
    <2>3. u[Len(u)] \in {"<", "/"} => Ends(seen, u[Len(u)])
        BY <1>5, <2>2 DEF Ends
    <2> QED
        BY <1>4, <1>5, <2>2, <2>3 DEF seen
<1>7. CASE ~tools
    <2>1. seen = all
        BY <1>7 DEF Seen, all
    <2>2. Ends(all, u[Len(u)])
        BY <1>5 DEF Ends
    <2> QED
        BY <1>2, <1>3, <1>4, <2>1, <2>2
<1> QED
    BY <1>6, <1>7

\* A part behind a position that is not the end keeps the last piece.
LEMMA EndOfFrom ==
    ASSUME NEW T, NEW s \in Seq(T), NEW i \in 1 .. Len(s), NEW e, Ends(s, e)
    PROVE  Ends(From(s, i), e)
<1>1. /\ Len(From(s, i)) = Len(s) - i + 1 /\ Len(s) \in Nat
      /\ \A k \in 1 .. Len(s) - i + 1 : From(s, i)[k] = s[i + k - 1]
    <2>1. i \in 1 .. Len(s) + 1 /\ Len(s) \in Nat
        BY LenProperties
    <2> QED
        BY <2>1, CutFacts
<1>2. PICK n \in 1 .. Len(s) - i + 1 : n = Len(s) - i + 1
    BY <1>1
<1>3. i + n - 1 = Len(s) /\ n > 0
    BY <1>1, <1>2
<1> QED
    BY <1>1, <1>2, <1>3 DEF Ends

LEMMA SoundLStrip ==
    ASSUME NEW s \in Seq(Pieces), Sound(s)
    PROVE  /\ Sound(LStrip(s))
           /\ \A e \in {"<", "/"} : Ends(s, e) => Ends(LStrip(s), e)
<1>1. PICK k \in 1 .. Len(s) + 1 : /\ LStrip(s) = From(s, k)
                                   /\ \A j \in 1 .. k - 1 : s[j] = "nl"
    BY LStripFacts
<1>2. Sound(LStrip(s))
    BY <1>1, SoundParts
<1>3. ASSUME NEW e \in {"<", "/"}, Ends(s, e)
      PROVE  Ends(LStrip(s), e)
    <2>1. Len(s) \in Nat \ {0} /\ s[Len(s)] # "nl"
        BY <1>3, LenProperties DEF Ends
    <2>2. k \in 1 .. Len(s)
        <3> SUFFICES ASSUME k = Len(s) + 1
                     PROVE  FALSE
            BY <2>1
        <3>1. Len(s) \in 1 .. k - 1
            BY <2>1
        <3> QED
            BY <1>1, <2>1, <3>1
    <2> QED
        BY <1>1, <1>3, <2>2, EndOfFrom
<1> QED
    BY <1>2, <1>3

\* A chunk of the reply through the reasoning splitter.
LEMMA ThinkFlowKept ==
    ASSUME NEW t \in ThinkStates, ~t.done, t.buffer \in Held, NEW tools \in BOOLEAN,
           NEW u \in Seq(Pieces), u # <<>>, NEW last,
           Sound(u), u[1] = "tool_call>" => last \in {"<", "/"},
           NEW reason \in Seq(Pieces), tools => ThinkFlowOf(reason, t.buffer, last)
    PROVE  LET fed == ThinkFeed(t, u, tools)
           IN  /\ tools => Hits(reason \o fed.reason, OpenCall) = {}
               /\ ~fed.next.done =>
                     /\ fed.rest = <<>> /\ fed.next.buffer \in Held
                     /\ tools => ThinkFlowOf(reason \o fed.reason, fed.next.buffer, u[Len(u)])
               /\ fed.next.done =>
                     /\ Sound(fed.rest)
                     /\ u[Len(u)] \in {"<", "/"} => Ends(fed.rest, u[Len(u)])
<1> DEFINE seen == Seen(t.buffer, u, tools)
           fed  == ThinkFeed(t, u, tools)
           tool == Find(seen, OpenCall)
           stop == Find(seen, CloseThink)
           cut  == Len(seen) - Opener(seen) + 1
           l    == u[Len(u)]
<1>1. /\ seen \in Seq(Pieces) /\ Sound(seen)
      /\ Len(seen) > 0 /\ seen[1] = "tool_call>" => t.buffer = <<>> /\ u[1] = "tool_call>"
      /\ l \in {"<", "/"} => Ends(seen, l)
    BY SeenFacts
<1>2. \/ /\ tools /\ tool # 0 /\ (stop = 0 \/ tool < stop)
         /\ fed.next = [buffer |-> <<>>, done |-> TRUE]
         /\ fed.reason = RStrip(Upto(seen, tool)) /\ fed.rest = From(seen, tool)
      \/ /\ stop # 0 /\ (tools => tool = 0 \/ stop <= tool)
         /\ fed.next = [buffer |-> <<>>, done |-> TRUE]
         /\ fed.reason = Upto(seen, stop)
         /\ fed.rest = LStrip(From(seen, stop + Len(CloseThink)))
      \/ /\ stop = 0 /\ (tools => tool = 0)
         /\ fed.next = [buffer |-> From(seen, cut), done |-> t.done]
         /\ fed.reason = Upto(seen, cut) /\ fed.rest = <<>>
    BY ThinkCases DEF Seen
<1> DEFINE Goal == /\ tools => Hits(reason \o fed.reason, OpenCall) = {}
                   /\ ~fed.next.done =>
                         /\ fed.rest = <<>> /\ fed.next.buffer \in Held
                         /\ tools => ThinkFlowOf(reason \o fed.reason, fed.next.buffer, l)
                   /\ fed.next.done =>
                         /\ Sound(fed.rest)
                         /\ l \in {"<", "/"} => Ends(fed.rest, l)
<1> SUFFICES Goal
    BY DEF Goal, fed, l
<1> HIDE DEF seen, fed, l
<1>n. Len(seen) \in Nat /\ Len(reason) \in Nat
    BY <1>1, LenProperties
<1>3. ASSUME tools
      PROVE  /\ tool = 0 => Hits(reason \o seen, OpenCall) = {}
             /\ tool # 0 => \A h \in Hits(reason \o seen, OpenCall) : h >= Len(reason) + tool
             /\ tool \in Nat
             /\ reason \o seen \in Seq(Pieces) /\ Len(reason \o seen) = Len(reason) + Len(seen)
    <2>1. /\ Hits(reason \o t.buffer, OpenCall) = {}
          /\ last = "<" => Ends(t.buffer, "<")
          /\ last = "/" => Ends(reason \o t.buffer, "/")
        BY <1>3 DEF ThinkFlowOf
    <2>2. t.buffer \in Seq(Pieces)
        BY HeldFacts
    <2>3. /\ reason \o t.buffer \in Seq(Pieces)
          /\ Len(reason \o t.buffer) = Len(reason) + Len(t.buffer) /\ Len(t.buffer) \in Nat
          /\ \A i \in 1 .. Len(reason) : (reason \o t.buffer)[i] = reason[i]
        BY <2>2, JoinFacts
    <2>4. Hits(reason, OpenCall) = {}
        <3>1. Len(reason) <= Len(reason \o t.buffer)
            BY <1>n, <2>3
        <3> QED
            BY <2>1, <2>3, <3>1, BeginningQuiet
    <2>5. ~(Ends(reason, "<") /\ Len(seen) > 0 /\ seen[1] = "tool_call>")
        <3> SUFFICES ASSUME Ends(reason, "<"), Len(seen) > 0, seen[1] = "tool_call>"
                     PROVE  FALSE
            OBVIOUS
        <3>1. t.buffer = <<>> /\ last \in {"<", "/"}
            BY <1>1
        <3>2. reason \o t.buffer = reason
            BY <3>1, ConcatEmptySeq
        <3>3. last # "<"
            <4>1. ~Ends(<<>>, "<")
                BY DEF Ends
            <4> QED
                BY <1>3, <3>1, <4>1 DEF ThinkFlowOf
        <3>4. Ends(reason, "/")
            BY <1>3, <3>1, <3>2, <3>3 DEF ThinkFlowOf
        <3> QED
            BY <3>4 DEF Ends
    <2>6. /\ tool = 0 => Hits(reason \o seen, OpenCall) = {}
          /\ tool # 0 => Find(reason \o seen, OpenCall) = Len(reason) + tool
        BY <1>1, <2>4, <2>5, FoundBehind
    <2>7. reason \o seen \in Seq(Pieces) /\ Len(reason \o seen) = Len(reason) + Len(seen)
        BY <1>1, JoinFacts
    <2>a. \A h \in Hits(reason \o seen, OpenCall) : Find(reason \o seen, OpenCall) <= h
        BY <2>7, FoundOpenCall
    <2>b. \A h \in Hits(reason \o seen, OpenCall) : h \in Nat
        BY DEF Hits
    <2>8. \A h \in Hits(reason \o seen, OpenCall) :
              Find(reason \o seen, OpenCall) <= h /\ h \in Nat
        BY <2>a, <2>b
    <2>9. tool \in Nat
        <3>1. tool \in 0 .. Len(seen)
            BY <1>1, FoundOpenCall
        <3> QED
            BY <1>n, <3>1
    <2> HIDE DEF tool
    <2> QED
        BY <1>n, <2>6, <2>7, <2>8, <2>9
<1>4. /\ tool # 0 => tool \in 1 .. Len(seen) + 1
      /\ stop # 0 => stop \in 1 .. Len(seen) + 1 /\ stop + Len(CloseThink) \in 1 .. Len(seen) + 1
    BY <1>1, FoundFacts
\* Reasoning released up to a position at or before the call holds no call.
<1>5. ASSUME tools, NEW p \in Seq(Pieces), Len(p) <= Len(seen),
             \A k \in 1 .. Len(p) : p[k] = seen[k], tool # 0 => Len(p) <= tool
      PROVE  Hits(reason \o p, OpenCall) = {}
    <2>1. /\ reason \o p \in Seq(Pieces) /\ Len(reason \o p) = Len(reason) + Len(p)
          /\ \A i \in 1 .. Len(reason) : (reason \o p)[i] = reason[i]
          /\ \A i \in Len(reason) + 1 .. Len(reason) + Len(p) : (reason \o p)[i] = p[i - Len(reason)]
        BY JoinFacts
    <2>2. /\ \A i \in 1 .. Len(reason) : (reason \o seen)[i] = reason[i]
          /\ \A i \in Len(reason) + 1 .. Len(reason) + Len(seen) :
                (reason \o seen)[i] = seen[i - Len(reason)]
        BY <1>1, JoinFacts
    <2>p. Len(p) \in Nat
        BY LenProperties
    <2>3. ASSUME NEW i \in 1 .. Len(reason \o p)
          PROVE  (reason \o p)[i] = (reason \o seen)[i]
        <3>1. CASE i <= Len(reason)
            <4>1. i \in 1 .. Len(reason)
                BY <1>n, <3>1
            <4> QED
                BY <2>1, <2>2, <4>1
        <3>2. CASE i > Len(reason)
            <4>1. /\ i \in Len(reason) + 1 .. Len(reason) + Len(p)
                  /\ i \in Len(reason) + 1 .. Len(reason) + Len(seen)
                  /\ i - Len(reason) \in 1 .. Len(p)
                BY <1>n, <1>5, <2>1, <2>p, <3>2
            <4>2. (reason \o p)[i] = p[i - Len(reason)] /\ (reason \o seen)[i] = seen[i - Len(reason)]
                BY ONLY <2>1, <2>2, <4>1
            <4> QED
                BY <1>5, <4>1, <4>2
        <3>3. i <= Len(reason) \/ i > Len(reason)
            BY <1>n, <2>1, <2>p
        <3> QED
            BY <3>1, <3>2, <3>3
    <2>4. \A h \in Hits(reason \o seen, OpenCall) : h >= Len(reason \o p)
        <3>1. CASE tool = 0
            BY <1>3, <1>5, <3>1
        <3>2. CASE tool # 0
            <4>1. \A h \in Hits(reason \o seen, OpenCall) : h \in Int
                BY DEF Hits
            <4>2. /\ \A h \in Hits(reason \o seen, OpenCall) : h >= Len(reason) + tool
                  /\ tool \in Nat /\ Len(p) <= tool
                BY <1>3, <1>5, <3>2
            <4> HIDE DEF tool
            <4> QED
                BY <1>n, <2>1, <2>p, <4>1, <4>2
        <3> QED
            BY <3>1, <3>2
    <2>5. Len(reason \o p) <= Len(reason \o seen) /\ reason \o seen \in Seq(Pieces)
        BY <1>n, <1>3, <1>5, <2>1, <2>p
    <2> QED
        BY <2>1, <2>3, <2>4, <2>5, BeginningQuiet
<1>6. CASE /\ tools /\ tool # 0 /\ (stop = 0 \/ tool < stop)
           /\ fed.next = [buffer |-> <<>>, done |-> TRUE]
           /\ fed.reason = RStrip(Upto(seen, tool)) /\ fed.rest = From(seen, tool)
    <2>1. tool \in 1 .. Len(seen) - 1 /\ tool \in 1 .. Len(seen) + 1 /\ tool \in 1 .. Len(seen)
        <3>1. tool \in Hits(seen, OpenCall)
            BY <1>1, <1>6, FoundOpenCall
        <3>2. tool \in 1 .. Len(seen) - 1
            BY <1>1, <3>1, OpenCallHits
        <3> HIDE DEF tool
        <3> QED
            BY <1>n, <3>2
    <2> HIDE DEF tool
    <2>2. /\ Upto(seen, tool) \in Seq(Pieces) /\ Len(Upto(seen, tool)) = tool - 1
          /\ \A k \in 1 .. tool - 1 : Upto(seen, tool)[k] = seen[k]
        BY <1>1, <2>1, CutFacts
    <2>3. /\ fed.reason \in Seq(Pieces) /\ Len(fed.reason) <= tool - 1 /\ Len(fed.reason) \in Nat
          /\ \A k \in 1 .. Len(fed.reason) : fed.reason[k] = Upto(seen, tool)[k]
        BY <1>6, <2>2, RStripTypes, LenProperties
    <2>4. Len(fed.reason) <= Len(seen) /\ Len(fed.reason) <= tool
        BY <1>n, <2>1, <2>3
    <2>5. \A k \in 1 .. Len(fed.reason) : fed.reason[k] = seen[k]
        BY <2>1, <2>2, <2>3
    <2>6. Hits(reason \o fed.reason, OpenCall) = {}
        BY <1>5, <1>6, <2>3, <2>4, <2>5
    <2>7. Sound(fed.rest)
        BY <1>1, <1>6, <2>1, SoundParts
    <2>8. l \in {"<", "/"} => Ends(fed.rest, l)
        BY <1>1, <1>6, <2>1, EndOfFrom
    <2>9. fed.next.done
        BY <1>6
    <2> QED
        BY <2>6, <2>7, <2>8, <2>9
<1>7. CASE /\ stop # 0 /\ (tools => tool = 0 \/ stop <= tool)
           /\ fed.next = [buffer |-> <<>>, done |-> TRUE]
           /\ fed.reason = Upto(seen, stop)
           /\ fed.rest = LStrip(From(seen, stop + Len(CloseThink)))
    <2>1. stop \in 1 .. Len(seen) - 2 /\ seen[stop + 2] = "think>"
        <3>1. stop \in Hits(seen, CloseThink)
            <4>1. CloseThink \in Seq(Pieces) /\ CloseThink # <<>>
                BY TagsAreTexts
            <4> QED
                BY <1>1, <1>7, <4>1, FindFacts
        <3> QED
            BY <1>1, <3>1, CloseThinkHits
    <2> DEFINE m == stop + Len(CloseThink)
    <2>2. m = stop + 3 /\ m \in 1 .. Len(seen) + 1 /\ stop \in 1 .. Len(seen) + 1
        <3>1. Len(CloseThink) = 3
            BY TagsAreTexts
        <3> HIDE DEF stop
        <3> QED
            BY <1>n, <2>1, <3>1
    <2> HIDE DEF stop, m
    <2>3. /\ fed.reason \in Seq(Pieces) /\ Len(fed.reason) = stop - 1
          /\ \A k \in 1 .. stop - 1 : fed.reason[k] = seen[k]
        BY <1>1, <1>7, <2>2, CutFacts
    <2>4. tools => Hits(reason \o fed.reason, OpenCall) = {}
        <3> SUFFICES ASSUME tools
                     PROVE  Hits(reason \o fed.reason, OpenCall) = {}
            OBVIOUS
        <3>1. Len(fed.reason) <= Len(seen)
            BY <1>n, <2>1, <2>3
        <3>2. tool # 0 => Len(fed.reason) <= tool
            <4>1. tool # 0 => stop <= tool /\ tool \in Nat
                BY <1>3, <1>7
            <4> HIDE DEF tool
            <4> QED
                BY <2>1, <2>3, <4>1
        <3>3. \A k \in 1 .. Len(fed.reason) : fed.reason[k] = seen[k]
            BY <2>3
        <3> HIDE DEF tool
        <3> QED
            BY <1>5, <2>3, <3>1, <3>2, <3>3
    <2>5. From(seen, m) \in Seq(Pieces) /\ Sound(From(seen, m))
        BY <1>1, <2>2, SoundParts, CutFacts
    <2>6. Sound(fed.rest) /\ \A e \in {"<", "/"} : Ends(From(seen, m), e) => Ends(fed.rest, e)
        BY <1>7, <2>5, SoundLStrip DEF m
    <2>7. l \in {"<", "/"} => Ends(From(seen, m), l)
        <3> SUFFICES ASSUME l \in {"<", "/"}
                     PROVE  Ends(From(seen, m), l)
            OBVIOUS
        <3>1. Len(seen) > 0 /\ seen[Len(seen)] = l
            BY <1>1 DEF Ends
        <3>2. Len(seen) # stop + 2
            BY <2>1, <3>1
        <3>3. m \in 1 .. Len(seen)
            BY <1>n, <2>1, <2>2, <3>2
        <3> QED
            BY <1>1, <3>3, EndOfFrom
    <2>8. fed.next.done
        BY <1>7
    <2> QED
        BY <2>4, <2>6, <2>7, <2>8
<1>8. CASE /\ stop = 0 /\ (tools => tool = 0)
           /\ fed.next = [buffer |-> From(seen, cut), done |-> t.done]
           /\ fed.reason = Upto(seen, cut) /\ fed.rest = <<>>
    <2> DEFINE keep == Opener(seen)   v == Upto(seen, cut)   b == From(seen, cut)
    <2>1. keep \in 0 .. Len(seen) /\ keep \in {0, 1, 2}
        BY <1>n DEF Opener
    <2>2. /\ v \in Seq(Pieces) /\ Len(v) = Len(seen) - keep
          /\ \A k \in 1 .. Len(seen) - keep : v[k] = seen[k]
          /\ b \in Seq(Pieces) /\ Len(b) = keep
          /\ \A k \in 1 .. keep : b[k] = seen[Len(seen) - keep + k]
          /\ v \o b = seen
        BY <1>1, <2>1, KeptFacts
    <2>k. /\ keep = 1 => Len(seen) > 0 /\ seen[Len(seen)] = "<"
          /\ keep = 2 => Len(seen) > 1 /\ seen[Len(seen) - 1] = "<" /\ seen[Len(seen)] = "/"
          /\ Len(seen) > 0 /\ seen[Len(seen)] = "<" => keep = 1
        BY DEF Opener
    <2>v. fed.reason = v /\ fed.next.buffer = b /\ fed.rest = <<>> /\ ~fed.next.done
        BY <1>8
    <2> HIDE DEF v, b, keep, tool
    <2>3. b \in Held
        <3>1. CASE keep = 0
            BY <2>2, <3>1, EmptySeq DEF Held
        <3>2. CASE keep = 1
            <4>1. Len(b) = 1 /\ 1 \in 1 .. keep /\ Len(seen) - keep + 1 = Len(seen)
                BY <1>n, <2>2, <3>2
            <4>2. b[1] = "<"
                BY <2>k, <2>2, <3>2, <4>1
            <4>3. b = <<"<">>
                BY <2>2, <4>1, <4>2
            <4> QED
                BY <4>3 DEF Held
        <3>3. CASE keep = 2
            <4>1. /\ Len(b) = 2 /\ 1 \in 1 .. keep /\ 2 \in 1 .. keep
                  /\ Len(seen) - keep + 1 = Len(seen) - 1 /\ Len(seen) - keep + 2 = Len(seen)
                BY <1>n, <2>2, <3>3
            <4>2. b[1] = "<" /\ b[2] = "/"
                BY <2>k, <2>2, <3>3, <4>1
            <4>3. b = <<"<", "/">>
                BY <2>2, <4>1, <4>2
            <4> QED
                BY <4>3 DEF Held
        <3> QED
            BY <2>1, <3>1, <3>2, <3>3
    <2>4. ASSUME tools
          PROVE  /\ Hits(reason \o v, OpenCall) = {}
                 /\ ThinkFlowOf(reason \o v, b, l)
        <3>1. Hits(reason \o seen, OpenCall) = {}
            BY <1>3, <1>8, <2>4
        <3>2. (reason \o v) \o b = reason \o seen
            <4>1. reason \in Seq(Pieces) /\ v \in Seq(Pieces) /\ b \in Seq(Pieces)
                BY <2>2
            <4>2. (reason \o v) \o b = reason \o (v \o b)
                <5>1. \A x, y, z \in Seq(Pieces) : (x \o y) \o z = x \o (y \o z)
                    BY ONLY Reassociated, SMTT(60)
                <5> QED
                    BY ONLY <4>1, <5>1
            <4> QED
                BY <2>2, <4>2
        <3>3. Hits(reason \o v, OpenCall) = {}
            <4>1. Len(v) <= Len(seen)
                BY <1>n, <2>1, <2>2
            <4>2. \A k \in 1 .. Len(v) : v[k] = seen[k]
                BY <2>2
            <4> QED
                BY <1>5, <1>8, <2>2, <2>4, <4>1, <4>2
        <3>4. ASSUME l = "<"
              PROVE  Ends(b, "<")
            <4>1. Len(seen) > 0 /\ seen[Len(seen)] = "<"
                BY <1>1, <3>4 DEF Ends
            <4>2. keep = 1 /\ Len(seen) - keep + 1 = Len(seen) /\ 1 \in 1 .. keep
                BY <1>n, <2>k, <4>1
            <4> QED
                BY <2>2, <4>1, <4>2 DEF Ends
        <3>5. ASSUME l = "/"
              PROVE  Ends(reason \o seen, "/")
            <4>1. Len(seen) > 0 /\ seen[Len(seen)] = "/" /\ Len(seen) \in 1 .. Len(seen)
                BY <1>1, <1>n, <3>5 DEF Ends
            <4>2. /\ Len(reason \o seen) = Len(reason) + Len(seen)
                  /\ (reason \o seen)[Len(reason) + Len(seen)] = seen[Len(seen)]
                BY <1>1, <4>1, JoinFacts
            <4> QED
                BY <1>n, <4>1, <4>2 DEF Ends
        <3> QED
            BY <3>1, <3>2, <3>3, <3>4, <3>5 DEF ThinkFlowOf
    <2> QED
        BY <2>3, <2>4, <2>v
<1> HIDE DEF Goal, tool, stop, cut
<1> QED
    BY <1>2, <1>6, <1>7, <1>8

-----------------------------------------------------------------------------
(* Messages that were opened.                                              *)

OpenedInv == TypeOK /\ CallFlow /\ Opened /\ MessageWasOpened

LEMMA OpenedInit == Init => OpenedInv
BY TypeInit DEF Init, OpenedInv, CallFlow, Opened, MessageWasOpened, Streaming

\* A fresh request has shown nothing.
LEMMA FreshCalls == CallFlowOf(<<>>, [buffer |-> <<>>, stopped |-> FALSE], <<>>)
<1>1. <<>> \in Seq(Pieces) /\ Len(<<>>) = 0 /\ <<>> \o <<>> = <<>>
    OBVIOUS
<1>2. Find(<<>>, OpenCall) \in 0 .. Len(<<>>)
    BY <1>1, FoundOpenCall
<1>3. Find(<<>>, OpenCall) = 0
    BY <1>1, <1>2
<1>4. ~Ends(<<>>, "<")
    BY <1>1 DEF Ends
<1> QED
    BY <1>1, <1>3, <1>4 DEF CallFlowOf

LEMMA CallFlowDelivered ==
    ASSUME TypeOK, CallFlow, NEW n \in 1 .. Len(text), Deliver(n)
    PROVE  CallFlow'
<1>1. /\ phase = "engine" /\ mode.stream /\ sent + n <= Len(text)
      /\ answer' = answer \o Fed(n).rest
      /\ splitter' = IF Fed(n).rest = <<>> THEN splitter ELSE Told(n).next
      /\ got'.content = IF Fed(n).rest = <<>> THEN got.content
                        ELSE got.content \o Told(n).visible
      /\ mode' = mode
    BY DeliverFacts DEF session
<1>2. Fed(n).rest \in Seq(Pieces)
    BY <1>1, FeedTypes
<1> SUFFICES ASSUME Splitting
             PROVE  CallFlowOf(got'.content, splitter', answer')
    BY <1>1 DEF CallFlow, Splitting, Chat
<1>3. CallFlowOf(got.content, splitter, answer)
    BY <1>1 DEF CallFlow, Streaming
<1>4. Told(n) = CallFeed(splitter, Fed(n).rest)
    BY DEF Told, Shown
<1>5. CASE Fed(n).rest = <<>>
    <2>1. answer' = answer
        BY <1>1, <1>5, TypeFacts, ConcatEmptySeq
    <2> QED
        BY <1>1, <1>3, <1>5, <2>1
<1>6. CASE Fed(n).rest # <<>>
    <2>1. /\ got.content \in Seq(Pieces) /\ answer \in Seq(Pieces) /\ splitter \in CallStates
          /\ (splitter.stopped => splitter.buffer = <<>>)
        BY TypeFacts
    <2>2. CallFlowOf(got.content \o CallFeed(splitter, Fed(n).rest).visible,
                     CallFeed(splitter, Fed(n).rest).next, answer \o Fed(n).rest)
        BY ONLY <1>2, <1>3, <1>6, <2>1, CallFlowKept
    <2> QED
        BY <1>1, <1>4, <1>6, <2>2
<1> QED
    BY <1>5, <1>6

LEMMA OpenedStep ==
    ASSUME OpenedInv, [Next]_vars
    PROVE  OpenedInv'
<1>1. TypeOK /\ CallFlow /\ Opened /\ MessageWasOpened
    BY DEF OpenedInv
<1>2. TypeOK'
    BY <1>1, TypeStep
<1>3. CASE Ask
    <2>1. /\ phase' = "engine" /\ mode' = mode /\ answer' = <<>> /\ got' = Nothing
          /\ splitter' = [buffer |-> <<>>, stopped |-> FALSE]
        BY <1>3 DEF Ask, NewCalls
    <2>2. got'.content = <<>>
        BY <2>1 DEF Nothing
    <2>3. CallFlow'
        BY <2>1, <2>2, FreshCalls DEF CallFlow
    <2> QED
        BY <1>2, <2>1, <2>2, <2>3 DEF OpenedInv, Opened, MessageWasOpened
<1>4. ASSUME NEW n \in 1 .. Len(text), Deliver(n)
      PROVE  OpenedInv'
    <2>1. CallFlow'
        BY <1>1, <1>4, CallFlowDelivered
    <2>2. /\ phase = "engine" /\ phase' = "engine" /\ mode.stream /\ mode' = mode
          /\ got'.content = IF Fed(n).rest = <<>> THEN got.content
                            ELSE got.content \o Told(n).visible
          /\ got'.opened = (got.opened \/ (~Chat /\ Fed(n).rest # <<>> /\ Told(n).visible # <<>>))
        BY <1>1, <1>4, DeliverFacts DEF session
    <2>3. Opened'
        <3> SUFFICES ASSUME ~Chat, ~got'.opened
                     PROVE  got'.content = <<>>
            BY <2>2 DEF Opened, Chat
        <3>1. ~got.opened /\ (Fed(n).rest = <<>> \/ Told(n).visible = <<>>)
            BY <2>2
        <3>2. got.content = <<>>
            BY <1>1, <2>2, <3>1 DEF Opened, Streaming
        <3> QED
            BY <2>2, <3>1, <3>2
    <2> QED
        BY <1>2, <2>1, <2>2, <2>3 DEF OpenedInv, MessageWasOpened
<1>5. CASE FinishStream
    <2>1. /\ phase = "engine" /\ mode.stream /\ phase' = "answered" /\ mode' = mode
          /\ answer' = answer /\ Left = IF Splitting THEN splitter.buffer ELSE <<>>
          /\ got'.opened = (got.opened \/ (~Chat /\ Left # <<>>))
        BY <1>1, <1>5, FinishFacts
    <2>2. ASSUME ~Chat, ~got'.opened
          PROVE  ParseCalls(answer, Table).leading = <<>>
        <3>1. Splitting /\ splitter.buffer = <<>> /\ ~got.opened
            BY <2>1, <2>2 DEF Splitting
        <3>2. got.content = <<>> /\ CallFlowOf(got.content, splitter, answer)
            BY <1>1, <2>1, <2>2, <3>1 DEF Opened, CallFlow, Streaming
        <3>3. got.content \in Seq(Pieces) /\ answer \in Seq(Pieces) /\ splitter \in CallStates
            BY <1>1, TypeFacts
        <3> QED
            BY ONLY <3>1, <3>2, <3>3, CallFlowSilent
    <2>3. MessageWasOpened'
        BY <2>1, <2>2 DEF MessageWasOpened, Chat, Table
    <2> QED
        BY <1>2, <2>1, <2>3 DEF OpenedInv, CallFlow, Opened, Streaming
<1>6. CASE AnswerPlain
    BY <1>2, <1>6 DEF AnswerPlain, OpenedInv, CallFlow, Opened, MessageWasOpened, Streaming
<1>7. CASE Abort
    BY <1>2, <1>7 DEF Abort, OpenedInv, CallFlow, Opened, MessageWasOpened, Streaming
<1>8. CASE Continue
    BY <1>2, <1>8 DEF Continue, OpenedInv, CallFlow, Opened, MessageWasOpened, Streaming
<1>9. CASE UNCHANGED vars
    <2>1. /\ mode' = mode /\ phase' = phase /\ splitter' = splitter /\ answer' = answer
          /\ got' = got
        BY <1>9 DEF vars, session
    <2> QED
        BY <1>1, <1>2, <2>1 DEF OpenedInv, CallFlow, Opened, MessageWasOpened, Streaming,
                                Splitting, Chat, Table
<1> QED
    BY <1>3, <1>4, <1>5, <1>6, <1>7, <1>8, <1>9 DEF Next

\* The final output of a Responses stream holds a message only when its item
\* was opened in the stream, for any replies whatever, in chunks of any size.
THEOREM MessagesOpened == Spec => []MessageWasOpened
<1>1. OpenedInv /\ [Next]_vars => OpenedInv'
    BY OpenedStep
<1>2. OpenedInv => MessageWasOpened
    BY DEF OpenedInv
<1> QED
    BY OpenedInit, <1>1, <1>2, PTL DEF Spec

-----------------------------------------------------------------------------
(* No tool call among what is shown.                                       *)

TextWhole == Streaming => Whole(text)
MarkupInv == /\ TypeOK /\ TextWhole
             /\ CallFlow /\ ThinkFlow /\ AnswerFlow
             /\ NoToolMarkup

LEMMA NoCallInNothing ==
    /\ <<>> \in Seq(Pieces) /\ Find(<<>>, OpenCall) = 0 /\ Hits(<<>>, OpenCall) = {}
    /\ Sound(<<>>) /\ <<>> \in Held /\ \A last : last \notin {"<", "/"} => ThinkFlowOf(<<>>, <<>>, last)
<1>1. <<>> \in Seq(Pieces) /\ Len(<<>>) = 0 /\ <<>> \o <<>> = <<>>
    OBVIOUS
<1>2. Find(<<>>, OpenCall) \in 0 .. Len(<<>>)
    BY <1>1, FoundOpenCall
<1>3. Find(<<>>, OpenCall) = 0
    BY <1>1, <1>2
<1>4. Hits(<<>>, OpenCall) = {}
    BY <1>1, <1>3, FoundOpenCall
<1>5. Sound(<<>>) /\ <<>> \in Held
    BY <1>1 DEF Sound, Held
<1> QED
    BY <1>1, <1>3, <1>4, <1>5 DEF ThinkFlowOf

LEMMA NothingQuiet ==
    ASSUME got = Nothing
    PROVE  NoToolMarkup
BY NoCallInNothing DEF Nothing, NoToolMarkup

\* What is left of a short text when its wrappers are dropped are its pieces.
LEMMA DropKeeps ==
    ASSUME NEW T, NEW s \in Seq(T)
    PROVE  DropWrappers(s) \in Seq(T)
<1>1. ASSUME NEW r \in Seq(T), NEW tag
      PROVE  DropTag(r, tag) \in Seq(T)
    <2> DEFINE at == {i \in DOMAIN r : ~Inside(r, i, tag)}
    <2>1. at \subseteq 1 .. Len(r)
        BY LenProperties
    <2> HIDE DEF at
    <2>2. Pick(r, at) \in Seq(T)
        BY ONLY <2>1, r \in Seq(T), PickFacts
    <2> QED
        BY <2>2 DEF DropTag, at
<1>2. DropTag(s, Invoke) \in Seq(T)
    BY <1>1
<1> QED
    BY <1>1, <1>2 DEF DropWrappers

LEMMA TailQuiet ==
    ASSUME NEW reason \in Seq(Pieces), Hits(reason, OpenCall) = {},
           NEW t \in ThinkStates, t.buffer \in Held, NEW tools \in BOOLEAN
    PROVE  Hits(reason \o ThinkFlush(t, tools), OpenCall) = {}
<1> DEFINE tail == ThinkFlush(t, tools)
<1>1. tail \in Seq({"<", "/"})
    <2>1. t.buffer \in Seq({"<", "/"})
        <3>1. CASE t.buffer = <<>>
            BY <3>1
        <3>2. CASE t.buffer = <<"<">>
            BY <3>2
        <3>3. CASE t.buffer = <<"<", "/">>
            BY <3>3
        <3> QED
            BY <3>1, <3>2, <3>3 DEF Held
    <2> QED
        BY <2>1, DropKeeps DEF ThinkFlush
<1>2. tail \in Seq(Pieces)
    BY <1>1, SeqMonotonic DEF Pieces
<1> HIDE DEF tail
<1>3. Len(tail) \in Nat /\ \A i \in 1 .. Len(tail) : tail[i] \in {"<", "/"}
    BY <1>1, LenProperties, ElementOfSeq
<1>4. Hits(tail, OpenCall) = {}
    <2> SUFFICES ASSUME NEW h \in Hits(tail, OpenCall)
                 PROVE  FALSE
        OBVIOUS
    <2>1. h \in 1 .. Len(tail) - 1 /\ tail[h + 1] = "tool_call>"
        BY <1>2, OpenCallHits
    <2>2. h + 1 \in 1 .. Len(tail)
        BY <1>3, <2>1
    <2> QED
        BY <1>3, <2>1, <2>2
<1>5. Find(tail, OpenCall) = 0
    BY <1>2, <1>4, FoundOpenCall
<1>6. ~(Ends(reason, "<") /\ Len(tail) > 0 /\ tail[1] = "tool_call>")
    <2> SUFFICES ASSUME Len(tail) > 0
                 PROVE  tail[1] # "tool_call>"
        OBVIOUS
    <2>1. 1 \in 1 .. Len(tail)
        BY <1>3
    <2> QED
        BY <1>3, <2>1
<1>7. Hits(reason \o tail, OpenCall) = {}
    BY <1>2, <1>5, <1>6, FoundBehind
<1> QED
    BY <1>7 DEF tail

\* A chunk of a whole text.
LEMMA ChunkSound ==
    ASSUME TypeOK, Whole(text), NEW n \in 1 .. Len(text), sent + n <= Len(text)
    PROVE  /\ Sound(Chunk(n)) /\ Chunk(n) # <<>>
           /\ Chunk(n)[1] = "tool_call>" => Recent \in {"<", "/"}
           /\ sent + n # 0 /\ text[sent + n] = Chunk(n)[Len(Chunk(n))]
<1>1. /\ Chunk(n) \in Seq(Pieces) /\ Len(Chunk(n)) = n
      /\ \A k \in 1 .. n : Chunk(n)[k] = text[sent + k]
      /\ n \in Nat \ {0} /\ sent \in Nat /\ sent + n \in 1 .. Len(text)
    BY ChunkFacts
<1>t. Len(text) \in Nat
    BY TypeFacts
<1>2. Sound(Chunk(n))
    <2> SUFFICES ASSUME NEW k \in 2 .. Len(Chunk(n)), Chunk(n)[k] = "tool_call>"
                 PROVE  Chunk(n)[k - 1] \in {"<", "/"}
        BY DEF Sound
    <2>1. /\ k \in 1 .. n /\ k - 1 \in 1 .. n /\ sent + k \in 1 .. Len(text)
          /\ sent + (k - 1) = (sent + k) - 1
        BY <1>1, <1>t
    <2>2. text[(sent + k) - 1] \in {"<", "/"}
        BY <1>1, <2>1 DEF Whole
    <2> QED
        BY <1>1, <2>1, <2>2
<1>3. ASSUME Chunk(n)[1] = "tool_call>"
      PROVE  Recent \in {"<", "/"}
    <2>1. 1 \in 1 .. n /\ sent + 1 \in 1 .. Len(text) /\ (sent + 1) - 1 = sent
        BY <1>1, <1>t
    <2>2. text[sent + 1] = "tool_call>"
        BY <1>1, <1>3, <2>1
    <2>3. sent + 1 > 1 /\ text[sent] \in {"<", "/"}
        BY <2>1, <2>2 DEF Whole
    <2> QED
        BY <1>1, <2>3 DEF Recent
<1>4. n \in 1 .. n /\ sent + n # 0 /\ Chunk(n) # <<>>
    BY <1>1
<1> QED
    BY <1>1, <1>2, <1>3, <1>4

\* The answer stays sound when a part of a sound text is appended to it.
LEMMA SoundJoin ==
    ASSUME NEW a \in Seq(Pieces), NEW b \in Seq(Pieces), Sound(a), Sound(b),
           b # <<>>, b[1] = "tool_call>" => Ends(a, "<") \/ Ends(a, "/")
    PROVE  Sound(a \o b) /\ Ends(a \o b, b[Len(b)])
<1> DEFINE w == a \o b
<1>1. /\ w \in Seq(Pieces) /\ Len(a) \in Nat /\ Len(b) \in Nat \ {0} /\ Len(w) = Len(a) + Len(b)
      /\ \A i \in 1 .. Len(a) : w[i] = a[i]
      /\ \A i \in 1 .. Len(b) : w[Len(a) + i] = b[i]
    BY JoinFacts, EmptySeq
<1> HIDE DEF w
<1>2. Sound(w)
    <2> SUFFICES ASSUME NEW i \in 2 .. Len(w), w[i] = "tool_call>"
                 PROVE  w[i - 1] \in {"<", "/"}
        BY DEF Sound
    <2>1. CASE i <= Len(a)
        <3>1. i \in 2 .. Len(a) /\ i \in 1 .. Len(a) /\ i - 1 \in 1 .. Len(a)
            BY <1>1, <2>1
        <3> QED
            BY <1>1, <3>1 DEF Sound
    <2>2. CASE i = Len(a) + 1
        <3>1. 1 \in 1 .. Len(b) /\ Len(a) \in 1 .. Len(a) /\ i - 1 = Len(a)
            BY <1>1, <2>2
        <3>2. b[1] = "tool_call>"
            BY <1>1, <2>2, <3>1
        <3>3. a[Len(a)] \in {"<", "/"}
            BY <3>2 DEF Ends
        <3> QED
            BY <1>1, <3>1, <3>3
    <2>3. CASE i > Len(a) + 1
        <3>1. i - Len(a) \in 2 .. Len(b)
            BY <1>1, <2>3
        <3>2. PICK k \in 2 .. Len(b) : k = i - Len(a)
            BY <3>1
        <3>3. /\ k \in 1 .. Len(b) /\ k - 1 \in 1 .. Len(b)
              /\ i = Len(a) + k /\ i - 1 = Len(a) + (k - 1)
            BY <1>1, <3>2
        <3>4. b[k] = "tool_call>"
            BY <1>1, <3>3
        <3>5. b[k - 1] \in {"<", "/"}
            BY <3>4 DEF Sound
        <3> QED
            BY <1>1, <3>3, <3>5
    <2>4. i <= Len(a) \/ i = Len(a) + 1 \/ i > Len(a) + 1
        BY <1>1
    <2> QED
        BY <2>1, <2>2, <2>3, <2>4
<1>3. Len(b) \in 1 .. Len(b) /\ Len(w) > 0
    BY <1>1
<1> QED
    BY <1>1, <1>2, <1>3 DEF w, Ends

-----------------------------------------------------------------------------
(* A chunk keeps the invariants of the reasoning splitter.                 *)

LEMMA FlowDelivered ==
    ASSUME TypeOK, TextWhole, ThinkFlow, AnswerFlow, NEW n \in 1 .. Len(text), Deliver(n)
    PROVE  /\ ThinkFlow' /\ AnswerFlow'
           /\ mode.tools /\ Hits(got.reason, OpenCall) = {} => Hits(got'.reason, OpenCall) = {}
<1>1. /\ phase = "engine" /\ mode.stream /\ sent + n <= Len(text) /\ sent' = sent + n
      /\ think' = Fed(n).next /\ answer' = answer \o Fed(n).rest
      /\ got'.reason = got.reason \o Fed(n).reason
      /\ mode' = mode /\ text' = text
    BY DeliverFacts DEF session
<1>2. Streaming /\ Whole(text)
    BY <1>1 DEF TextWhole, Streaming
<1>3. /\ think \in ThinkStates /\ (think.done => think.buffer = <<>>) /\ mode.tools \in BOOLEAN
      /\ answer \in Seq(Pieces) /\ got.reason \in Seq(Pieces)
    BY TypeFacts
<1>4. Chunk(n) \in Seq(Pieces)
    BY <1>1, ChunkFacts
<1>5. /\ Sound(Chunk(n)) /\ Chunk(n) # <<>>
      /\ (Chunk(n)[1] = "tool_call>" => Recent \in {"<", "/"})
      /\ sent + n # 0 /\ text[sent + n] = Chunk(n)[Len(Chunk(n))]
    BY <1>1, <1>2, ChunkSound
<1>6. Recent' = Chunk(n)[Len(Chunk(n))]
    BY <1>1, <1>5 DEF Recent
<1>7. CASE think.done
    <2>1. /\ Fed(n).next = think /\ Fed(n).reason = <<>> /\ Fed(n).rest = Chunk(n)
        BY <1>7 DEF Fed, ThinkFeed
    <2>2. Sound(answer) /\ (Recent \in {"<", "/"} => Ends(answer, Recent))
        BY <1>2, <1>7 DEF AnswerFlow
    <2>3. Chunk(n)[1] = "tool_call>" => Ends(answer, "<") \/ Ends(answer, "/")
        BY <1>5, <2>2
    <2>4. Sound(answer \o Chunk(n)) /\ Ends(answer \o Chunk(n), Chunk(n)[Len(Chunk(n))])
        BY ONLY <1>3, <1>4, <1>5, <2>2, <2>3, SoundJoin
    <2>5. AnswerFlow'
        BY <1>1, <1>6, <2>1, <2>4 DEF AnswerFlow
    <2>6. ThinkFlow'
        BY <1>1, <1>7, <2>1 DEF ThinkFlow
    <2>7. got'.reason = got.reason
        BY <1>1, <1>3, <2>1, ConcatEmptySeq
    <2> QED
        BY <2>5, <2>6, <2>7
<1>8. CASE ~think.done
    <2>1. /\ answer = <<>> /\ think.buffer \in Held
          /\ (mode.tools => ThinkFlowOf(got.reason, think.buffer, Recent))
        BY <1>2, <1>8 DEF ThinkFlow
    <2>2. LET fed == ThinkFeed(think, Chunk(n), mode.tools)
          IN  /\ mode.tools => Hits(got.reason \o fed.reason, OpenCall) = {}
              /\ ~fed.next.done =>
                    /\ fed.rest = <<>> /\ fed.next.buffer \in Held
                    /\ mode.tools => ThinkFlowOf(got.reason \o fed.reason, fed.next.buffer,
                                                 Chunk(n)[Len(Chunk(n))])
              /\ fed.next.done =>
                    /\ Sound(fed.rest)
                    /\ Chunk(n)[Len(Chunk(n))] \in {"<", "/"} =>
                          Ends(fed.rest, Chunk(n)[Len(Chunk(n))])
        BY ONLY <1>3, <1>4, <1>5, <1>8, <2>1, ThinkFlowKept
    <2>3. /\ mode.tools => Hits(got.reason \o Fed(n).reason, OpenCall) = {}
          /\ ~Fed(n).next.done =>
                /\ Fed(n).rest = <<>> /\ Fed(n).next.buffer \in Held
                /\ mode.tools => ThinkFlowOf(got.reason \o Fed(n).reason, Fed(n).next.buffer,
                                             Chunk(n)[Len(Chunk(n))])
          /\ Fed(n).next.done =>
                /\ Sound(Fed(n).rest)
                /\ Chunk(n)[Len(Chunk(n))] \in {"<", "/"} =>
                      Ends(Fed(n).rest, Chunk(n)[Len(Chunk(n))])
        BY <2>2 DEF Fed
    <2>4. answer' = Fed(n).rest
        <3>1. Fed(n).rest \in Seq(Pieces)
            BY <1>1, FeedTypes
        <3> QED
            BY <1>1, <2>1, <3>1, ConcatEmptySeq
    <2>5. ThinkFlow'
        BY <1>1, <1>6, <2>3, <2>4 DEF ThinkFlow
    <2>6. AnswerFlow'
        BY <1>1, <1>6, <2>3, <2>4 DEF AnswerFlow
    <2> QED
        BY <1>1, <2>3, <2>5, <2>6
<1> QED
    BY <1>7, <1>8

\* Under the invariants the shown text holds no call.
LEMMA ContentQuiet ==
    ASSUME TypeOK, CallFlow, ThinkFlow, AnswerFlow, Streaming, Splitting
    PROVE  /\ Hits(got.content, OpenCall) = {}
           /\ Hits(got.content \o splitter.buffer, OpenCall) = {}
<1>1. /\ got.content \in Seq(Pieces) /\ answer \in Seq(Pieces) /\ splitter \in CallStates
      /\ (splitter.stopped => splitter.buffer = <<>>)
    BY TypeFacts
<1>2. Sound(answer)
    <2>1. CASE think.done
        BY <2>1 DEF AnswerFlow
    <2>2. CASE ~think.done
        BY <2>2, NoCallInNothing DEF ThinkFlow
    <2> QED
        BY <2>1, <2>2
<1>3. CallFlowOf(got.content, splitter, answer)
    BY DEF CallFlow
<1> QED
    BY ONLY <1>1, <1>2, <1>3, CallFlowQuiet

LEMMA MarkupInit == Init => MarkupInv
<1> SUFFICES ASSUME Init
             PROVE  MarkupInv
    OBVIOUS
<1>1. TypeOK
    BY TypeInit
<1>2. got = Nothing /\ phase = "client"
    BY DEF Init
<1>3. NoToolMarkup
    BY <1>2, NothingQuiet
<1> QED
    BY <1>1, <1>2, <1>3 DEF MarkupInv, TextWhole, CallFlow, ThinkFlow, AnswerFlow, Streaming

LEMMA MarkupStep ==
    ASSUME WholeTags, MarkupInv, [Next]_vars
    PROVE  MarkupInv'
<1>1. /\ TypeOK /\ TextWhole /\ CallFlow /\ ThinkFlow /\ AnswerFlow /\ NoToolMarkup
    BY DEF MarkupInv
<1>2. TypeOK'
    BY <1>1, TypeStep
<1>3. CASE Ask
    <2>1. /\ phase' = "engine" /\ mode' = mode /\ sent' = 0 /\ answer' = <<>> /\ got' = Nothing
          /\ think' = [buffer |-> <<>>, done |-> ~mode.thinking]
          /\ splitter' = [buffer |-> <<>>, stopped |-> FALSE]
          /\ turn < MaxTurns /\ text' \in Replies[turn + 1]
        BY <1>3 DEF Ask, NewThink, NewCalls
    <2>2. /\ got'.content = <<>> /\ got'.reason = <<>> /\ think'.buffer = <<>>
        BY <2>1 DEF Nothing
    <2>3. turn + 1 \in 1 .. MaxTurns
        BY <1>1, <2>1, TurnAssumption DEF TypeOK, TurnAssumption
    <2>4. TextWhole'
        BY <2>1, <2>3 DEF WholeTags, TextWhole
    <2>5. CallFlow'
        BY <2>1, <2>2, FreshCalls DEF CallFlow
    <2>6. Recent' \notin {"<", "/"}
        BY <2>1 DEF Recent
    <2>7. ThinkFlow' /\ AnswerFlow'
        BY <2>1, <2>2, <2>6, NoCallInNothing DEF ThinkFlow, AnswerFlow
    <2>8. NoToolMarkup'
        BY <2>1, NoCallInNothing DEF Nothing, NoToolMarkup
    <2> QED
        BY <1>2, <2>4, <2>5, <2>7, <2>8 DEF MarkupInv
<1>4. ASSUME NEW n \in 1 .. Len(text), Deliver(n)
      PROVE  MarkupInv'
    <2>1. /\ phase = "engine" /\ phase' = "engine" /\ mode.stream /\ mode' = mode /\ text' = text
        BY <1>1, <1>4, DeliverFacts DEF session
    <2>2. TextWhole'
        BY <1>1, <2>1 DEF TextWhole, Streaming
    <2>3. CallFlow'
        BY <1>1, <1>4, CallFlowDelivered
    <2>4. /\ ThinkFlow' /\ AnswerFlow'
          /\ mode.tools /\ Hits(got.reason, OpenCall) = {} => Hits(got'.reason, OpenCall) = {}
        BY <1>1, <1>4, FlowDelivered
    <2>5. Splitting' => Hits(got'.content, OpenCall) = {}
        <3>1. Streaming'
            BY <2>1 DEF Streaming
        <3>2. /\ got'.content \in Seq(Pieces) /\ answer' \in Seq(Pieces)
              /\ splitter' \in CallStates /\ (splitter'.stopped => splitter'.buffer = <<>>)
            BY <1>2 DEF TypeOK, CallStates
        <3>3. Sound(answer')
            BY <2>4, <3>1, NoCallInNothing DEF ThinkFlow, AnswerFlow
        <3>4. Splitting' => CallFlowOf(got'.content, splitter', answer')
            BY <2>3, <3>1 DEF CallFlow
        <3> QED
            BY ONLY <3>2, <3>3, <3>4, CallFlowQuiet
    <2>6. got.reason \in Seq(Pieces) /\ got'.reason \in Seq(Pieces) /\ got'.content \in Seq(Pieces)
        BY <1>1, <1>2 DEF TypeOK
    <2>7. mode.tools => Hits(got'.reason, OpenCall) = {}
        BY <1>1, <2>1, <2>4, <2>6, FoundOpenCall DEF NoToolMarkup
    <2>8. NoToolMarkup'
        BY <2>1, <2>5, <2>6, <2>7, FoundOpenCall DEF NoToolMarkup
    <2> QED
        BY <1>2, <2>2, <2>3, <2>4, <2>8 DEF MarkupInv
<1>5. CASE FinishStream
    <2>1. /\ phase = "engine" /\ mode.stream /\ phase' = "answered" /\ mode' = mode
          /\ Left = IF Splitting THEN splitter.buffer ELSE <<>>
          /\ got'.reason = IF Chat THEN got.reason \o ThinkFlush(think, mode.tools)
                           ELSE got.reason
          /\ got'.content = got.content \o Left
        BY <1>1, <1>5, FinishFacts
    <2>2. Streaming
        BY <2>1 DEF Streaming
    <2>3. /\ got.reason \in Seq(Pieces) /\ got'.reason \in Seq(Pieces)
          /\ got'.content \in Seq(Pieces)
        BY <1>1, <1>2 DEF TypeOK
    <2>4. Splitting => Hits(got'.content, OpenCall) = {}
        BY <1>1, <2>1, <2>2, ContentQuiet
    <2>5. think.buffer \in Held /\ think \in ThinkStates /\ mode.tools \in BOOLEAN
        <3>1. think \in ThinkStates /\ (think.done => think.buffer = <<>>) /\ mode.tools \in BOOLEAN
            BY <1>1, TypeFacts
        <3>2. ~think.done => think.buffer \in Held
            BY <1>1, <2>2 DEF ThinkFlow
        <3> QED
            BY <3>1, <3>2, NoCallInNothing
    <2>6. ASSUME mode.tools
          PROVE  Hits(got'.reason, OpenCall) = {}
        <3>1. Hits(got.reason, OpenCall) = {}
            BY <1>1, <2>1, <2>3, <2>6, FoundOpenCall DEF NoToolMarkup
        <3>2. Hits(got.reason \o ThinkFlush(think, mode.tools), OpenCall) = {}
            BY ONLY <2>3, <2>5, <3>1, TailQuiet
        <3> QED
            BY <2>1, <3>1, <3>2
    <2>7. NoToolMarkup'
        BY <2>1, <2>3, <2>4, <2>6, FoundOpenCall DEF NoToolMarkup, Splitting, Chat
    <2> QED
        BY <1>2, <2>1, <2>7 DEF MarkupInv, TextWhole, CallFlow, ThinkFlow, AnswerFlow, Streaming
<1>6. CASE AnswerPlain
    BY <1>2, <1>6 DEF AnswerPlain, MarkupInv, TextWhole, CallFlow, ThinkFlow, AnswerFlow,
                      Streaming, NoToolMarkup
<1>7. CASE Abort
    <2>1. phase' = "client" /\ mode' = mode /\ got' = got
        BY <1>7 DEF Abort
    <2> QED
        BY <1>1, <1>2, <2>1 DEF MarkupInv, TextWhole, CallFlow, ThinkFlow, AnswerFlow,
                                Streaming, NoToolMarkup, Splitting, Chat
<1>8. CASE Continue
    <2>1. phase' = "client" /\ mode' = mode /\ got' = got
        BY <1>8 DEF Continue
    <2> QED
        BY <1>1, <1>2, <2>1 DEF MarkupInv, TextWhole, CallFlow, ThinkFlow, AnswerFlow,
                                Streaming, NoToolMarkup, Splitting, Chat
<1>9. CASE UNCHANGED vars
    <2>1. /\ mode' = mode /\ phase' = phase /\ splitter' = splitter /\ answer' = answer
          /\ got' = got /\ think' = think /\ text' = text /\ sent' = sent
        BY <1>9 DEF vars, session
    <2> QED
        BY <1>1, <1>2, <2>1 DEF MarkupInv, TextWhole, CallFlow, ThinkFlow, AnswerFlow,
                                Streaming, NoToolMarkup, Splitting, Chat, Recent
<1> QED
    BY <1>3, <1>4, <1>5, <1>6, <1>7, <1>8, <1>9 DEF Next

\* "A tool call must not reach the client as assistant text": no chunking of
\* any reply gets a <tool_call> through the two splitters, as text or as
\* reasoning, when each tag of the reply is whole.
THEOREM NoMarkupShown ==
    ASSUME WholeTags
    PROVE  Spec => []NoToolMarkup
<1>1. MarkupInv /\ [Next]_vars => MarkupInv'
    BY MarkupStep
<1>2. MarkupInv => NoToolMarkup
    BY DEF MarkupInv
<1> QED
    BY MarkupInit, <1>1, <1>2, PTL DEF Spec

-----------------------------------------------------------------------------
(* Flattening: FlattenSeq in layers, one more sequence at each.            *)

Layer(s, f, i)  == IF i = 1 THEN s[i] ELSE f[i - 1] \o s[i]
Layered(s, n, f) == f = [i \in 1 .. n |-> Layer(s, f, i)]

LEMMA LayersExist ==
    ASSUME NEW s, NEW n \in Nat
    PROVE  \E f : Layered(s, n, f)
<1> DEFINE Bad == {k \in Nat : ~ \E f : Layered(s, k, f)}
<1> SUFFICES ASSUME Bad # {}
             PROVE  FALSE
    OBVIOUS
<1>1. PICK k \in Bad : \A j \in Bad : k <= j
    <2>1. Bad \subseteq Nat
        OBVIOUS
    <2> HIDE DEF Bad
    <2> QED
        BY <2>1, Least
<1>2. k \in Nat /\ ~ \E f : Layered(s, k, f)
    OBVIOUS
<1>3. k # 0
    <2> SUFFICES ASSUME k = 0
                 PROVE  FALSE
        OBVIOUS
    <2> DEFINE f == [i \in 1 .. 0 |-> 0]
    <2>1. f = [i \in 1 .. 0 |-> Layer(s, f, i)]
        OBVIOUS
    <2> HIDE DEF f
    <2> QED
        BY <1>2, <2>1 DEF Layered
<1>4. k - 1 \in Nat /\ k - 1 \notin Bad
    BY <1>1, <1>2, <1>3
<1>5. PICK g : Layered(s, k - 1, g)
    BY <1>4
<1> HIDE DEF Bad
<1> DEFINE f == [i \in 1 .. k |-> IF i < k THEN g[i] ELSE Layer(s, g, k)]
<1>6. \A i \in 1 .. k - 1 : g[i] = Layer(s, g, i)
    BY <1>5 DEF Layered
<1>7. \A i \in 1 .. k - 1 : f[i] = g[i]
    BY <1>2, <1>4
<1>8. f[k] = Layer(s, g, k)
    BY <1>2, <1>3
<1>11. f = [i \in 1 .. k |-> f[i]]
    OBVIOUS
<1> HIDE DEF f
<1>9. \A i \in 1 .. k : Layer(s, f, i) = Layer(s, g, i)
    <2> SUFFICES ASSUME NEW i \in 1 .. k, i # 1
                 PROVE  f[i - 1] = g[i - 1]
        BY DEF Layer
    <2>1. i - 1 \in 1 .. k - 1
        BY <1>2
    <2> QED
        BY <1>7, <2>1
<1>10. \A i \in 1 .. k : f[i] = Layer(s, f, i)
    <2> SUFFICES ASSUME NEW i \in 1 .. k
                 PROVE  f[i] = Layer(s, f, i)
        OBVIOUS
    <2>1. CASE i = k
        BY <1>8, <1>9, <2>1
    <2>2. CASE i # k
        <3>1. i \in 1 .. k - 1
            BY <1>2, <2>2
        <3> QED
            BY <1>6, <1>7, <1>9, <3>1
    <2> QED
        BY <2>1, <2>2
<1>12. Layered(s, k, f)
    BY <1>10, <1>11 DEF Layered
<1> QED
    BY <1>2, <1>12

\* Sums of a sequence of sequences: Sums(s)[i] flattens its first i members.
IsSums(s, f, T) == /\ f \in [0 .. Len(s) -> Seq(T)] /\ f[0] = <<>>
                   /\ \A i \in 1 .. Len(s) : f[i] = f[i - 1] \o s[i]

LEMMA FlatSums ==
    ASSUME NEW T, NEW s \in Seq(Seq(T))
    PROVE  \E f : IsSums(s, f, T) /\ FlattenSeq(s) = f[Len(s)]
<1>1. Len(s) \in Nat /\ \A i \in 1 .. Len(s) : s[i] \in Seq(T)
    BY LenProperties, ElementOfSeq
<1> DEFINE flat == CHOOSE f : Layered(s, Len(s), f)
<1>2. Layered(s, Len(s), flat)
    BY <1>1, LayersExist
<1>3. FlattenSeq(s) = IF Len(s) = 0 THEN s ELSE flat[Len(s)]
    BY DEF FlattenSeq, Layered, Layer
<1> HIDE DEF flat
<1>4. \A i \in 1 .. Len(s) : flat[i] = IF i = 1 THEN s[i] ELSE flat[i - 1] \o s[i]
    BY <1>2 DEF Layered, Layer
<1> DEFINE Bad == {i \in Nat : i \in 1 .. Len(s) /\ flat[i] \notin Seq(T)}
<1>5. Bad = {}
    <2> SUFFICES ASSUME Bad # {}
                 PROVE  FALSE
        OBVIOUS
    <2>1. PICK k \in Bad : \A j \in Bad : k <= j
        <3>1. Bad \subseteq Nat
            OBVIOUS
        <3> HIDE DEF Bad
        <3> QED
            BY <3>1, Least
    <2>2. k \in 1 .. Len(s) /\ flat[k] \notin Seq(T)
        OBVIOUS
    <2>3. CASE k = 1
        BY <1>1, <1>4, <2>2, <2>3
    <2>4. CASE k # 1
        <3>1. k - 1 \in 1 .. Len(s) /\ k - 1 \notin Bad /\ k - 1 \in Nat
            BY <1>1, <2>1, <2>2, <2>4
        <3>2. flat[k - 1] \in Seq(T)
            BY <3>1
        <3>3. flat[k] = flat[k - 1] \o s[k] /\ s[k] \in Seq(T)
            BY <1>1, <1>4, <2>2, <2>4
        <3> QED
            BY <2>2, <3>2, <3>3, ConcatProperties
    <2> QED
        BY <2>3, <2>4
<1>6. ASSUME NEW i \in 1 .. Len(s)
      PROVE  flat[i] \in Seq(T)
    <2>1. i \notin Bad /\ i \in Nat
        BY <1>5
    <2> QED
        BY <2>1
<1> HIDE DEF Bad
<1> DEFINE f == [i \in 0 .. Len(s) |-> IF i = 0 THEN <<>> ELSE flat[i]]
<1>7. f \in [0 .. Len(s) -> Seq(T)] /\ f[0] = <<>>
    <2>1. \A i \in 0 .. Len(s) : i # 0 => i \in 1 .. Len(s)
        BY <1>1
    <2>2. <<>> \in Seq(T)
        OBVIOUS
    <2> QED
        BY <1>1, <1>6, <2>1, <2>2
<1>8. \A i \in 1 .. Len(s) : f[i] = f[i - 1] \o s[i]
    <2> SUFFICES ASSUME NEW i \in 1 .. Len(s)
                 PROVE  f[i] = f[i - 1] \o s[i]
        OBVIOUS
    <2>1. i \in 0 .. Len(s) /\ i - 1 \in 0 .. Len(s) /\ i # 0
        BY <1>1
    <2>2. f[i] = flat[i]
        BY <2>1
    <2>3. CASE i = 1
        <3>1. f[i - 1] = <<>> /\ flat[i] = s[i] /\ s[i] \in Seq(T)
            BY <1>1, <1>4, <1>7, <2>3
        <3> QED
            BY ONLY <2>2, <3>1, ConcatEmptySeq
    <2>4. CASE i # 1
        <3>1. f[i - 1] = flat[i - 1]
            BY <2>1, <2>4
        <3> QED
            BY <1>4, <2>2, <2>4, <3>1
    <2> QED
        BY <2>3, <2>4
<1>9. FlattenSeq(s) = f[Len(s)]
    <2>1. CASE Len(s) = 0
        BY <1>1, <1>3, <1>7, <2>1, EmptySeq
    <2>2. CASE Len(s) # 0
        BY <1>1, <1>3, <2>2
    <2> QED
        BY <2>1, <2>2
<1> HIDE DEF f
<1> QED
    BY <1>7, <1>8, <1>9 DEF IsSums

LEMMA FlatTypes ==
    ASSUME NEW T, NEW s \in Seq(Seq(T))
    PROVE  FlattenSeq(s) \in Seq(T)
<1>1. PICK f : IsSums(s, f, T) /\ FlattenSeq(s) = f[Len(s)]
    BY FlatSums
<1>2. Len(s) \in 0 .. Len(s)
    BY LenProperties
<1> QED
    BY <1>1, <1>2 DEF IsSums

LEMMA FlatConcat ==
    ASSUME NEW T, NEW a \in Seq(Seq(T)), NEW b \in Seq(Seq(T))
    PROVE  FlattenSeq(a \o b) = FlattenSeq(a) \o FlattenSeq(b)
<1> DEFINE w == a \o b
<1>1. /\ w \in Seq(Seq(T)) /\ Len(a) \in Nat /\ Len(b) \in Nat /\ Len(w) = Len(a) + Len(b)
      /\ \A i \in 1 .. Len(a) : w[i] = a[i]
      /\ \A i \in 1 .. Len(b) : w[Len(a) + i] = b[i]
    BY JoinFacts
<1> HIDE DEF w
<1>2. PICK f : IsSums(a, f, T) /\ FlattenSeq(a) = f[Len(a)]
    BY FlatSums
<1>3. PICK g : IsSums(b, g, T) /\ FlattenSeq(b) = g[Len(b)]
    BY FlatSums
<1>4. PICK h : IsSums(w, h, T) /\ FlattenSeq(w) = h[Len(w)]
    BY <1>1, FlatSums
<1>5. \A i \in 0 .. Len(a) : h[i] = f[i]
    <2> DEFINE Bad == {i \in Nat : i <= Len(a) /\ h[i] # f[i]}
    <2> SUFFICES ASSUME Bad # {}
                 PROVE  FALSE
        BY <1>1
    <2>1. PICK k \in Bad : \A j \in Bad : k <= j
        <3>1. Bad \subseteq Nat
            OBVIOUS
        <3> HIDE DEF Bad
        <3> QED
            BY <3>1, Least
    <2>2. k \in Nat /\ k <= Len(a) /\ h[k] # f[k]
        OBVIOUS
    <2>3. k # 0
        BY <1>2, <1>4, <2>2 DEF IsSums
    <2>4. k - 1 \in Nat /\ k - 1 \notin Bad /\ k - 1 <= Len(a)
        BY <1>1, <2>1, <2>2, <2>3
    <2>5. h[k - 1] = f[k - 1]
        BY <2>4
    <2> HIDE DEF Bad
    <2>6. k \in 1 .. Len(a) /\ k \in 1 .. Len(w)
        BY <1>1, <2>2, <2>3
    <2>7. h[k] = h[k - 1] \o w[k] /\ f[k] = f[k - 1] \o a[k] /\ w[k] = a[k]
        BY <1>1, <1>2, <1>4, <2>6 DEF IsSums
    <2> QED
        BY <2>2, <2>5, <2>7
<1>6. \A i \in 0 .. Len(b) : h[Len(a) + i] = f[Len(a)] \o g[i]
    <2> DEFINE Off(i) == i <= Len(b) /\ h[Len(a) + i] # f[Len(a)] \o g[i]
               Bad    == {i \in Nat : Off(i)}
    <2> SUFFICES ASSUME Bad # {}
                 PROVE  FALSE
        <3>1. \A i \in 0 .. Len(b) : i \in Nat /\ i <= Len(b)
            BY <1>1
        <3> QED
            BY <3>1
    <2>1. PICK k \in Bad : \A j \in Bad : k <= j
        <3>1. Bad \subseteq Nat
            OBVIOUS
        <3> HIDE DEF Bad
        <3> QED
            BY <3>1, Least
    <2>2. k \in Nat /\ k <= Len(b) /\ h[Len(a) + k] # f[Len(a)] \o g[k]
        OBVIOUS
    <2>l. Len(a) \in 0 .. Len(a)
        BY <1>1
    <2>a. f[Len(a)] \in Seq(T)
        BY <1>2, <2>l DEF IsSums
    <2>3. k # 0
        <3> SUFFICES ASSUME k = 0
                     PROVE  FALSE
            OBVIOUS
        <3>1. Len(a) + k = Len(a) /\ g[k] = <<>>
            BY <1>1, <1>3 DEF IsSums
        <3>2. f[Len(a)] \o <<>> = f[Len(a)]
            BY ONLY <2>a, ConcatEmptySeq
        <3> QED
            BY <1>5, <2>2, <2>l, <3>1, <3>2
    <2>4. k - 1 \in Nat /\ k - 1 <= Len(b) /\ ~Off(k - 1)
        <3>1. k - 1 \in Nat /\ k - 1 <= Len(b) /\ ~(k <= k - 1)
            BY <1>1, <2>2, <2>3
        <3>2. k - 1 \notin Bad
            <4> HIDE DEF Bad
            <4> QED
                BY <2>1, <3>1
        <3> HIDE DEF Off
        <3> QED
            BY <3>1, <3>2
    <2>5. h[Len(a) + (k - 1)] = f[Len(a)] \o g[k - 1]
        BY <2>4
    <2> HIDE DEF Bad
    <2>6. /\ k \in 1 .. Len(b) /\ Len(a) + k \in 1 .. Len(w) /\ k - 1 \in 0 .. Len(b)
          /\ (Len(a) + k) - 1 = Len(a) + (k - 1)
        BY <1>1, <2>2, <2>3
    <2>7. /\ h[Len(a) + k] = h[(Len(a) + k) - 1] \o w[Len(a) + k]
          /\ g[k] = g[k - 1] \o b[k] /\ w[Len(a) + k] = b[k]
          /\ g[k - 1] \in Seq(T)
        BY <1>1, <1>3, <1>4, <2>6 DEF IsSums
    <2>8. h[Len(a) + k] = (f[Len(a)] \o g[k - 1]) \o b[k]
        BY <2>5, <2>6, <2>7
    <2>9. b[k] \in Seq(T) /\ g[k - 1] \in Seq(T)
        BY <2>6, <2>7, ElementOfSeq
    <2>10. (f[Len(a)] \o g[k - 1]) \o b[k] = f[Len(a)] \o (g[k - 1] \o b[k])
        <3>1. PICK x \in Seq(T) : x = f[Len(a)]
            BY <2>a
        <3>2. PICK y \in Seq(T) : y = g[k - 1]
            BY <2>9
        <3>3. PICK z \in Seq(T) : z = b[k]
            BY <2>9
        <3>4. (x \o y) \o z = x \o (y \o z)
            BY ONLY x \in Seq(T), y \in Seq(T), z \in Seq(T), ConcatAssociative, SMTT(60)
        <3> QED
            BY <3>1, <3>2, <3>3, <3>4
    <2> QED
        BY <2>2, <2>7, <2>8, <2>10
<1>7. Len(b) \in 0 .. Len(b) /\ Len(a) + Len(b) = Len(w)
    BY <1>1
<1>8. h[Len(a) + Len(b)] = f[Len(a)] \o g[Len(b)]
    BY <1>6, <1>7
<1> QED
    BY <1>2, <1>3, <1>4, <1>7, <1>8 DEF w

LEMMA LeadsConcat ==
    ASSUME NEW T, NEW a \in Seq(T), NEW b \in Seq(T)
    PROVE  IsPrefix(a, a \o b)
<1> DEFINE w == a \o b
<1>1. /\ w \in Seq(T) /\ Len(a) \in Nat /\ Len(b) \in Nat /\ Len(w) = Len(a) + Len(b)
      /\ \A i \in 1 .. Len(a) : w[i] = a[i]
    BY JoinFacts
<1> HIDE DEF w
<1>2. Len(a) + 1 \in 1 .. Len(a) + 1 /\ Len(a) + 1 \in 1 .. Len(w) + 1 /\ (Len(a) + 1) - 1 = Len(a)
    BY <1>1
<1>3. /\ Upto(a, Len(a) + 1) \in Seq(T) /\ Len(Upto(a, Len(a) + 1)) = Len(a)
      /\ \A k \in 1 .. Len(a) : Upto(a, Len(a) + 1)[k] = a[k]
    BY <1>2, CutFacts
<1>4. /\ Upto(w, Len(a) + 1) \in Seq(T) /\ Len(Upto(w, Len(a) + 1)) = Len(a)
      /\ \A k \in 1 .. Len(a) : Upto(w, Len(a) + 1)[k] = w[k]
    BY <1>1, <1>2, CutFacts
<1>5. Upto(a, Len(a) + 1) = Upto(w, Len(a) + 1)
    BY <1>1, <1>3, <1>4, SeqEqual
<1>6. SubSeq(a, 1, Len(a)) = SubSeq(w, 1, Len(a))
    BY <1>2, <1>5 DEF Upto
<1>7. Len(a) <= Len(w)
    BY <1>1
<1> QED
    BY <1>6, <1>7 DEF IsPrefix, w

\* More members make a longer text with the same beginning.
LEMMA FlatLeads ==
    ASSUME NEW T, NEW a \in Seq(Seq(T)), NEW b \in Seq(Seq(T))
    PROVE  IsPrefix(FlattenSeq(a), FlattenSeq(a \o b))
<1>1. FlattenSeq(a) \in Seq(T) /\ FlattenSeq(b) \in Seq(T)
    BY FlatTypes
<1>2. FlattenSeq(a \o b) = FlattenSeq(a) \o FlattenSeq(b)
    BY FlatConcat
<1> QED
    BY <1>1, <1>2, LeadsConcat

-----------------------------------------------------------------------------
(* The words of a prompt.                                                  *)

LEMMA WordFacts ==
    ASSUME NEW W
    PROVE  /\ Frame \subseteq Quiet(W) /\ W \subseteq Quiet(W)
           /\ Quiet(W) \subseteq Spoken(W) /\ Pieces \subseteq Spoken(W)
           /\ {"assistant", "<think>", "response", "/response", "ask", "result"} \subseteq Spoken(W)
           /\ W \cap {"ask", "assistant", "response"} = {} =>
                 {"ask", "assistant", "response"} \cap Quiet(W) = {}
BY DEF Frame, Quiet, Spoken

LEMMA StripBlocksTypes ==
    ASSUME NEW T, NEW s \in Seq(T)
    PROVE  StripBlocks(s) \in Seq(T)
<1> DEFINE at == {i \in DOMAIN s : s[i] # "plugins"}
<1>1. at \subseteq 1 .. Len(s)
    BY LenProperties
<1> HIDE DEF at
<1>2. Pick(s, at) \in Seq(T)
    BY ONLY <1>1, s \in Seq(T), PickFacts
<1>3. Strip(Pick(s, at)) \in Seq(T)
    BY <1>2, StripTypes
<1> QED
    BY <1>3 DEF StripBlocks, at

LEMMA JoinedTypes ==
    ASSUME NEW T, NEW seqs \in Seq(Seq(T)), NEW sep \in Seq(T)
    PROVE  Joined(seqs, sep) \in Seq(T)
<1> DEFINE all == [i \in DOMAIN seqs |-> IF i = 1 THEN seqs[i] ELSE sep \o seqs[i]]
<1>1. DOMAIN seqs = 1 .. Len(seqs) /\ Len(seqs) \in Nat /\ \A i \in 1 .. Len(seqs) : seqs[i] \in Seq(T)
    BY LenProperties, ElementOfSeq
<1>2. \A i \in 1 .. Len(seqs) : sep \o seqs[i] \in Seq(T)
    BY <1>1, ConcatProperties
<1>3. all \in [1 .. Len(seqs) -> Seq(T)]
    BY <1>1, <1>2
<1> HIDE DEF all
<1>4. all \in Seq(Seq(T))
    <2>1. PICK n \in Nat : n = Len(seqs)
        BY <1>1
    <2>2. all \in [1 .. n -> Seq(T)]
        BY <1>3, <2>1
    <2> QED
        BY ONLY <2>2
<1>5. FlattenSeq(all) \in Seq(T)
    BY <1>4, FlatTypes
<1> QED
    BY <1>5 DEF Joined, all

LEMMA SystemTypes ==
    ASSUME NEW Q, Frame \subseteq Q, NEW extra \in Seq(Seq(Q))
    PROVE  SystemTurn(extra) \in Seq(Seq(Q))
<1> DEFINE effort == IF mode.thinking THEN << <<"effort">> >> ELSE <<>>
           tools  == IF mode.tools THEN << <<"tools">> >> ELSE <<>>
           own    == Pick(extra, {i \in DOMAIN extra : extra[i] # <<>>})
           head   == effort \o tools \o own
           turn0  == <<"system">> \o Joined(head, <<"nl", "nl">>) \o <<"end">>
<1>1. <<"effort">> \in Seq(Q) /\ <<"tools">> \in Seq(Q) /\ <<"nl", "nl">> \in Seq(Q)
      /\ <<"system">> \in Seq(Q) /\ <<"end">> \in Seq(Q)
    BY DEF Frame
<1>2. effort \in Seq(Seq(Q)) /\ tools \in Seq(Seq(Q))
    BY <1>1
<1>3. own \in Seq(Seq(Q))
    <2> DEFINE at == {i \in DOMAIN extra : extra[i] # <<>>}
    <2>1. at \subseteq 1 .. Len(extra)
        BY LenProperties
    <2> HIDE DEF at
    <2>2. Pick(extra, at) \in Seq(Seq(Q))
        BY ONLY <2>1, extra \in Seq(Seq(Q)), PickFacts
    <2> QED
        BY <2>2 DEF at
<1> HIDE DEF effort, tools, own
<1>4. head \in Seq(Seq(Q))
    <2>1. effort \o tools \in Seq(Seq(Q))
        BY <1>2, ConcatProperties
    <2> QED
        BY <1>3, <2>1, ConcatProperties
<1> HIDE DEF head
<1>5. Joined(head, <<"nl", "nl">>) \in Seq(Q)
    BY <1>1, <1>4, JoinedTypes
<1>6. turn0 \in Seq(Q)
    <2>1. <<"system">> \o Joined(head, <<"nl", "nl">>) \in Seq(Q)
        BY <1>1, <1>5, ConcatProperties
    <2> QED
        BY <1>1, <2>1, ConcatProperties
<1> HIDE DEF turn0
<1>7. << turn0 >> \in Seq(Seq(Q)) /\ <<>> \in Seq(Seq(Q))
    BY <1>6
<1>8. SystemTurn(extra) = IF head = <<>> THEN <<>> ELSE << turn0 >>
    BY DEF SystemTurn, head, turn0, effort, tools, own
<1> QED
    BY <1>7, <1>8

LEMMA UserTurnTypes ==
    ASSUME NEW Q, Frame \subseteq Q, NEW s \in Seq(Q)
    PROVE  UserTurn(s) \in Seq(Q)
<1>1. <<"user">> \in Seq(Q) /\ <<"end">> \in Seq(Q)
    BY DEF Frame
<1>2. StripBlocks(s) \in Seq(Q)
    BY StripBlocksTypes
<1>3. <<"user">> \o StripBlocks(s) \in Seq(Q)
    BY <1>1, <1>2, ConcatProperties
<1> QED
    BY <1>1, <1>3, ConcatProperties DEF UserTurn

-----------------------------------------------------------------------------
(* Every turn of a conversation is a text.                                 *)

LEMMA CallBlockTypes ==
    ASSUME NEW T, Pieces \subseteq T, NEW f \in T
    PROVE  CallBlock(f) \in Seq(T)
<1>1. OpenCall \in Seq(T) /\ <<"nl", f, "nl">> \in Seq(T) /\ CloseCall \in Seq(T)
    BY DEF OpenCall, CloseCall, Pieces
<1>2. OpenCall \o <<"nl", f, "nl">> \in Seq(T)
    BY <1>1, ConcatProperties
<1> QED
    BY <1>1, <1>2, ConcatProperties DEF CallBlock

LEMMA CallBlocksTypes ==
    ASSUME NEW T, Pieces \subseteq T, NEW calls \in Seq({"f", "n"})
    PROVE  CallBlocks(calls) \in Seq(T)
<1> DEFINE all == [i \in DOMAIN calls |-> CallBlock(calls[i])]
<1>1. DOMAIN calls = 1 .. Len(calls) /\ Len(calls) \in Nat
      /\ \A i \in 1 .. Len(calls) : calls[i] \in {"f", "n"}
    BY LenProperties, ElementOfSeq
<1>2. \A i \in 1 .. Len(calls) : CallBlock(calls[i]) \in Seq(T)
    <2>1. \A i \in 1 .. Len(calls) : calls[i] \in T
        BY <1>1 DEF Pieces
    <2> QED
        BY <2>1, CallBlockTypes
<1>3. all \in [1 .. Len(calls) -> Seq(T)]
    BY <1>1, <1>2
<1>4. all \in Seq(Seq(T))
    <2> HIDE DEF all
    <2> QED
        BY <1>1, <1>3
<1>5. <<"nl">> \in Seq(T)
    BY DEF Pieces
<1> HIDE DEF all
<1>6. Joined(all, <<"nl">>) \in Seq(T)
    BY <1>4, <1>5, JoinedTypes
<1> QED
    BY <1>6 DEF CallBlocks, all

LEMMA OnlyTypes ==
    ASSUME NEW T, NEW b, NEW s \in Seq(T)
    PROVE  Only(b, s) \in Seq(T)
<1>1. <<>> \in Seq(T)
    OBVIOUS
<1> QED
    BY <1>1 DEF Only

LEMMA TurnWords ==
    ASSUME NEW W, NEW h \in Seq(Messages(W)), NEW i \in 1 .. Len(h)
    PROVE  Turn(h, i) \in Seq(Spoken(W))
<1> DEFINE T == Spoken(W)   m == h[i]
<1>1. m \in Messages(W)
    BY ElementOfSeq
<1>2. /\ m.text \in Seq(T) /\ m.reason \in Seq(T) /\ m.calls \in Seq({"f", "n"})
      /\ (m.role = "call" => m.text # <<>>)
    BY <1>1 DEF Messages
<1>3. /\ Pieces \subseteq T /\ Frame \subseteq T
      /\ {"assistant", "<think>", "response", "/response"} \subseteq T
    BY WordFacts
<1> HIDE DEF T, m
<1>4. /\ <<"user">> \in Seq(T) /\ <<"end">> \in Seq(T) /\ <<"nl">> \in Seq(T)
      /\ <<"nl", "nl">> \in Seq(T) /\ <<"nl", "response", "nl">> \in Seq(T)
      /\ <<"nl", "/response">> \in Seq(T) /\ ThinkOpen \in Seq(T) /\ CloseThink \in Seq(T)
    BY <1>3 DEF Frame, ThinkOpen, CloseThink, Pieces
<1>j. \A a, b \in Seq(T) : a \o b \in Seq(T)
    BY ConcatProperties
<1>5. EmptyThink \in Seq(T)
    BY <1>4, <1>j DEF EmptyThink
<1>6. ToolTurn(h, i) \in Seq(T)
    <2>1. Only(Opens(h, i), <<"user">>) \in Seq(T) /\ Only(Closes(h, i), <<"end">>) \in Seq(T)
        BY <1>4, OnlyTypes
    <2> QED
        BY <1>2, <1>4, <1>j, <2>1 DEF ToolTurn, m
<1>7. m.role = "call" => CallItem(h, i) \in Seq(T)
    <2> SUFFICES ASSUME m.role = "call"
                 PROVE  CallItem(h, i) \in Seq(T)
        OBVIOUS
    <2>1. m.text[1] \in T
        <3>1. 1 \in 1 .. Len(m.text)
            BY <1>2, LenProperties, EmptySeq
        <3> QED
            BY <1>2, <3>1, ElementOfSeq
    <2>2. Bare(m.text[1]) \in T
        BY <1>3, <2>1 DEF Bare, Pieces
    <2>3. CallBlock(Bare(m.text[1])) \in Seq(T)
        BY <1>3, <2>2, CallBlockTypes
    <2>4. Only(Closes(h, i), <<"end">>) \in Seq(T)
        BY <1>4, OnlyTypes
    <2>5. (IF Opens(h, i) THEN EmptyThink ELSE <<"nl">>) \in Seq(T)
        BY <1>4, <1>5
    <2> QED
        BY <1>j, <2>3, <2>4, <2>5 DEF CallItem, m
<1>8. ChatAssistant(m) \in Seq(T)
    <2>1. CallBlocks(m.calls) \in Seq(T)
        BY <1>2, <1>3, CallBlocksTypes
    <2>2. Only(Strip(m.text) # <<>>, <<"nl", "nl">>) \in Seq(T)
        BY <1>4, OnlyTypes
    <2>3. Only(Strip(m.text) # <<>>, <<"nl", "nl">>) \o CallBlocks(m.calls) \in Seq(T)
        BY <1>j, <2>1, <2>2
    <2>4. Only(m.calls # <<>>, Only(Strip(m.text) # <<>>, <<"nl", "nl">>)
                               \o CallBlocks(m.calls)) \in Seq(T)
        BY <2>3, OnlyTypes
    <2> QED
        BY <1>2, <1>4, <1>j, <2>4 DEF ChatAssistant
<1>9. ItemAssistant(m) \in Seq(T)
    BY <1>2, <1>4, <1>5, <1>j DEF ItemAssistant
<1>10. UserTurn(m.text) \in Seq(T)
    BY <1>2, <1>3, UserTurnTypes
<1> QED
    BY <1>6, <1>7, <1>8, <1>9, <1>10 DEF Turn, T, m

LEMMA TurnsWords ==
    ASSUME NEW W, NEW h \in Seq(Messages(W))
    PROVE  /\ Turns(h) \in Seq(Seq(Spoken(W))) /\ Len(Turns(h)) = Len(h)
           /\ \A i \in 1 .. Len(h) : Turns(h)[i] = Turn(h, i)
<1>1. DOMAIN h = 1 .. Len(h) /\ Len(h) \in Nat
    BY LenProperties
<1>2. \A i \in 1 .. Len(h) : Turn(h, i) \in Seq(Spoken(W))
    BY TurnWords
<1>3. Turns(h) = [i \in 1 .. Len(h) |-> Turn(h, i)]
    BY <1>1 DEF Turns
<1>4. Turns(h) \in [1 .. Len(h) -> Seq(Spoken(W))]
    BY <1>2, <1>3
<1>5. Turns(h) \in Seq(Seq(Spoken(W)))
    BY <1>1, <1>4
<1>6. DOMAIN Turns(h) = 1 .. Len(h)
    BY <1>3
<1>7. Len(Turns(h)) = Len(h)
    BY <1>1, <1>5, <1>6, LenProperties
<1> QED
    BY <1>3, <1>5, <1>7

LEMMA GenerationWords ==
    ASSUME NEW W
    PROVE  << Generation >> \in Seq(Seq(Spoken(W)))
<1> DEFINE T == Spoken(W)
<1>1. Pieces \subseteq T /\ {"assistant", "<think>"} \subseteq T
    BY WordFacts
<1> HIDE DEF T
<1>2. ThinkOpen \in Seq(T) /\ CloseThink \in Seq(T) /\ <<"nl">> \in Seq(T) /\ <<"nl", "nl">> \in Seq(T)
    BY <1>1 DEF ThinkOpen, CloseThink, Pieces
<1>3. EmptyThink \in Seq(T)
    <2>1. ThinkOpen \o <<"nl">> \in Seq(T)
        BY <1>2, ConcatProperties
    <2>2. (ThinkOpen \o <<"nl">>) \o CloseThink \in Seq(T)
        BY <1>2, <2>1, ConcatProperties
    <2> QED
        BY <1>2, <2>2, ConcatProperties DEF EmptyThink
<1>4. Generation \in Seq(T)
    BY <1>2, <1>3 DEF Generation
<1> QED
    BY <1>4 DEF T

-----------------------------------------------------------------------------
(* What the handlers render.                                               *)

Begin         == Opening[mode.api]
Developers(h) == Cardinality({i \in DOMAIN h : \A j \in 1 .. i : h[j].role = "developer"})

\* The system turn of every request of the session.
FirstHead ==
    SystemTurn(IF Chat
               THEN IF Begin[1].role = "system" THEN << StripBlocks(Begin[1].text) >> ELSE <<>>
               ELSE [i \in 1 .. Developers(Begin) |-> StripBlocks(Begin[i].text)])

\* h goes on from the session's opening, and has had answers since.
Extends(h) == /\ Len(h) >= Len(Begin) /\ \A i \in 1 .. Len(Begin) : h[i] = Begin[i]
Traffic(h) == \E i \in Len(Begin) + 1 .. Len(h) : h[i].role \in {"call", "tool", "assistant"}

\* A request is the system turn, more of the opening, and the rest; all but
\* the rest is declared.
RenderedAs(W, h) ==
    \E a, b \in Seq(Seq(Spoken(W))) :
        /\ Render(h).prompt = FlattenSeq((FirstHead \o a) \o b)
        /\ Render(h).prefix = FlattenSeq(FirstHead \o a)
        /\ Traffic(h) => a = <<>>
        /\ h = Begin => a \in Seq(Seq(Quiet(W)))

LEMMA BeginFacts ==
    ASSUME NEW W, OpeningShape(W), mode \in Modes
    PROVE  /\ Begin \in Seq(Messages(W)) /\ Begin # <<>> /\ Len(Begin) \in Nat \ {0}
           /\ Begin[Len(Begin)] = Item("user", <<"ask">>)
           /\ \A i \in 1 .. Len(Begin) : Begin[i].role \in {"system", "developer", "user"}
           /\ \A i \in 1 .. Len(Begin) - 1 : Begin[i].text \in Seq(Quiet(W))
<1>1. mode.api \in {"chat", "responses"}
    BY DEF Modes
<1>2. /\ Begin \in Seq(Messages(W)) /\ Begin # <<>>
      /\ Begin[Len(Begin)] = Item("user", <<"ask">>)
      /\ \A i \in 1 .. Len(Begin) : Begin[i].role \in {"system", "developer", "user"}
      /\ \A i \in 1 .. Len(Begin) - 1 : Begin[i].text \in Seq(W)
    BY <1>1 DEF OpeningShape, Begin
<1> HIDE DEF Begin
<1>3. \A i \in 1 .. Len(Begin) - 1 : Begin[i].text \in Seq(Quiet(W))
    <2>1. W \subseteq Quiet(W)
        BY WordFacts
    <2> QED
        BY <1>2, <2>1, SeqMonotonic
<1>4. Len(Begin) \in Nat \ {0}
    BY <1>2, EmptySeq
<1> QED
    BY <1>2, <1>3, <1>4

\* The developer messages that lead the opening: never all of it.
LEMMA DeveloperFacts ==
    ASSUME NEW W, OpeningShape(W), mode \in Modes, NEW h \in Seq(Messages(W)), Extends(h)
    PROVE  /\ Developers(h) = Developers(Begin)
           /\ Developers(Begin) \in 0 .. Len(Begin) - 1
<1> DEFINE at(s) == {i \in DOMAIN s : \A j \in 1 .. i : s[j].role = "developer"}
<1>1. /\ Begin \in Seq(Messages(W)) /\ Len(Begin) \in Nat \ {0}
      /\ Begin[Len(Begin)].role = "user"
    BY BeginFacts DEF Item
<1>2. /\ Len(h) \in Nat /\ DOMAIN h = 1 .. Len(h) /\ DOMAIN Begin = 1 .. Len(Begin)
      /\ Len(h) >= Len(Begin) /\ \A i \in 1 .. Len(Begin) : h[i] = Begin[i]
    BY <1>1, LenProperties DEF Extends
<1>3. \A i \in at(h) : i < Len(Begin)
    <2> SUFFICES ASSUME NEW i \in at(h), i >= Len(Begin)
                 PROVE  FALSE
        BY <1>1, <1>2
    <2>1. Len(Begin) \in 1 .. i /\ Len(Begin) \in 1 .. Len(Begin)
        BY <1>1, <1>2
    <2>2. h[Len(Begin)].role = "developer"
        BY <2>1
    <2> QED
        BY <1>1, <1>2, <2>1, <2>2
<1>4. \A i \in at(Begin) : i < Len(Begin)
    <2> SUFFICES ASSUME NEW i \in at(Begin), i >= Len(Begin)
                 PROVE  FALSE
        BY <1>1, <1>2
    <2>1. Len(Begin) \in 1 .. i
        BY <1>1, <1>2
    <2>2. Begin[Len(Begin)].role = "developer"
        BY <2>1
    <2> QED
        BY <1>1, <2>2
<1>5. at(h) = at(Begin)
    <2>1. ASSUME NEW i \in at(h)
          PROVE  i \in at(Begin)
        <3>1. i \in 1 .. Len(Begin) /\ \A j \in 1 .. i : j \in 1 .. Len(Begin)
            BY <1>1, <1>2, <1>3
        <3> QED
            BY <1>2, <3>1
    <2>2. ASSUME NEW i \in at(Begin)
          PROVE  i \in at(h)
        <3>1. i \in 1 .. Len(Begin) /\ i \in 1 .. Len(h) /\ \A j \in 1 .. i : j \in 1 .. Len(Begin)
            BY <1>1, <1>2, <1>4
        <3> QED
            BY <1>2, <3>1
    <2> QED
        BY <2>1, <2>2
<1>6. at(Begin) \subseteq 1 .. Len(Begin) - 1
    BY <1>1, <1>2, <1>4
<1> HIDE DEF at
<1>7. Cardinality(at(Begin)) \in 0 .. Len(Begin) - 1
    <2>1. PICK n \in Nat : n = Len(Begin) - 1
        BY <1>1
    <2>2. at(Begin) \subseteq 1 .. n
        BY <1>6, <2>1
    <2>3. Cardinality(at(Begin)) \in 0 .. n
        BY ONLY n \in Nat, <2>2, CountFacts
    <2> QED
        BY <2>1, <2>3
<1>8. Developers(h) = Cardinality(at(h)) /\ Developers(Begin) = Cardinality(at(Begin))
    BY DEF Developers, at
<1> QED
    BY <1>5, <1>7, <1>8

LEMMA HeadQuiet ==
    ASSUME NEW W, OpeningShape(W), mode \in Modes
    PROVE  FirstHead \in Seq(Seq(Quiet(W)))
<1> DEFINE extra == IF Chat
                    THEN IF Begin[1].role = "system" THEN << StripBlocks(Begin[1].text) >>
                         ELSE <<>>
                    ELSE [i \in 1 .. Developers(Begin) |-> StripBlocks(Begin[i].text)]
<1>1. /\ Begin \in Seq(Messages(W)) /\ Len(Begin) \in Nat \ {0}
      /\ Begin[Len(Begin)].role = "user"
      /\ \A i \in 1 .. Len(Begin) - 1 : Begin[i].text \in Seq(Quiet(W))
    BY BeginFacts DEF Item
<1>2. \A i \in 1 .. Len(Begin) - 1 : StripBlocks(Begin[i].text) \in Seq(Quiet(W))
    BY <1>1, StripBlocksTypes
<1>3. extra \in Seq(Seq(Quiet(W)))
    <2>1. CASE Chat /\ Begin[1].role = "system"
        <3>1. 1 \in 1 .. Len(Begin) - 1
            BY <1>1, <2>1
        <3>2. StripBlocks(Begin[1].text) \in Seq(Quiet(W))
            BY <1>2, <3>1
        <3>3. extra = << StripBlocks(Begin[1].text) >>
            BY <2>1
        <3> HIDE DEF extra
        <3> QED
            BY ONLY <3>2, <3>3
    <2>2. CASE Chat /\ Begin[1].role # "system"
        <3>1. extra = <<>>
            BY <2>2
        <3> HIDE DEF extra
        <3> QED
            BY ONLY <3>1
    <2>3. CASE ~Chat
        <3>1. Extends(Begin)
            BY <1>1 DEF Extends
        <3>2. Developers(Begin) \in 0 .. Len(Begin) - 1
            BY <1>1, <3>1, DeveloperFacts
        <3>3. PICK n \in 0 .. Len(Begin) - 1 : n = Developers(Begin)
            BY <3>2
        <3>4. extra = [i \in 1 .. n |-> StripBlocks(Begin[i].text)]
            BY <2>3, <3>3
        <3>5. n \in Nat /\ \A i \in 1 .. n : i \in 1 .. Len(Begin) - 1
            BY <1>1
        <3>6. extra \in [1 .. n -> Seq(Quiet(W))]
            <4> HIDE DEF extra
            <4> QED
                BY <1>2, <3>4, <3>5
        <3> HIDE DEF extra
        <3>7. n \in Nat
            BY <3>5
        <3> QED
            BY ONLY <3>6, <3>7
    <2> QED
        BY <2>1, <2>2, <2>3
<1> HIDE DEF extra
<1>4. SystemTurn(extra) \in Seq(Seq(Quiet(W)))
    BY <1>3, WordFacts, SystemTypes
<1> QED
    BY <1>4 DEF FirstHead, extra

LEMMA HeadSpoken ==
    ASSUME NEW W, OpeningShape(W), mode \in Modes
    PROVE  FirstHead \in Seq(Seq(Spoken(W)))
<1>1. FirstHead \in Seq(Seq(Quiet(W)))
    BY HeadQuiet
<1>2. Seq(Quiet(W)) \subseteq Seq(Spoken(W))
    BY WordFacts, SeqMonotonic
<1> HIDE DEF FirstHead
<1> QED
    BY <1>1, <1>2, SeqMonotonic

LEMMA ChatRendered ==
    ASSUME NEW W, OpeningShape(W), mode \in Modes, Chat,
           NEW h \in Seq(Messages(W)), Extends(h)
    PROVE  RenderedAs(W, h)
<1> DEFINE own  == h # <<>> /\ h[1].role = "system"
           rest == IF own THEN Tail(h) ELSE h
           b    == Turns(rest) \o << Generation >>
<1>1. /\ Begin \in Seq(Messages(W)) /\ Len(Begin) \in Nat \ {0}
      /\ Len(h) \in Nat /\ Len(h) >= Len(Begin) /\ \A i \in 1 .. Len(Begin) : h[i] = Begin[i]
    BY BeginFacts, LenProperties DEF Extends
<1>2. h # <<>> /\ h[1] = Begin[1] /\ 1 \in 1 .. Len(Begin)
    BY <1>1, EmptySeq
<1>3. FirstHead = SystemTurn(IF own THEN << StripBlocks(h[1].text) >> ELSE <<>>)
    BY <1>2 DEF FirstHead
<1>4. rest \in Seq(Messages(W))
    BY <1>2, HeadTailProperties
<1> HIDE DEF own, rest
<1>5. Turns(rest) \in Seq(Seq(Spoken(W))) /\ << Generation >> \in Seq(Seq(Spoken(W)))
    BY <1>4, TurnsWords, GenerationWords
<1>6. b \in Seq(Seq(Spoken(W)))
    BY <1>5, ConcatProperties
<1>7. FirstHead \in Seq(Seq(Spoken(W)))
    BY HeadSpoken
<1>8. Render(h) = [prompt |-> FlattenSeq(FirstHead \o Turns(rest) \o << Generation >>),
                   prefix |-> FlattenSeq(FirstHead)]
    BY <1>3 DEF Render, RenderChat, own, rest
<1>9. (FirstHead \o Turns(rest)) \o << Generation >> = FirstHead \o b
    <2>1. \A x, y, z \in Seq(Seq(Spoken(W))) : (x \o y) \o z = x \o (y \o z)
        <3>1. PICK T : T = Seq(Spoken(W))
            OBVIOUS
        <3>2. \A x, y, z \in Seq(T) : (x \o y) \o z = x \o (y \o z)
            BY ONLY Reassociated
        <3> QED
            BY ONLY <3>1, <3>2
    <2> QED
        BY ONLY <1>5, <1>7, <2>1 DEF b
<1>10. FirstHead \o <<>> = FirstHead
    BY ONLY <1>7, ConcatEmptySeq
<1>11. /\ Render(h).prompt = FlattenSeq((FirstHead \o <<>>) \o b)
       /\ Render(h).prefix = FlattenSeq(FirstHead \o <<>>)
    <2> DEFINE all == FirstHead \o Turns(rest) \o << Generation >>
    <2>1. Render(h).prompt = FlattenSeq(all) /\ Render(h).prefix = FlattenSeq(FirstHead)
        BY <1>8
    <2>2. all = FirstHead \o b
        BY <1>9
    <2> HIDE DEF all, b
    <2> QED
        BY ONLY <1>10, <2>1, <2>2
<1>12. <<>> \in Seq(Seq(Spoken(W))) /\ <<>> \in Seq(Seq(Quiet(W)))
    OBVIOUS
<1> HIDE DEF b
<1> QED
    BY <1>6, <1>11, <1>12 DEF RenderedAs

\* The turns of the items behind the leading developer messages.
LEMMA ItemsFacts ==
    ASSUME NEW W, OpeningShape(W), mode \in Modes,
           NEW h \in Seq(Messages(W)), Extends(h)
    PROVE  LET n     == Developers(Begin)
               items == From(h, n + 1)
           IN  /\ items \in Seq(Messages(W)) /\ Len(items) = Len(h) - n
               /\ n \in 0 .. Len(Begin) - 1 /\ Len(items) \in Nat \ {0}
               /\ \A k \in 1 .. Len(items) : items[k] = h[n + k]
               /\ Traffic(h) => ~IsOpening(items)
               /\ h = Begin => \A k \in 1 .. Len(items) - 1 : Turns(items)[k] \in Seq(Quiet(W))
<1> DEFINE n == Developers(Begin)   items == From(h, n + 1)
<1>1. /\ Begin \in Seq(Messages(W)) /\ Len(Begin) \in Nat \ {0}
      /\ \A i \in 1 .. Len(Begin) : Begin[i].role \in {"system", "developer", "user"}
      /\ \A i \in 1 .. Len(Begin) - 1 : Begin[i].text \in Seq(Quiet(W))
      /\ Len(h) \in Nat /\ Len(h) >= Len(Begin) /\ \A i \in 1 .. Len(Begin) : h[i] = Begin[i]
    BY BeginFacts, LenProperties DEF Extends
<1>2. n \in 0 .. Len(Begin) - 1
    BY DeveloperFacts
<1> HIDE DEF n
<1>3. n \in Nat /\ n + 1 \in 1 .. Len(h) + 1
    BY <1>1, <1>2
<1>4. /\ items \in Seq(Messages(W)) /\ Len(items) = Len(h) - (n + 1) + 1
      /\ \A k \in 1 .. Len(h) - (n + 1) + 1 : items[k] = h[(n + 1) + k - 1]
    <2>1. PICK i \in 1 .. Len(h) + 1 : i = n + 1
        BY <1>3
    <2>2. /\ From(h, i) \in Seq(Messages(W)) /\ Len(From(h, i)) = Len(h) - i + 1
          /\ \A k \in 1 .. Len(h) - i + 1 : From(h, i)[k] = h[i + k - 1]
        BY ONLY i \in 1 .. Len(h) + 1, h \in Seq(Messages(W)), CutFacts
    <2> QED
        BY <2>1, <2>2
<1> HIDE DEF items
<1>5. /\ Len(items) = Len(h) - n /\ Len(items) \in Nat \ {0}
      /\ \A k \in 1 .. Len(items) : items[k] = h[n + k]
    <2>1. Len(h) - (n + 1) + 1 = Len(h) - n
        BY <1>1, <1>3
    <2>2. \A k \in 1 .. Len(items) : (n + 1) + k - 1 = n + k
        BY <1>3
    <2> QED
        BY <1>1, <1>2, <1>4, <2>1, <2>2
<1>6. ASSUME Traffic(h)
      PROVE  ~IsOpening(items)
    <2>1. PICK i \in Len(Begin) + 1 .. Len(h) : h[i].role \in {"call", "tool", "assistant"}
        BY <1>6 DEF Traffic
    <2>a. i - n \in 1 .. Len(items) /\ n + (i - n) = i
        BY <1>1, <1>2, <1>5
    <2>2. PICK k \in 1 .. Len(items) : k = i - n
        BY <2>a
    <2>3. items[k] = h[i]
        BY <1>5, <2>a, <2>2
    <2>4. k \in DOMAIN items
        BY <1>4, LenProperties
    <2> QED
        BY <2>1, <2>3, <2>4 DEF IsOpening
<1>7. ASSUME h = Begin, NEW k \in 1 .. Len(items) - 1
      PROVE  Turns(items)[k] \in Seq(Quiet(W))
    <2>1. k \in 1 .. Len(items) /\ n + k \in 1 .. Len(Begin) - 1 /\ n + k \in 1 .. Len(Begin)
        BY <1>1, <1>2, <1>5, <1>7
    <2>2. /\ items[k].role \in {"system", "developer", "user"}
          /\ items[k].text \in Seq(Quiet(W))
        BY <1>1, <1>5, <1>7, <2>1
    <2>3. Turn(items, k) = UserTurn(items[k].text)
        BY <2>2 DEF Turn
    <2>4. UserTurn(items[k].text) \in Seq(Quiet(W))
        BY <2>2, WordFacts, UserTurnTypes
    <2>5. Turns(items)[k] = Turn(items, k)
        BY <1>4, <2>1, TurnsWords
    <2> QED
        BY <2>3, <2>4, <2>5
<1> QED
    BY <1>2, <1>4, <1>5, <1>6, <1>7 DEF items, n

\* Dropping the last two of some leading members, others, and one more.
LEMMA AllButTwo ==
    ASSUME NEW T, NEW s \in Seq(T), NEW b \in Seq(T), Len(b) = 2, NEW w, w = s \o b
    PROVE  SubSeq(w, 1, Len(w) - 2) = s
<1>1. /\ w \in Seq(T) /\ Len(w) = Len(s) + 2 /\ Len(s) \in Nat
      /\ \A i \in 1 .. Len(s) : w[i] = s[i]
    <2>1. /\ s \o b \in Seq(T) /\ Len(s \o b) = Len(s) + Len(b) /\ Len(s) \in Nat
          /\ \A i \in 1 .. Len(s) : (s \o b)[i] = s[i]
        BY ONLY s \in Seq(T), b \in Seq(T), JoinFacts
    <2> QED
        BY <2>1
<1> DEFINE m == Len(s) + 1
<1>2. m \in 1 .. Len(w) + 1 /\ m - 1 = Len(s) /\ Len(w) - 2 = m - 1
    BY <1>1
<1>3. /\ Upto(w, m) \in Seq(T) /\ Len(Upto(w, m)) = m - 1
      /\ \A k \in 1 .. m - 1 : Upto(w, m)[k] = w[k]
    BY <1>1, <1>2, CutFacts
<1>4. Upto(w, m) = s
    BY <1>1, <1>2, <1>3, SeqEqual
<1> QED
    BY <1>2, <1>4 DEF Upto

LEMMA ResponsesRendered ==
    ASSUME NEW W, OpeningShape(W), mode \in Modes, ~Chat,
           NEW h \in Seq(Messages(W)), Extends(h)
    PROVE  RenderedAs(W, h)
<1> DEFINE n     == Developers(Begin)
           items == From(h, n + 1)
           turns == Turns(items)
           parts == FirstHead \o turns \o << Generation >>
<1>1. /\ items \in Seq(Messages(W)) /\ Len(items) = Len(h) - n
      /\ n \in 0 .. Len(Begin) - 1 /\ Len(items) \in Nat \ {0}
      /\ \A k \in 1 .. Len(items) : items[k] = h[n + k]
      /\ Traffic(h) => ~IsOpening(items)
      /\ h = Begin => \A k \in 1 .. Len(items) - 1 : Turns(items)[k] \in Seq(Quiet(W))
    BY ItemsFacts
<1>2. Developers(h) = n
    BY DeveloperFacts
<1>b. /\ Len(Begin) \in Nat \ {0} /\ \A i \in 1 .. Len(Begin) : h[i] = Begin[i]
    BY BeginFacts DEF Extends
<1>3. [i \in 1 .. n |-> StripBlocks(h[i].text)] = [i \in 1 .. n |-> StripBlocks(Begin[i].text)]
    <2>1. \A i \in 1 .. n : i \in 1 .. Len(Begin)
        BY <1>1, <1>b
    <2> HIDE DEF n
    <2> QED
        BY <1>b, <2>1
<1>4. FirstHead = SystemTurn([i \in 1 .. n |-> StripBlocks(h[i].text)])
    BY <1>3 DEF FirstHead
<1>5. Render(h) = [prompt |-> FlattenSeq(parts),
                   prefix |-> FlattenSeq(Declared(FirstHead, parts, IsOpening(items)))]
    BY <1>2, <1>4 DEF Render, RenderResponses, Developers
<1> HIDE DEF n, items
<1>6. /\ turns \in Seq(Seq(Spoken(W))) /\ Len(turns) = Len(items)
      /\ Generation \in Seq(Spoken(W)) /\ << Generation >> \in Seq(Seq(Spoken(W)))
    <2>1. << Generation >> \in Seq(Seq(Spoken(W)))
        BY GenerationWords
    <2>2. << Generation >>[1] \in Seq(Spoken(W))
        <3>1. 1 \in 1 .. Len(<< Generation >>)
            OBVIOUS
        <3> QED
            BY ONLY <2>1, <3>1, ElementOfSeq
    <2> QED
        BY <1>1, <2>1, <2>2, TurnsWords
<1>7. FirstHead \in Seq(Seq(Spoken(W)))
    BY HeadSpoken
<1>8. /\ <<>> \in Seq(Seq(Spoken(W))) /\ <<>> \in Seq(Seq(Quiet(W)))
    OBVIOUS
<1> HIDE DEF turns, parts
<1>9. CASE IsOpening(items) /\ Len(parts) > 2
    <2>1. PICK a, b \in Seq(Seq(Spoken(W))) :
            /\ Len(a) = Len(turns) - 1 /\ \A k \in 1 .. Len(turns) - 1 : a[k] = turns[k]
            /\ parts = (FirstHead \o a) \o b
            /\ SubSeq(parts, 1, Len(parts) - 2) = FirstHead \o a
        <3>1. PICK T : T = Seq(Spoken(W))
            OBVIOUS
        <3>2. PICK x \in Seq(T) : x = FirstHead
            BY <1>7, <3>1
        <3>3. PICK a, c \in Seq(T) :
                 /\ Len(a) = Len(turns) - 1 /\ \A k \in 1 .. Len(turns) - 1 : a[k] = turns[k]
                 /\ Len(c) = 1 /\ a \o c = turns
            <4>1. PICK y \in Seq(T) : y = turns
                BY <1>6, <3>1
            <4>2. Len(y) \in 1 .. Len(y) + 1 /\ Len(y) - Len(y) + 1 = 1
                BY <1>1, <1>6, <4>1
            <4>3. PICK i \in 1 .. Len(y) + 1 : i = Len(y)
                BY ONLY <4>2
            <4>4. /\ Upto(y, i) \in Seq(T) /\ Len(Upto(y, i)) = i - 1
                  /\ \A k \in 1 .. i - 1 : Upto(y, i)[k] = y[k]
                  /\ From(y, i) \in Seq(T) /\ Len(From(y, i)) = Len(y) - i + 1
                  /\ Upto(y, i) \o From(y, i) = y
                BY ONLY y \in Seq(T), i \in 1 .. Len(y) + 1, CutFacts
            <4> QED
                BY ONLY <4>1, <4>2, <4>3, <4>4
        <3>4. PICK e \in Seq(T) : e = << Generation >> /\ Len(e) = 1
            BY <1>6, <3>1
        <3>5. PICK b \in Seq(T) : b = c \o e /\ Len(b) = 2
            <4>1. c \o e \in Seq(T) /\ Len(c \o e) = Len(c) + Len(e)
                BY ONLY c \in Seq(T), e \in Seq(T), ConcatProperties
            <4>2. Len(c \o e) = 2
                BY <3>3, <3>4, <4>1
            <4> QED
                BY ONLY <4>1, <4>2
        <3>6. PICK s \in Seq(T) : s = x \o a
            <4>1. x \o a \in Seq(T)
                BY ONLY x \in Seq(T), a \in Seq(T), ConcatProperties
            <4> QED
                BY ONLY <4>1
        <3>7. (x \o a) \o c = x \o (a \o c)
            BY ONLY x \in Seq(T), a \in Seq(T), c \in Seq(T), ConcatAssociative, SMTT(60)
        <3>8. (s \o c) \o e = s \o (c \o e)
            BY ONLY s \in Seq(T), c \in Seq(T), e \in Seq(T), ConcatAssociative, SMTT(60)
        <3>9. parts = s \o b
            <4>1. parts = (x \o (a \o c)) \o e
                BY ONLY <3>2, <3>3, <3>4 DEF parts
            <4> QED
                BY ONLY <3>5, <3>6, <3>7, <3>8, <4>1
        <3>10. SubSeq(parts, 1, Len(parts) - 2) = s
            BY ONLY s \in Seq(T), b \in Seq(T), <3>5, <3>9, AllButTwo
        <3> QED
            BY ONLY <3>1, <3>2, <3>3, <3>6, <3>9, <3>10, a \in Seq(T), b \in Seq(T)
    <2>2. Declared(FirstHead, parts, IsOpening(items)) = FirstHead \o a
        BY <1>9, <2>1 DEF Declared
    <2>3. /\ Render(h).prompt = FlattenSeq((FirstHead \o a) \o b)
          /\ Render(h).prefix = FlattenSeq(FirstHead \o a)
        <3>1. /\ Render(h).prompt = FlattenSeq(parts)
              /\ Render(h).prefix = FlattenSeq(Declared(FirstHead, parts, IsOpening(items)))
            BY <1>5
        <3>2. parts = (FirstHead \o a) \o b
            BY <2>1
        <3> QED
            BY ONLY <2>2, <3>1, <3>2
    <2>4. ASSUME h = Begin
          PROVE  a \in Seq(Seq(Quiet(W)))
        <3>a. Len(turns) \in Nat \ {0}
            BY <1>1, <1>6
        <3>b. Len(turns) - 1 \in Nat
            BY ONLY <3>a
        <3>1. PICK k \in Nat : k = Len(turns) - 1
            BY ONLY <3>b
        <3>2. \A i \in 1 .. k : a[i] \in Seq(Quiet(W))
            BY <1>1, <1>6, <2>1, <2>4, <3>1 DEF turns
        <3>3. a = [i \in 1 .. k |-> a[i]]
            BY <2>1, <3>1, LenProperties
        <3>4. a \in [1 .. k -> Seq(Quiet(W))]
            BY <3>2, <3>3
        <3> QED
            BY ONLY <3>4, k \in Nat
    <2>5. ~Traffic(h)
        BY <1>1, <1>9
    <2> QED
        BY <2>1, <2>3, <2>4, <2>5 DEF RenderedAs
<1>10. CASE ~(IsOpening(items) /\ Len(parts) > 2)
    <2> DEFINE b == turns \o << Generation >>
    <2>1. b \in Seq(Seq(Spoken(W)))
        BY <1>6, ConcatProperties
    <2>2. parts = FirstHead \o b
        <3>1. PICK T : T = Seq(Spoken(W))
            OBVIOUS
        <3>2. \A x, y, z \in Seq(T) : (x \o y) \o z = x \o (y \o z)
            BY ONLY Reassociated
        <3> QED
            BY ONLY <1>6, <1>7, <3>1, <3>2 DEF parts, b
    <2>3. FirstHead \o <<>> = FirstHead
        BY ONLY <1>7, ConcatEmptySeq
    <2>4. Declared(FirstHead, parts, IsOpening(items)) = FirstHead
        BY <1>10 DEF Declared
    <2> HIDE DEF b
    <2>5. /\ Render(h).prompt = FlattenSeq((FirstHead \o <<>>) \o b)
          /\ Render(h).prefix = FlattenSeq(FirstHead \o <<>>)
        <3>1. /\ Render(h).prompt = FlattenSeq(parts)
              /\ Render(h).prefix = FlattenSeq(Declared(FirstHead, parts, IsOpening(items)))
            BY <1>5
        <3> QED
            BY ONLY <2>2, <2>3, <2>4, <3>1
    <2> QED
        BY <1>8, <2>1, <2>5 DEF RenderedAs
<1> QED
    BY <1>9, <1>10

\* What the rest needs of a rendered request.
LEMMA RenderFacts ==
    ASSUME NEW W, OpeningShape(W), mode \in Modes,
           NEW h \in Seq(Messages(W)), Extends(h)
    PROVE  /\ Render(h).prompt \in Seq(Spoken(W)) /\ Render(h).prefix \in Seq(Spoken(W))
           /\ IsPrefix(Render(h).prefix, Render(h).prompt)
           /\ IsPrefix(FlattenSeq(FirstHead), Render(h).prefix)
           /\ Traffic(h) => Render(h).prefix = FlattenSeq(FirstHead)
           /\ h = Begin \/ Traffic(h) => Render(h).prefix \in Seq(Quiet(W))
<1>1. PICK a \in Seq(Seq(Spoken(W))) :
        \E b \in Seq(Seq(Spoken(W))) :
            /\ Render(h).prompt = FlattenSeq((FirstHead \o a) \o b)
            /\ Render(h).prefix = FlattenSeq(FirstHead \o a)
            /\ Traffic(h) => a = <<>>
            /\ h = Begin => a \in Seq(Seq(Quiet(W)))
    BY ChatRendered, ResponsesRendered DEF RenderedAs
<1>2. PICK b \in Seq(Seq(Spoken(W))) :
            /\ Render(h).prompt = FlattenSeq((FirstHead \o a) \o b)
            /\ Render(h).prefix = FlattenSeq(FirstHead \o a)
            /\ Traffic(h) => a = <<>>
            /\ h = Begin => a \in Seq(Seq(Quiet(W)))
    BY <1>1
<1>3. FirstHead \in Seq(Seq(Spoken(W))) /\ FirstHead \in Seq(Seq(Quiet(W)))
    BY HeadSpoken, HeadQuiet
<1>4. FirstHead \o a \in Seq(Seq(Spoken(W)))
    BY <1>3, ConcatProperties
<1>5. (FirstHead \o a) \o b \in Seq(Seq(Spoken(W)))
    BY <1>4, ConcatProperties
<1>6. Render(h).prompt \in Seq(Spoken(W)) /\ Render(h).prefix \in Seq(Spoken(W))
    BY <1>2, <1>4, <1>5, FlatTypes
<1>7. IsPrefix(Render(h).prefix, Render(h).prompt)
    BY <1>2, <1>4, FlatLeads
<1>8. IsPrefix(FlattenSeq(FirstHead), Render(h).prefix)
    BY <1>2, <1>3, FlatLeads
<1>9. FirstHead \o <<>> = FirstHead
    BY ONLY <1>3, ConcatEmptySeq
<1>10. Traffic(h) => Render(h).prefix = FlattenSeq(FirstHead)
    BY <1>2, <1>9
<1>11. ASSUME h = Begin \/ Traffic(h)
       PROVE  Render(h).prefix \in Seq(Quiet(W))
    <2>1. a \in Seq(Seq(Quiet(W)))
        BY <1>2, <1>11
    <2>2. FirstHead \o a \in Seq(Seq(Quiet(W)))
        BY <1>3, <2>1, ConcatProperties
    <2> QED
        BY <1>2, <2>2, FlatTypes
<1> QED
    BY <1>6, <1>7, <1>8, <1>10, <1>11

-----------------------------------------------------------------------------
(* The client's history and the declared prefix.                           *)

Accounted == history = Begin \/ LostTurn(history) \/ Traffic(history)

\* What the history has grown from, and how the last prefix began.
SessionInv(W) ==
    /\ TypeOK
    /\ history \in Seq(Messages(W)) /\ Extends(history) /\ Accounted
    /\ prefix \in Seq(Spoken(W))
    /\ turn >= 1 => /\ IsPrefix(FlattenSeq(FirstHead), prefix)
                    /\ \A h \in Seq(Messages(W)) : h = history /\ h = Begin => prefix = Render(h).prefix
    /\ PrefixSessionFree

LEMMA LeadsItself ==
    ASSUME NEW T, NEW s \in Seq(T)
    PROVE  IsPrefix(s, s)
<1>1. Len(s) \in Nat
    BY LenProperties
<1> QED
    BY <1>1 DEF IsPrefix

\* What the client adds to a reply, and what the parts of its turn are.
FollowUp == IF got.calls = <<>> THEN << Item("user", <<"ask">>) >>
            ELSE [i \in DOMAIN got.calls |-> Item("tool", <<"result">>)]
Parts(W) ==
    /\ FollowUp \in Seq(Messages(W)) /\ Len(FollowUp) > 0
    /\ \A i \in 1 .. Len(FollowUp) : FollowUp[i].role \in {"user", "tool"}
    /\ got.calls # <<>> => FollowUp[1].role = "tool"
    /\ got.calls = <<>> => Len(FollowUp) = 1 /\ FollowUp[1].text = <<"ask">>
    /\ Items \in Seq(Messages(W))
    /\ Items # <<>> => \/ got.calls # <<>>
                       \/ Len(Items) > 0 /\ Items[1].role = "assistant"

LEMMA AnswerParts ==
    ASSUME NEW W, TypeOK
    PROVE  Parts(W)
<1> DEFINE T == Spoken(W)   M == Messages(W)
           leading == ParseCalls(answer, Table).leading
           calls   == [i \in DOMAIN got.calls |-> Item("call", <<got.calls[i]>>)]
           tools   == [i \in DOMAIN got.calls |-> Item("tool", <<"result">>)]
           next    == IF got.calls = <<>> THEN << Item("user", <<"ask">>) >> ELSE tools
           reply   == [Item("assistant", got.content) EXCEPT !.reason = got.reason,
                                                             !.calls = got.calls]
<1>2. /\ got.content \in Seq(Pieces) /\ got.reason \in Seq(Pieces)
      /\ got.calls \in Seq({"f", "n"}) /\ answer \in Seq(Pieces)
    BY TypeFacts
<1>3. Len(got.calls) \in Nat /\ DOMAIN got.calls = 1 .. Len(got.calls)
      /\ \A i \in 1 .. Len(got.calls) : got.calls[i] \in {"f", "n"}
    BY <1>2, LenProperties, ElementOfSeq
<1>w. Pieces \subseteq T /\ "ask" \in T /\ "result" \in T
    BY WordFacts
<1>4. \A s \in Seq(Pieces) : s \in Seq(T)
    BY <1>w, SeqMonotonic
<1>5. <<"ask">> \in Seq(T) /\ <<"result">> \in Seq(T) /\ \A f \in {"f", "n"} : <<f>> \in Seq(T)
    BY <1>w DEF Pieces
<1> HIDE DEF T
<1>6. \A role \in Roles : \A s \in Seq(T) : s # <<>> \/ role # "call" => Item(role, s) \in M
    BY DEF Item, Messages, T, Roles
<1>7. leading \in Seq(Pieces)
    BY <1>2, ParseTypes
<1>8. reply \in M /\ reply.role = "assistant"
    BY <1>2, <1>4 DEF Item, Messages, T, Roles
<1>9. Item("assistant", leading) \in M /\ Item("assistant", leading).role = "assistant"
    BY <1>4, <1>6, <1>7 DEF Roles, Item
<1>10. Item("user", <<"ask">>) \in M /\ Item("user", <<"ask">>).text = <<"ask">>
    BY <1>5, <1>6 DEF Roles, Item
<1>11. \A i \in 1 .. Len(got.calls) :
          /\ Item("call", <<got.calls[i]>>) \in M /\ Item("tool", <<"result">>) \in M
    BY <1>3, <1>5, <1>6 DEF Roles
<1> HIDE DEF M, leading, reply
<1>12. calls \in Seq(M) /\ tools \in Seq(M) /\ Len(calls) = Len(got.calls) /\ Len(tools) = Len(got.calls)
    <2>1. PICK n \in Nat : n = Len(got.calls)
        BY <1>3
    <2>2. calls = [i \in 1 .. n |-> Item("call", <<got.calls[i]>>)]
          /\ tools = [i \in 1 .. n |-> Item("tool", <<"result">>)]
        BY <1>3, <2>1
    <2> HIDE DEF calls, tools
    <2>3. calls \in [1 .. n -> M] /\ tools \in [1 .. n -> M]
        BY <1>11, <2>1, <2>2
    <2>4. calls \in Seq(M) /\ tools \in Seq(M) /\ Len(calls) = n /\ Len(tools) = n
        BY ONLY <2>3, n \in Nat
    <2> QED
        BY <2>1, <2>4
<1>13. \A i \in 1 .. Len(tools) : tools[i].role = "tool"
    BY <1>3, <1>12 DEF Item
<1> HIDE DEF calls, tools
<1>14. /\ next \in Seq(M) /\ Len(next) > 0
       /\ \A i \in 1 .. Len(next) : next[i].role \in {"user", "tool"}
       /\ got.calls # <<>> => next[1].role = "tool"
       /\ got.calls = <<>> => Len(next) = 1 /\ next[1].text = <<"ask">>
    <2>1. CASE got.calls = <<>>
        <3>1. next = << Item("user", <<"ask">>) >>
            BY <2>1
        <3> HIDE DEF next
        <3>2. Item("user", <<"ask">>).role = "user"
            BY DEF Item
        <3> QED
            BY <1>10, <2>1, <3>1, <3>2
    <2>2. CASE got.calls # <<>>
        <3>1. next = tools
            BY <2>2
        <3>2. Len(got.calls) > 0
            BY <1>2, <1>3, <2>2, EmptySeq
        <3>3. 1 \in 1 .. Len(got.calls)
            BY <1>3, <3>2
        <3> HIDE DEF next
        <3> QED
            BY <1>12, <1>13, <2>2, <3>1, <3>2, <3>3
    <2> QED
        BY <2>1, <2>2
<1> HIDE DEF next
<1>15. /\ Items \in Seq(M)
       /\ Items # <<>> => \/ got.calls # <<>>
                          \/ Len(Items) > 0 /\ Items[1].role = "assistant"
    <2>1. CASE Chat
        <3>1. Items = << reply >>
            BY <2>1 DEF Items, reply
        <3> QED
            BY ONLY <1>8, <3>1
    <2>2. CASE ~Chat
        <3>1. Items = Only(leading # <<>>, << Item("assistant", leading) >>) \o calls
            BY <2>2 DEF Items, leading, calls
        <3>2. << Item("assistant", leading) >> \in Seq(M) /\ <<>> \in Seq(M)
            BY <1>9
        <3>3. CASE leading # <<>>
            <4>1. PICK p \in Seq(M) : p = << Item("assistant", leading) >>
                BY <3>2
            <4>2. Items = p \o calls /\ Len(p) = 1 /\ p[1].role = "assistant"
                BY <1>9, <3>1, <3>3, <4>1 DEF Only
            <4>3. PICK q \in Seq(M) : q = calls
                BY <1>12
            <4>4. /\ p \o q \in Seq(M) /\ Len(p \o q) = Len(p) + Len(q)
                  /\ \A i \in 1 .. Len(p) : (p \o q)[i] = p[i]
                BY ONLY p \in Seq(M), q \in Seq(M), JoinFacts, ZenonT(40)
            <4>5. 1 \in 1 .. Len(p) /\ Len(q) \in Nat
                BY <1>3, <1>12, <4>2, <4>3
            <4> QED
                BY <4>2, <4>3, <4>4, <4>5
        <3>4. CASE leading = <<>>
            <4>1. Items = <<>> \o calls
                BY <3>1, <3>4 DEF Only
            <4>2. Items = calls
                BY ONLY <1>12, <4>1, ConcatEmptySeq
            <4>3. calls # <<>> => got.calls # <<>>
                BY <1>2, <1>3, <1>12, EmptySeq
            <4> QED
                BY ONLY <1>12, <4>2, <4>3
        <3> QED
            BY <3>3, <3>4
    <2> QED
        BY <2>1, <2>2
<1>16. next = FollowUp
    BY DEF next, tools, FollowUp
<1> QED
    BY ONLY <1>14, <1>15, <1>16 DEF Parts, M

\* The items of one answer and what follows them.
LEMMA AnswerItems ==
    ASSUME NEW W, TypeOK, Continue, NEW h \in Seq(Messages(W)), h = history
    PROVE  \E more \in Seq(Messages(W)) :
               /\ history' = h \o more /\ Len(more) > 0
               /\ \/ \E k \in 1 .. Len(more) : more[k].role \in {"call", "tool", "assistant"}
                  \/ Len(more) = 1 /\ more[1].text = <<"ask">>
<1> DEFINE M == Messages(W)
<1>1. history' = history \o Items \o FollowUp
    BY DEF Continue, FollowUp
<1> HIDE DEF M
<1>14. /\ FollowUp \in Seq(M) /\ Len(FollowUp) > 0
       /\ got.calls # <<>> => FollowUp[1].role = "tool"
       /\ got.calls = <<>> => Len(FollowUp) = 1 /\ FollowUp[1].text = <<"ask">>
    BY AnswerParts DEF Parts, M
<1>15. /\ Items \in Seq(M)
       /\ Items # <<>> => \/ got.calls # <<>>
                          \/ Len(Items) > 0 /\ Items[1].role = "assistant"
    BY AnswerParts DEF Parts, M
<1>16. PICK a \in Seq(M) : a = Items
    BY <1>15
<1>17. PICK b \in Seq(M) : b = FollowUp
    BY <1>14
<1>18. /\ a \o b \in Seq(M) /\ Len(a) \in Nat /\ Len(b) \in Nat
       /\ Len(a \o b) = Len(a) + Len(b)
       /\ \A i \in 1 .. Len(a) : (a \o b)[i] = a[i]
       /\ \A i \in 1 .. Len(b) : (a \o b)[Len(a) + i] = b[i]
    BY ONLY a \in Seq(M), b \in Seq(M), JoinFacts
<1>19. PICK more \in Seq(M) : more = a \o b
    BY <1>18
<1>20. Len(more) > 0
    BY <1>14, <1>17, <1>18, <1>19
<1>24. history' = h \o (a \o b)
    <2>1. h \in Seq(M)
        BY DEF M
    <2>2. PICK x \in Seq(M) : x = h
        BY <2>1
    <2>3. history' = (x \o a) \o b
        BY ONLY <1>1, <1>16, <1>17, <2>2, h = history
    <2>4. (x \o a) \o b = x \o (a \o b)
        BY ONLY x \in Seq(M), a \in Seq(M), b \in Seq(M), Reassociated
    <2> QED
        BY ONLY <2>2, <2>3, <2>4
<1>21. CASE got.calls # <<>>
    <2>1. 1 \in 1 .. Len(b) /\ Len(a) + 1 \in 1 .. Len(more) /\ b[1].role = "tool"
        BY <1>14, <1>17, <1>18, <1>19, <1>21
    <2>2. more[Len(a) + 1].role = "tool"
        BY <1>18, <1>19, <2>1
    <2>3. \E k \in 1 .. Len(more) : more[k].role \in {"call", "tool", "assistant"}
        BY <2>1, <2>2
    <2> QED
        BY <1>19, <1>20, <2>3, <1>24 DEF M
<1>22. CASE got.calls = <<>> /\ a # <<>>
    <2>1. Len(a) > 0 /\ a[1].role = "assistant"
        BY <1>15, <1>16, <1>22
    <2>2. 1 \in 1 .. Len(a) /\ 1 \in 1 .. Len(more)
        BY <1>18, <1>19, <2>1
    <2>3. \E k \in 1 .. Len(more) : more[k].role \in {"call", "tool", "assistant"}
        BY <1>18, <1>19, <2>1, <2>2
    <2> QED
        BY <1>19, <1>20, <2>3, <1>24 DEF M
<1>23. CASE got.calls = <<>> /\ a = <<>>
    <2>1. more = b
        <3>1. <<>> \o b = b
            BY ONLY b \in Seq(M), ConcatEmptySeq
        <3> QED
            BY <1>19, <1>23, <3>1
    <2>2. Len(more) = 1 /\ more[1].text = <<"ask">>
        BY <1>14, <1>17, <1>23, <2>1
    <2> QED
        BY <1>19, <1>20, <2>2, <1>24 DEF M
<1> QED
    BY <1>21, <1>22, <1>23

LEMMA RenderKept ==
    ASSUME mode' = mode, NEW h
    PROVE  Render(h)' = Render(h)
<1>1. Chat' = Chat /\ Generation' = Generation
    BY DEF Chat, Generation, ThinkOpen, EmptyThink
<1>2. ASSUME NEW extra
      PROVE  SystemTurn(extra)' = SystemTurn(extra)
    BY DEF SystemTurn
<1>3. ASSUME NEW s, NEW i
      PROVE  Turn(s, i)' = Turn(s, i)
    BY <1>1 DEF Turn
<1>4. ASSUME NEW s
      PROVE  Turns(s)' = Turns(s)
    BY <1>3 DEF Turns
<1>5. RenderChat(h)' = RenderChat(h)
    BY <1>1, <1>2, <1>4 DEF RenderChat
<1>6. RenderResponses(h)' = RenderResponses(h)
    BY <1>1, <1>2, <1>4 DEF RenderResponses
<1> QED
    BY <1>1, <1>5, <1>6 DEF Render

LEMMA HeadKept ==
    ASSUME mode' = mode
    PROVE  Begin' = Begin /\ FirstHead' = FirstHead
<1>1. Chat' = Chat /\ Begin' = Begin
    BY DEF Chat, Begin
<1>2. FirstHead' = FirstHead
    BY <1>1 DEF FirstHead, SystemTurn, Chat, Begin, Developers
<1> QED
    BY <1>1, <1>2

\* What a history has once, it keeps as it grows; and an answer leaves it
\* with traffic, or with a second question behind the first.
LEMMA HistoryGrows ==
    ASSUME NEW W, OpeningShape(W), mode \in Modes,
           NEW h \in Seq(Messages(W)), Extends(h), h = Begin \/ LostTurn(h) \/ Traffic(h),
           NEW more \in Seq(Messages(W)), Len(more) > 0,
           \/ \E k \in 1 .. Len(more) : more[k].role \in {"call", "tool", "assistant"}
           \/ Len(more) = 1 /\ more[1].text = <<"ask">>,
           NEW g, g = h \o more
    PROVE  /\ g \in Seq(Messages(W)) /\ Extends(g) /\ g # Begin
           /\ LostTurn(g) \/ Traffic(g)
<1>1. /\ Len(Begin) \in Nat \ {0} /\ Begin[Len(Begin)].text = <<"ask">>
    BY BeginFacts DEF Item
<1>2. /\ Len(h) \in Nat /\ Len(h) >= Len(Begin)
      /\ \A i \in 1 .. Len(Begin) : h[i] = Begin[i]
    BY LenProperties DEF Extends
<1>3. /\ g \in Seq(Messages(W)) /\ Len(g) = Len(h) + Len(more) /\ Len(more) \in Nat
      /\ \A i \in 1 .. Len(h) : g[i] = h[i]
      /\ \A i \in 1 .. Len(more) : g[Len(h) + i] = more[i]
    <2>1. PICK M : M = Messages(W)
        OBVIOUS
    <2>2. h \in Seq(M) /\ more \in Seq(M)
        BY <2>1
    <2>3. /\ h \o more \in Seq(M) /\ Len(h \o more) = Len(h) + Len(more) /\ Len(more) \in Nat
          /\ \A i \in 1 .. Len(h) : (h \o more)[i] = h[i]
          /\ \A i \in 1 .. Len(more) : (h \o more)[Len(h) + i] = more[i]
        BY ONLY <2>2, JoinFacts
    <2> QED
        BY <2>1, <2>3
<1>4. \A i \in 1 .. Len(Begin) : i \in 1 .. Len(h) /\ g[i] = Begin[i]
    BY <1>1, <1>2, <1>3
<1>5. Extends(g)
    BY <1>1, <1>2, <1>3, <1>4 DEF Extends
<1>6. g # Begin
    BY <1>1, <1>2, <1>3
<1>7. LostTurn(h) => LostTurn(g)
    <2> SUFFICES ASSUME NEW i \in 2 .. Len(h), h[i - 1].text = <<"ask">>, h[i].text = <<"ask">>
                 PROVE  LostTurn(g)
        BY DEF LostTurn
    <2>1. i - 1 \in 1 .. Len(h) /\ i \in 1 .. Len(h) /\ i \in 2 .. Len(g)
        BY <1>2, <1>3
    <2>2. g[i - 1] = h[i - 1] /\ g[i] = h[i]
        BY <1>3, <2>1
    <2> QED
        BY <2>1, <2>2 DEF LostTurn
<1>8. Traffic(h) => Traffic(g)
    <2> SUFFICES ASSUME NEW i \in Len(Begin) + 1 .. Len(h),
                        h[i].role \in {"call", "tool", "assistant"}
                 PROVE  Traffic(g)
        BY DEF Traffic
    <2>1. i \in 1 .. Len(h) /\ i \in Len(Begin) + 1 .. Len(g)
        BY <1>1, <1>2, <1>3
    <2> QED
        BY <1>3, <2>1 DEF Traffic
<1>9. ASSUME NEW k \in 1 .. Len(more), more[k].role \in {"call", "tool", "assistant"}
      PROVE  Traffic(g)
    <2>1. Len(h) + k \in Len(Begin) + 1 .. Len(g)
        BY <1>1, <1>2, <1>3
    <2>2. g[Len(h) + k] = more[k]
        BY <1>3
    <2> QED
        BY <1>9, <2>1, <2>2 DEF Traffic
<1>10. ASSUME h = Begin, Len(more) = 1, more[1].text = <<"ask">>
       PROVE  LostTurn(g)
    <2>1. Len(h) + 1 \in 2 .. Len(g) /\ Len(h) \in 1 .. Len(h) /\ 1 \in 1 .. Len(more)
          /\ Len(h) + 1 - 1 = Len(h)
        BY <1>1, <1>2, <1>3, <1>10
    <2>2. g[Len(h)].text = <<"ask">>
        BY <1>1, <1>3, <1>10, <2>1
    <2>3. g[Len(h) + 1].text = <<"ask">>
        BY <1>3, <1>10, <2>1
    <2>4. PICK i \in 2 .. Len(g) : i = Len(h) + 1
        BY <2>1
    <2>5. g[i - 1].text = <<"ask">> /\ g[i].text = <<"ask">>
        BY <2>1, <2>2, <2>3, <2>4
    <2> QED
        BY <2>5 DEF LostTurn
<1> QED
    BY <1>3, <1>5, <1>6, <1>7, <1>8, <1>9, <1>10

\* Before an answer is lost, what is declared says nothing of the session.
LEMMA QuietPrefix ==
    ASSUME NEW W, OpeningShape(W), NEW p \in Seq(Quiet(W))
    PROVE  {"ask", "assistant", "response"} \cap ToSet(p) = {}
<1>1. {"ask", "assistant", "response"} \cap Quiet(W) = {}
    BY WordFacts DEF OpeningShape
<1>2. \A i \in 1 .. Len(p) : p[i] \in Quiet(W)
    BY ElementOfSeq
<1>3. DOMAIN p = 1 .. Len(p)
    BY LenProperties
<1> QED
    BY <1>1, <1>2, <1>3 DEF ToSet

LEMMA SessionInit ==
    ASSUME NEW W, OpeningShape(W)
    PROVE  Init => SessionInv(W)
<1> SUFFICES ASSUME Init
             PROVE  SessionInv(W)
    OBVIOUS
<1>1. TypeOK
    BY TypeInit
<1>2. mode \in Modes /\ history = Begin /\ phase = "client" /\ turn = 0 /\ prefix = <<>>
    BY DEF Init, Begin
<1>3. Begin \in Seq(Messages(W)) /\ Len(Begin) \in Nat \ {0}
    BY <1>2, BeginFacts
<1>4. history \in Seq(Messages(W)) /\ Extends(history)
    BY <1>2, <1>3 DEF Extends
<1>5. prefix \in Seq(Spoken(W))
    <2>1. <<>> \in Seq(Spoken(W))
        OBVIOUS
    <2> QED
        BY <1>2, <2>1
<1> QED
    BY <1>1, <1>2, <1>4, <1>5 DEF SessionInv, Accounted, PrefixSessionFree

\* What the invariant says of the history and the prefix carries over when
\* both stay, or the history grows.
LEMMA SessionKept ==
    ASSUME NEW W, OpeningShape(W), SessionInv(W), mode' = mode, TypeOK', PrefixSessionFree',
           NEW g \in Seq(Messages(W)), history' = g, Extends(g),
           g = Begin \/ LostTurn(g) \/ Traffic(g),
           prefix' \in Seq(Spoken(W)),
           turn' >= 1 => /\ IsPrefix(FlattenSeq(FirstHead), prefix')
                         /\ g = Begin => prefix' = Render(g).prefix
    PROVE  SessionInv(W)'
<1>1. Begin' = Begin /\ FirstHead' = FirstHead
    BY HeadKept
<1>2. Extends(history)'
    BY <1>1 DEF Extends
<1>3. Accounted'
    BY <1>1 DEF Accounted, LostTurn, Traffic
<1>4. (history \in Seq(Messages(W)))'
    OBVIOUS
<1>5. (turn >= 1 => /\ IsPrefix(FlattenSeq(FirstHead), prefix)
                    /\ \A h \in Seq(Messages(W)) : h = history /\ h = Begin => prefix = Render(h).prefix)'
    <2>1. ASSUME turn' >= 1
          PROVE  (IsPrefix(FlattenSeq(FirstHead), prefix))'
        BY <1>1, <2>1
    <2>2. ASSUME turn' >= 1, NEW h \in Seq(Messages(W)), h = history', h = Begin'
          PROVE  prefix' = (Render(h).prefix)'
        BY <1>1, <2>2, RenderKept
    <2> QED
        BY <2>1, <2>2
<1> QED
    BY <1>2, <1>3, <1>4, <1>5 DEF SessionInv

\* What a request declares.
LEMMA AskedPrefix ==
    ASSUME NEW W, OpeningShape(W), SessionInv(W), Ask
    PROVE  /\ mode' = mode /\ history' = history /\ turn' >= 1
           /\ prefix' = Render(history).prefix /\ prefix' \in Seq(Spoken(W))
           /\ IsPrefix(FlattenSeq(FirstHead), prefix')
           /\ Traffic(history) => prefix' = FlattenSeq(FirstHead)
           /\ PrefixSessionFree'
<1>1. /\ TypeOK /\ mode \in Modes /\ turn \in Nat
      /\ history \in Seq(Messages(W)) /\ Extends(history) /\ Accounted
    BY TurnAssumption DEF SessionInv, TypeOK
<1>2. /\ mode' = mode /\ history' = history /\ turn' = turn + 1
      /\ prompt' = Render(history).prompt /\ prefix' = Render(history).prefix
    BY DEF Ask
<1>3. PICK h \in Seq(Messages(W)) : h = history
    BY <1>1
<1>4. Extends(h)
    BY <1>1, <1>3
<1>5. /\ Render(h).prefix \in Seq(Spoken(W))
      /\ IsPrefix(Render(h).prefix, Render(h).prompt)
      /\ IsPrefix(FlattenSeq(FirstHead), Render(h).prefix)
      /\ Traffic(h) => Render(h).prefix = FlattenSeq(FirstHead)
      /\ h = Begin \/ Traffic(h) => Render(h).prefix \in Seq(Quiet(W))
    BY <1>1, <1>4, RenderFacts
<1>6. PICK p : p = prefix'
    OBVIOUS
<1>7. p = Render(h).prefix
    BY <1>2, <1>3, <1>6
<1>8. ~LostTurn(history) => {"ask", "assistant", "response"} \cap ToSet(p) = {}
    <2> SUFFICES ASSUME ~LostTurn(history)
                 PROVE  {"ask", "assistant", "response"} \cap ToSet(p) = {}
        OBVIOUS
    <2>1. h = Begin \/ Traffic(h)
        BY <1>1, <1>3 DEF Accounted
    <2>2. p \in Seq(Quiet(W))
        BY <1>5, <1>7, <2>1
    <2> QED
        BY <2>2, QuietPrefix
<1>9. PrefixSessionFree'
    <2>1. ~LostTurn(history') => ~LostTurn(history)
        BY <1>2
    <2>2. IsPrefix(prefix', prompt')
        BY <1>2, <1>3, <1>5
    <2>3. ~LostTurn(history)' => {"ask", "assistant", "response"} \cap ToSet(prefix') = {}
        BY <1>2, <1>6, <1>8 DEF LostTurn
    <2> QED
        BY <2>2, <2>3 DEF PrefixSessionFree
<1> QED
    BY <1>1, <1>2, <1>3, <1>5, <1>9

LEMMA SessionStep ==
    ASSUME NEW W, OpeningShape(W), SessionInv(W), [Next]_vars
    PROVE  SessionInv(W)'
<1>1. /\ TypeOK /\ mode \in Modes /\ history \in Seq(Messages(W)) /\ Extends(history) /\ Accounted
      /\ prefix \in Seq(Spoken(W)) /\ PrefixSessionFree
      /\ turn >= 1 => /\ IsPrefix(FlattenSeq(FirstHead), prefix)
                      /\ \A h \in Seq(Messages(W)) :
                            h = history /\ h = Begin => prefix = Render(h).prefix
    BY DEF SessionInv, TypeOK
<1>2. TypeOK'
    BY <1>1, TypeStep
<1>3. PICK h \in Seq(Messages(W)) : h = history
    BY <1>1
<1>4. Extends(h) /\ (h = Begin \/ LostTurn(h) \/ Traffic(h))
    BY <1>1, <1>3 DEF Accounted
<1>5. CASE Ask
    <2>1. /\ mode' = mode /\ history' = history /\ turn' >= 1
          /\ prefix' = Render(history).prefix /\ prefix' \in Seq(Spoken(W))
          /\ IsPrefix(FlattenSeq(FirstHead), prefix') /\ PrefixSessionFree'
        BY <1>5, AskedPrefix
    <2>2. history' = h /\ prefix' = Render(h).prefix
        BY <1>3, <2>1
    <2> QED
        BY <1>2, <1>4, <2>1, <2>2, SessionKept
<1>6. CASE Continue
    <2>1. PICK more \in Seq(Messages(W)) :
               /\ history' = h \o more /\ Len(more) > 0
               /\ \/ \E k \in 1 .. Len(more) : more[k].role \in {"call", "tool", "assistant"}
                  \/ Len(more) = 1 /\ more[1].text = <<"ask">>
        BY <1>1, <1>3, <1>6, AnswerItems
    <2>2. PICK g : g = h \o more
        OBVIOUS
    <2>3. /\ g \in Seq(Messages(W)) /\ Extends(g) /\ g # Begin
          /\ LostTurn(g) \/ Traffic(g)
        BY <1>1, <1>4, <2>1, <2>2, HistoryGrows
    <2>4. /\ mode' = mode /\ history' = g /\ prefix' = prefix /\ turn' = turn
          /\ phase' = "client"
        BY <1>3, <1>6, <2>1, <2>2 DEF Continue
    <2>5. PrefixSessionFree'
        BY <2>4 DEF PrefixSessionFree
    <2>6. /\ prefix' \in Seq(Spoken(W))
          /\ turn' >= 1 => IsPrefix(FlattenSeq(FirstHead), prefix')
        BY <1>1, <2>4
    <2> QED
        BY <1>2, <2>3, <2>4, <2>5, <2>6, SessionKept
<1>7. ASSUME /\ mode' = mode /\ history' = history /\ prefix' = prefix /\ turn' = turn
             /\ prompt' = prompt
             /\ phase' = "engine" => phase = "engine"
      PROVE  SessionInv(W)'
    <2>1. PrefixSessionFree'
        BY <1>1, <1>7 DEF PrefixSessionFree, LostTurn
    <2>2. history' = h /\ prefix' \in Seq(Spoken(W))
        BY <1>1, <1>3, <1>7
    <2>3. turn' >= 1 => /\ IsPrefix(FlattenSeq(FirstHead), prefix')
                        /\ h = Begin => prefix' = Render(h).prefix
        BY <1>1, <1>3, <1>7
    <2> QED
        BY <1>2, <1>4, <1>7, <2>1, <2>2, <2>3, SessionKept
<1>8. CASE FinishStream
    BY <1>7, <1>8 DEF FinishStream
<1>9. CASE AnswerPlain
    BY <1>7, <1>9 DEF AnswerPlain
<1>10. CASE Abort
    BY <1>7, <1>10 DEF Abort
<1>11. CASE \E n \in 1 .. Len(text) : Deliver(n)
    <2>1. PICK n \in 1 .. Len(text) : Deliver(n)
        BY <1>11
    <2>2. UNCHANGED <<session, phase>>
        BY <2>1 DEF Deliver
    <2> QED
        BY <1>7, <2>2 DEF session
<1>12. CASE UNCHANGED vars
    BY <1>7, <1>12 DEF vars, session
<1> QED
    BY <1>5, <1>6, <1>8, <1>9, <1>10, <1>11, <1>12 DEF Next

\* Every request of a session declares a prefix that leads its prompt and
\* says nothing of the conversation itself, as long as no answer was lost.
THEOREM PrefixesSessionFree ==
    ASSUME NEW W, OpeningShape(W)
    PROVE  Spec => []PrefixSessionFree
<1>1. Init => SessionInv(W)
    BY SessionInit
<1>2. SessionInv(W) /\ [Next]_vars => SessionInv(W)'
    BY SessionStep
<1>3. SessionInv(W) => PrefixSessionFree
    BY DEF SessionInv
<1> QED
    BY <1>1, <1>2, <1>3, PTL DEF Spec

LEMMA PrefixStep ==
    ASSUME NEW W, OpeningShape(W), SessionInv(W), [Next]_vars,
           turn >= 1, ~LostTurn(history)
    PROVE  IsPrefix(prefix', prefix)
<1>1. /\ history \in Seq(Messages(W)) /\ prefix \in Seq(Spoken(W)) /\ Accounted
      /\ IsPrefix(FlattenSeq(FirstHead), prefix)
      /\ \A h \in Seq(Messages(W)) :
            h = history /\ h = Begin => prefix = Render(h).prefix
    BY DEF SessionInv
<1>2. CASE prefix' = prefix
    <2>1. IsPrefix(prefix, prefix)
        BY <1>1, LeadsItself
    <2> QED
        BY <1>2, <2>1
<1>3. CASE Ask
    <2>1. /\ prefix' = Render(history).prefix
          /\ Traffic(history) => prefix' = FlattenSeq(FirstHead)
        BY <1>3, AskedPrefix
    <2>2. CASE history = Begin
        <3>1. prefix' = prefix
            BY <1>1, <2>1, <2>2
        <3> QED
            BY <1>2, <3>1
    <2>3. CASE Traffic(history)
        BY <1>1, <2>1, <2>3
    <2> QED
        BY <1>1, <2>2, <2>3 DEF Accounted
<1>4. CASE ~Ask
    <2>1. prefix' = prefix
        BY <1>4 DEF Next, FinishStream, AnswerPlain, Abort, Continue, Deliver, vars, session
    <2> QED
        BY <1>2, <2>1
<1> QED
    BY <1>3, <1>4

\* A later request of the session declares the prefix an earlier one did, or
\* the beginning of it, and so finds the checkpoint that one wrote.
THEOREM PrefixesStable ==
    ASSUME NEW W, OpeningShape(W)
    PROVE  Spec => PrefixStable
<1>1. Init => SessionInv(W)
    BY SessionInit
<1>2. SessionInv(W) /\ [Next]_vars => SessionInv(W)'
    BY SessionStep
<1>3. SessionInv(W) /\ [Next]_vars =>
          [turn >= 1 /\ ~LostTurn(history) => IsPrefix(prefix', prefix)]_vars
    BY PrefixStep
<1> QED
    BY <1>1, <1>2, <1>3, PTL DEF Spec, PrefixStable

=============================================================================
