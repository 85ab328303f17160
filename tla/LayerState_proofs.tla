-------------------------- MODULE LayerState_proofs --------------------------
(***************************************************************************)
(* Facts about the operators of LayerState, for every set of tokens and    *)
(* every capacity.                                                         *)
(***************************************************************************)
EXTENDS LayerState, SequenceTheorems, TLAPS

\* Token sequences are contents, and so are the special values.
LEMMA ContentFacts ==
    /\ Seq(Token) \subseteq Content
    /\ Zeroed \in Seq(Token)
    /\ Zeroed \in Content
    /\ Garbage \in Content
<1>1. Seq(Token) \subseteq Content
    BY SeqMonotonic DEF Content
<1>2. Zeroed \in Seq(Token)
    BY EmptySeq DEF Zeroed
<1>3. Garbage \in Content
    BY DEF Garbage, Content
<1> QED
    BY <1>1, <1>2, <1>3

\* The first n elements of a sequence.
LEMMA FirstTokensFacts ==
    ASSUME NEW S, NEW s \in Seq(S), NEW n \in 0 .. Len(s)
    PROVE  /\ FirstTokens(s, n) \in Seq(S)
           /\ Len(FirstTokens(s, n)) = n
           /\ \A i \in 1 .. n : FirstTokens(s, n)[i] = s[i]
<1>1. \A i \in 1 .. n : s[i] \in S
    BY ElementOfSeq, LenProperties
<1> QED
    BY <1>1, SubSeqProperties, LenProperties DEF FirstTokens

\* A prefix of a prefix is a prefix.
LEMMA FirstOfFirst ==
    ASSUME NEW S, NEW s \in Seq(S), NEW n \in 0 .. Len(s), NEW i \in 1 .. n
    PROVE  FirstTokens(FirstTokens(s, n), i) = FirstTokens(s, i)
<1>1. Len(s) \in Nat
    BY LenProperties
<1>2. i \in 0 .. n /\ i \in 0 .. Len(s)
    BY <1>1
<1>3. /\ FirstTokens(s, n) \in Seq(S)
      /\ Len(FirstTokens(s, n)) = n
      /\ \A j \in 1 .. n : FirstTokens(s, n)[j] = s[j]
    BY FirstTokensFacts
<1>4. /\ FirstTokens(FirstTokens(s, n), i) \in Seq(S)
      /\ Len(FirstTokens(FirstTokens(s, n), i)) = i
      /\ \A j \in 1 .. i :
             FirstTokens(FirstTokens(s, n), i)[j] = FirstTokens(s, n)[j]
    BY <1>2, <1>3, FirstTokensFacts
<1>5. /\ FirstTokens(s, i) \in Seq(S)
      /\ Len(FirstTokens(s, i)) = i
      /\ \A j \in 1 .. i : FirstTokens(s, i)[j] = s[j]
    BY <1>2, FirstTokensFacts
<1> QED
    BY <1>3, <1>4, <1>5, SeqEqual

\* Prefixes of the left part of a concatenation.
LEMMA FirstOfConcat ==
    ASSUME NEW S, NEW s \in Seq(S), NEW t \in Seq(S), NEW n \in 0 .. Len(s)
    PROVE  FirstTokens(s \o t, n) = FirstTokens(s, n)
<1>1. Len(s) \in Nat /\ Len(t) \in Nat
    BY LenProperties
<1>2. /\ s \o t \in Seq(S)
      /\ Len(s \o t) = Len(s) + Len(t)
      /\ \A i \in 1 .. Len(s) : (s \o t)[i] = s[i]
    BY <1>1, ConcatProperties
<1>3. n \in 0 .. Len(s \o t)
    BY <1>1, <1>2
<1>4. /\ FirstTokens(s \o t, n) \in Seq(S)
      /\ Len(FirstTokens(s \o t, n)) = n
      /\ \A i \in 1 .. n : FirstTokens(s \o t, n)[i] = (s \o t)[i]
    BY <1>2, <1>3, FirstTokensFacts
<1>5. /\ FirstTokens(s, n) \in Seq(S)
      /\ Len(FirstTokens(s, n)) = n
      /\ \A i \in 1 .. n : FirstTokens(s, n)[i] = s[i]
    BY FirstTokensFacts
<1> QED
    BY <1>2, <1>4, <1>5, SeqEqual

\* A cache that holds a sequence holds every prefix of it.
LEMMA HoldsPrefix ==
    ASSUME NEW S, NEW s \in Seq(S), NEW n \in 0 .. Len(s), NEW rows,
           Holds(rows, s)
    PROVE  Holds(rows, FirstTokens(s, n))
<1>1. Len(s) \in Nat /\ Capacity \in Nat
    BY LenProperties, LayerAssumption
<1>2. Len(FirstTokens(s, n)) = n
    BY FirstTokensFacts
<1>3. \A i \in 1 .. n : FirstTokens(FirstTokens(s, n), i) = FirstTokens(s, i)
    BY FirstOfFirst
<1>4. n <= Capacity
    BY <1>1 DEF Holds
<1> QED
    BY <1>1, <1>2, <1>3, <1>4 DEF Holds

\* Forwarding tokens keeps contents contents.
LEMMA ForwardType ==
    ASSUME NEW g \in Content, NEW rows \in [Rows -> Content], NEW at,
           NEW tokens \in Seq(Token)
    PROVE  Advance(g, rows, at, tokens) \in Content
<1>1. tokens \in Content
    BY ContentFacts
<1>2. g \o tokens \in Content
    BY <1>1, ConcatProperties DEF Content
<1> QED
    BY <1>2, ContentFacts DEF Advance

LEMMA WriteRowsType ==
    ASSUME NEW rows \in [Rows -> Content], NEW at \in Nat, NEW n \in Nat,
           NEW context \in Content
    PROVE  WriteRows(rows, at, n, context) \in [Rows -> Content]
<1>1. \A i \in Rows : RowOf(context, i) \in Content
    <2> SUFFICES ASSUME NEW i \in Rows PROVE RowOf(context, i) \in Content
        OBVIOUS
    <2>1. i \in Nat
        BY LayerAssumption DEF Rows
    <2>2. CASE i <= Len(context)
        <3>1. i \in 0 .. Len(context)
            BY <2>1, <2>2, LenProperties DEF Content
        <3>2. FirstTokens(context, i) \in Content
            BY <3>1, FirstTokensFacts DEF Content
        <3> QED
            BY <2>2, <3>2 DEF RowOf
    <2>3. CASE ~ (i <= Len(context))
        BY <2>3, ContentFacts DEF RowOf
    <2> QED
        BY <2>2, <2>3
<1> QED
    BY <1>1 DEF WriteRows

\* A coherent state that takes a run of tokens becomes the coherent state of
\* the longer sequence.
LEMMA ForwardExtends ==
    ASSUME NEW s \in Seq(Token), NEW rows \in [Rows -> Content],
           NEW tokens \in Seq(Token),
           Holds(rows, s), Len(s) + Len(tokens) <= Capacity
    PROVE  /\ Advance(s, rows, Len(s), tokens) = s \o tokens
           /\ Holds(WriteRows(rows, Len(s), Len(tokens), s \o tokens),
                    s \o tokens)
<1> DEFINE t == s \o tokens
           after == WriteRows(rows, Len(s), Len(tokens), t)
<1>1. Len(s) \in Nat /\ Len(tokens) \in Nat /\ Capacity \in Nat
    BY LenProperties, LayerAssumption
<1>2. t \in Seq(Token) /\ Len(t) = Len(s) + Len(tokens)
    BY ConcatProperties
<1>3. Advance(s, rows, Len(s), tokens) = t
    BY DEF Advance, Coherent
<1>4. ASSUME NEW i \in 1 .. Len(t)
      PROVE  after[i] = FirstTokens(t, i)
    <2>1. i \in Rows /\ i \in Nat
        BY <1>1, <1>2 DEF Rows
    <2>2. CASE i <= Len(s)
        <3>1. after[i] = rows[i]
            BY <1>1, <2>1, <2>2 DEF WriteRows
        <3>2. rows[i] = FirstTokens(s, i)
            BY <1>1, <2>1, <2>2 DEF Holds
        <3>3. FirstTokens(t, i) = FirstTokens(s, i)
            BY <1>1, <2>1, <2>2, FirstOfConcat
        <3> QED
            BY <3>1, <3>2, <3>3
    <2>3. CASE ~ (i <= Len(s))
        BY <1>1, <1>2, <2>1, <2>3 DEF WriteRows, RowOf
    <2> QED
        BY <2>2, <2>3
<1>5. Holds(after, t)
    BY <1>2, <1>4 DEF Holds
<1> QED
    BY <1>3, <1>5

\* Writing rows from a position on leaves what lies below it.
LEMMA WriteKeepsBelow ==
    ASSUME NEW s \in Seq(Token), NEW rows \in [Rows -> Content],
           NEW at \in Nat, NEW n \in Nat, NEW context,
           Holds(rows, s), Len(s) <= at
    PROVE  Holds(WriteRows(rows, at, n, context), s)
<1>1. Len(s) \in Nat /\ Capacity \in Nat
    BY LenProperties, LayerAssumption
<1>2. \A i \in 1 .. Len(s) : WriteRows(rows, at, n, context)[i] = rows[i]
    BY <1>1 DEF WriteRows, Rows, Holds
<1> QED
    BY <1>2 DEF Holds

\* Mirroring rows, and putting a mirror back, is faithful in both directions.
LEMMA OverlayFacts ==
    ASSUME NEW under \in [Rows -> Content], NEW over \in [Rows -> Content],
           NEW s \in Seq(Token), Holds(over, s)
    PROVE  /\ OverlayRows(under, Len(s), over) \in [Rows -> Content]
           /\ Holds(OverlayRows(under, Len(s), over), s)
<1>1. Len(s) \in Nat /\ Capacity \in Nat
    BY LenProperties, LayerAssumption
<1> QED
    BY <1>1 DEF OverlayRows, Holds, Rows

LEMMA OverlayType ==
    ASSUME NEW under \in [Rows -> Content], NEW over \in [Rows -> Content],
           NEW n \in Nat
    PROVE  OverlayRows(under, n, over) \in [Rows -> Content]
BY DEF OverlayRows
=============================================================================
