--------------------------- MODULE ClientReply_proofs ---------------------------
(***************************************************************************)
(* What becomes of a reply, for every set of replies: a stream of it says  *)
(* what the plain handlers say, and in the template's own format it comes  *)
(* back in the next request as the model wrote it.                         *)
(*                                                                         *)
(* Two invariants carry it.  ShownInv says that what was shown, is held    *)
(* back and is yet to come says what the whole reply says; ExtendInv       *)
(* follows the reply through the client's history.  The parts before them  *)
(* are about texts that differ in line breaks and wrappers only, and about *)
(* the way a text and its calls are written and read.                      *)
(***************************************************************************)
EXTENDS ClientTurn_proofs

-----------------------------------------------------------------------------
(* Picking twice, and picking from two texts.                              *)

\* f counts the positions off in their order.
Enumerates(f, m, at) == /\ f \in [1 .. m -> at]
                        /\ \A k, l \in 1 .. m : k < l => f[k] < f[l]
                        /\ \A i \in at : \E k \in 1 .. m : f[k] = i

\* There is only one way to do so.
LEMMA Enumerated ==
    ASSUME NEW n \in Nat, NEW at, at \subseteq 1 .. n, NEW m \in Nat,
           NEW f, Enumerates(f, m, at)
    PROVE  Cardinality(at) = m /\ \A k \in 1 .. m : Nth(at, k) = f[k]
<1> USE DEF Enumerates
<1>0. \A k \in 1 .. m : f[k] \in at /\ f[k] \in 1 .. n
    OBVIOUS
<1>1. \A k, l \in 1 .. m : f[k] = f[l] => k = l
    <2> SUFFICES ASSUME NEW k \in 1 .. m, NEW l \in 1 .. m, f[k] = f[l]
                 PROVE  k = l
        OBVIOUS
    <2>1. ~(k < l) /\ ~(l < k)
        BY <1>0
    <2> QED
        BY <2>1
<1>2. Cardinality(at) = m
    <2>1. f \in Bijection(1 .. m, at)
        BY <1>1 DEF Bijection, Injection, Surjection, IsInjective
    <2>2. IsFiniteSet(1 .. m) /\ Cardinality(1 .. m) = m
        BY FS_Interval
    <2> QED
        BY <2>1, <2>2, FS_Bijection DEF ExistsBijection
<1>3. ASSUME NEW k \in 1 .. m
      PROVE  Count(at, f[k]) = k
    <2> DEFINE B == at \cap 1 .. f[k]
               g == [j \in 1 .. k |-> f[j]]
    <2>0. k \in Nat /\ f[k] \in at /\ f[k] \in 1 .. n
        BY <1>0
    <2>1. ASSUME NEW j \in 1 .. k
          PROVE  f[j] \in B
        <3>1. j \in 1 .. m /\ (j < k \/ j = k)
            BY <1>3
        <3>2. f[j] \in at /\ f[j] \in 1 .. n /\ (f[j] < f[k] \/ f[j] = f[k])
            BY <1>0, <3>1
        <3> QED
            BY <2>0, <3>2
    <2>2. ASSUME NEW i \in B
          PROVE  \E j \in 1 .. k : f[j] = i
        <3>1. PICK j \in 1 .. m : f[j] = i
            OBVIOUS
        <3>2. ~(k < j)
            <4> SUFFICES ASSUME k < j
                         PROVE  FALSE
                OBVIOUS
            <4>1. f[k] < f[j] /\ i <= f[k] /\ i \in Int
                BY <2>0
            <4> QED
                BY <2>0, <3>1, <4>1
        <3>3. j \in 1 .. k
            BY <2>0, <3>2
        <3> QED
            BY <3>1, <3>3
    <2> HIDE DEF B
    <2>3. g \in [1 .. k -> B]
        BY <2>1
    <2>4. \A i, j \in 1 .. k : g[i] = g[j] => i = j
        BY <1>1, <2>0
    <2>5. \A i \in B : \E j \in 1 .. k : g[j] = i
        BY <2>2
    <2> HIDE DEF g
    <2>6. g \in Bijection(1 .. k, B)
        BY <2>3, <2>4, <2>5 DEF Bijection, Injection, Surjection, IsInjective
    <2>7. IsFiniteSet(1 .. k) /\ Cardinality(1 .. k) = k
        BY <2>0, FS_Interval
    <2>8. Cardinality(B) = k
        BY <2>6, <2>7, FS_Bijection DEF ExistsBijection
    <2> QED
        BY <2>8 DEF B, Count
<1>4. \A i \in at : Nth(at, Count(at, i)) = i
    BY NthFacts
<1> QED
    BY <1>0, <1>2, <1>3, <1>4

LEMMA PickWhole ==
    ASSUME NEW T, NEW s \in Seq(T)
    PROVE  Pick(s, 1 .. Len(s)) = s
<1> DEFINE at == 1 .. Len(s)
           f == [k \in 1 .. Len(s) |-> k]
<1>1. Len(s) \in Nat /\ at \subseteq 1 .. Len(s)
    BY LenProperties
<1>2. /\ f \in [1 .. Len(s) -> at]
      /\ \A k, l \in 1 .. Len(s) : k < l => f[k] < f[l]
      /\ \A i \in at : \E k \in 1 .. Len(s) : f[k] = i
    OBVIOUS
<1>3. \A k \in 1 .. Len(s) : f[k] = k
    OBVIOUS
<1>4. Pick(s, at) \in Seq(T) /\ Len(Pick(s, at)) = Cardinality(at)
      /\ \A k \in 1 .. Len(Pick(s, at)) : Pick(s, at)[k] = s[Nth(at, k)]
    BY <1>1, PickFacts
<1> HIDE DEF at, f
<1>e. Enumerates(f, Len(s), at)
    BY <1>2 DEF Enumerates
<1>5. Cardinality(at) = Len(s) /\ \A k \in 1 .. Len(s) : Nth(at, k) = f[k]
    BY ONLY <1>1, <1>e, Enumerated
<1>6. Pick(s, at) = s
    BY <1>3, <1>4, <1>5, SeqEqual
<1> QED
    BY <1>6 DEF at

\* B chooses from what is picked what A chooses from the whole text.
Chooses(B, s, K, A) == /\ A \subseteq K /\ K \subseteq 1 .. Len(s)
                       /\ B \subseteq 1 .. Len(Pick(s, K))
                       /\ \A k \in 1 .. Len(Pick(s, K)) : k \in B <=> Nth(K, k) \in A

\* Picking from what was picked is picking at once.
LEMMA PickPick ==
    ASSUME NEW T, NEW s \in Seq(T), NEW K, NEW A, NEW B, Chooses(B, s, K, A)
    PROVE  Pick(Pick(s, K), B) = Pick(s, A)
<1>k. A \subseteq K /\ K \subseteq 1 .. Len(s)
    BY DEF Chooses
<1> DEFINE t == Pick(s, K)
           m == Cardinality(B)
           f == [k \in 1 .. m |-> Nth(K, Nth(B, k))]
<1>0. Picked(T, s, K, t)
    BY <1>k, PickedFacts
<1>1. /\ t \in Seq(T) /\ Len(s) \in Nat /\ Len(t) \in Nat
      /\ \A k \in 1 .. Len(t) : Nth(K, k) \in K /\ t[k] = s[Nth(K, k)]
      /\ \A k, l \in 1 .. Len(t) : k < l => Nth(K, k) < Nth(K, l)
      /\ \A i \in K : \E k \in 1 .. Len(t) : Nth(K, k) = i
    BY <1>0, LenProperties DEF Picked
<1>2. A \subseteq 1 .. Len(s) /\ B \subseteq 1 .. Len(t)
    BY <1>k DEF Chooses
<1>b. \A k \in 1 .. Len(t) : k \in B <=> Nth(K, k) \in A
    BY DEF Chooses
<1> HIDE DEF t
<1>3. /\ Pick(t, B) \in Seq(T) /\ Len(Pick(t, B)) = m /\ m \in 0 .. Len(t)
      /\ \A k \in 1 .. Len(Pick(t, B)) : Nth(B, k) \in B /\ Pick(t, B)[k] = t[Nth(B, k)]
      /\ \A k, l \in 1 .. Len(Pick(t, B)) : k < l => Nth(B, k) < Nth(B, l)
      /\ \A i \in B : \E k \in 1 .. Len(Pick(t, B)) : Nth(B, k) = i
    <2>1. Picked(T, t, B, Pick(t, B))
        BY ONLY <1>1, <1>2, PickedFacts
    <2> QED
        BY <2>1 DEF Picked
<1>4. /\ Pick(s, A) \in Seq(T) /\ Len(Pick(s, A)) = Cardinality(A)
      /\ \A k \in 1 .. Len(Pick(s, A)) : Pick(s, A)[k] = s[Nth(A, k)]
    <2>1. Picked(T, s, A, Pick(s, A))
        BY ONLY s \in Seq(T), <1>2, PickedFacts
    <2> QED
        BY <2>1 DEF Picked
<1>m. m \in Nat
    BY <1>1, <1>3
<1> HIDE DEF m
<1>5. \A k \in 1 .. m : /\ Nth(B, k) \in B /\ Nth(B, k) \in 1 .. Len(t)
                        /\ Nth(K, Nth(B, k)) \in A /\ f[k] = Nth(K, Nth(B, k))
    BY <1>2, <1>3, <1>b
<1>6. f \in [1 .. m -> A]
    BY <1>5
<1>7. ASSUME NEW k \in 1 .. m, NEW l \in 1 .. m, k < l
      PROVE  f[k] < f[l]
    <2>1. Nth(B, k) < Nth(B, l)
        BY <1>3, <1>7
    <2> QED
        BY <1>1, <1>5, <2>1
<1>8. ASSUME NEW i \in A
      PROVE  \E k \in 1 .. m : f[k] = i
    <2>1. PICK j \in 1 .. Len(t) : Nth(K, j) = i
        BY <1>1, <1>k
    <2>2. j \in B
        BY <1>b, <2>1
    <2>3. PICK k \in 1 .. m : Nth(B, k) = j
        BY <1>3, <2>2
    <2> QED
        BY <1>5, <2>1, <2>3
<1> HIDE DEF f
<1>e. Enumerates(f, m, A)
    BY <1>6, <1>7, <1>8 DEF Enumerates
<1>9. Cardinality(A) = m /\ \A k \in 1 .. m : Nth(A, k) = f[k]
    <2>1. Len(s) \in Nat /\ A \subseteq 1 .. Len(s)
        BY <1>1, <1>2
    <2> QED
        BY ONLY <2>1, <1>m, <1>e, Enumerated
<1>10. \A k \in 1 .. m : Pick(t, B)[k] = Pick(s, A)[k]
    <2> SUFFICES ASSUME NEW k \in 1 .. m
                 PROVE  Pick(t, B)[k] = Pick(s, A)[k]
        OBVIOUS
    <2>1. Pick(t, B)[k] = t[Nth(B, k)] /\ t[Nth(B, k)] = s[Nth(K, Nth(B, k))]
        BY <1>1, <1>3, <1>5
    <2>2. Pick(s, A)[k] = s[Nth(A, k)] /\ Nth(A, k) = Nth(K, Nth(B, k))
        BY <1>4, <1>5, <1>9
    <2> QED
        BY <2>1, <2>2
<1>11. Pick(t, B) = Pick(s, A)
    BY <1>3, <1>4, <1>9, <1>10, SeqEqual
<1> QED
    BY <1>11 DEF t

\* C chooses from two texts what A and B choose from each.
ChoosesBoth(C, a, A, b, B) ==
    /\ A \subseteq 1 .. Len(a) /\ B \subseteq 1 .. Len(b) /\ C \subseteq 1 .. Len(a) + Len(b)
    /\ \A i \in 1 .. Len(a) : i \in C <=> i \in A
    /\ \A i \in 1 .. Len(b) : Len(a) + i \in C <=> i \in B

\* Picking from two texts.
LEMMA PickConcat ==
    ASSUME NEW T, NEW a \in Seq(T), NEW b \in Seq(T),
           NEW A, NEW B, NEW C, ChoosesBoth(C, a, A, b, B)
    PROVE  Pick(a \o b, C) = Pick(a, A) \o Pick(b, B)
<1>0. /\ A \subseteq 1 .. Len(a) /\ B \subseteq 1 .. Len(b) /\ C \subseteq 1 .. Len(a) + Len(b)
      /\ \A i \in 1 .. Len(a) : i \in C <=> i \in A
      /\ \A i \in 1 .. Len(b) : Len(a) + i \in C <=> i \in B
    BY DEF ChoosesBoth
<1> DEFINE w == a \o b
           p == Pick(a, A)
           q == Pick(b, B)
           m == Len(p) + Len(q)
           f == [k \in 1 .. m |-> IF k <= Len(p) THEN Nth(A, k)
                                  ELSE Len(a) + Nth(B, k - Len(p))]
<1>1. /\ w \in Seq(T) /\ Len(a) \in Nat /\ Len(b) \in Nat
      /\ Len(w) = Len(a) + Len(b)
      /\ \A i \in 1 .. Len(a) : w[i] = a[i]
      /\ \A i \in 1 .. Len(b) : w[Len(a) + i] = b[i]
    BY ONLY a \in Seq(T), b \in Seq(T), JoinFacts
<1>2. /\ p \in Seq(T) /\ Len(p) \in Nat
      /\ \A k \in 1 .. Len(p) : Nth(A, k) \in A /\ p[k] = a[Nth(A, k)]
      /\ \A k, l \in 1 .. Len(p) : k < l => Nth(A, k) < Nth(A, l)
      /\ \A i \in A : \E k \in 1 .. Len(p) : Nth(A, k) = i
    <2>1. Picked(T, a, A, p)
        BY <1>0, PickedFacts
    <2> HIDE DEF p
    <2> QED
        BY <2>1 DEF Picked
<1>3. /\ q \in Seq(T) /\ Len(q) \in Nat
      /\ \A k \in 1 .. Len(q) : Nth(B, k) \in B /\ q[k] = b[Nth(B, k)]
      /\ \A k, l \in 1 .. Len(q) : k < l => Nth(B, k) < Nth(B, l)
      /\ \A i \in B : \E k \in 1 .. Len(q) : Nth(B, k) = i
    <2>1. Picked(T, b, B, q)
        BY <1>0, PickedFacts
    <2> HIDE DEF q
    <2> QED
        BY <2>1 DEF Picked
<1>4. /\ p \o q \in Seq(T) /\ Len(p \o q) = m
      /\ \A k \in 1 .. Len(p) : (p \o q)[k] = p[k]
      /\ \A k \in Len(p) + 1 .. Len(p) + Len(q) : (p \o q)[k] = q[k - Len(p)]
    BY ONLY <1>2, <1>3, JoinFacts
<1> HIDE DEF w, p, q
<1>a. \A i \in A : i \in 1 .. Len(a) /\ i \in C
    BY <1>0
<1>b. \A i \in B : i \in 1 .. Len(b) /\ Len(a) + i \in C
    BY <1>0
<1>m. m \in Nat
    BY <1>2, <1>3
<1>5. ASSUME NEW k \in 1 .. m
      PROVE  \/ /\ k \in 1 .. Len(p) /\ f[k] = Nth(A, k) /\ Nth(A, k) \in A
             \/ /\ k \in Len(p) + 1 .. Len(p) + Len(q) /\ k - Len(p) \in 1 .. Len(q)
                /\ f[k] = Len(a) + Nth(B, k - Len(p)) /\ Nth(B, k - Len(p)) \in B
    <2>1. CASE k <= Len(p)
        BY <1>2, <1>3, <2>1
    <2>2. CASE k > Len(p)
        BY <1>2, <1>3, <2>2
    <2> QED
        BY <1>2, <2>1, <2>2
<1>6. \A k \in 1 .. m : f[k] \in C
    BY <1>5, <1>a, <1>b
<1>7. f \in [1 .. m -> C]
    BY <1>6
<1> HIDE DEF f
<1>8. ASSUME NEW k \in 1 .. m, NEW l \in 1 .. m, k < l
      PROVE  f[k] < f[l]
    <2>1. CASE l \in 1 .. Len(p)
        <3>1. k \in 1 .. Len(p)
            BY <1>2, <1>8, <2>1
        <3>2. f[k] = Nth(A, k) /\ f[l] = Nth(A, l)
            BY <1>2, <1>5, <2>1, <3>1
        <3> QED
            BY <1>2, <1>8, <2>1, <3>1, <3>2
    <2>2. CASE l \notin 1 .. Len(p)
        <3>1. /\ l - Len(p) \in 1 .. Len(q) /\ f[l] = Len(a) + Nth(B, l - Len(p))
              /\ Nth(B, l - Len(p)) \in 1 .. Len(b)
            BY <1>5, <1>b, <2>2
        <3>2. CASE k \in 1 .. Len(p)
            <4>0. ~(k \in Len(p) + 1 .. Len(p) + Len(q))
                BY <1>2, <3>2
            <4>1. f[k] \in 1 .. Len(a)
                BY <1>5, <1>a, <4>0
            <4> QED
                BY <1>1, <3>1, <4>1
        <3>3. CASE k \notin 1 .. Len(p)
            <4>1. /\ k - Len(p) \in 1 .. Len(q) /\ f[k] = Len(a) + Nth(B, k - Len(p))
                  /\ Nth(B, k - Len(p)) \in 1 .. Len(b)
                BY <1>5, <1>b, <3>3
            <4>2. k - Len(p) < l - Len(p)
                BY <1>2, <1>8
            <4>3. Nth(B, k - Len(p)) < Nth(B, l - Len(p))
                BY <1>3, <3>1, <4>1, <4>2
            <4> QED
                BY <1>1, <3>1, <4>1, <4>3
        <3> QED
            BY <3>2, <3>3
    <2> QED
        BY <2>1, <2>2
<1>9. ASSUME NEW i \in C
      PROVE  \E k \in 1 .. m : f[k] = i
    <2>1. CASE i <= Len(a)
        <3>1. i \in A
            BY <1>0, <1>1, <2>1
        <3>2. PICK k \in 1 .. Len(p) : Nth(A, k) = i
            BY <1>2, <3>1
        <3>3. k \in 1 .. m /\ ~(k \in Len(p) + 1 .. Len(p) + Len(q))
            BY <1>2, <1>3
        <3> QED
            BY <1>5, <3>2, <3>3
    <2>2. CASE i > Len(a)
        <3>1. i - Len(a) \in 1 .. Len(b) /\ Len(a) + (i - Len(a)) = i
            BY <1>0, <1>1, <2>2
        <3>2. i - Len(a) \in B
            BY <1>0, <3>1
        <3>3. PICK k \in 1 .. Len(q) : Nth(B, k) = i - Len(a)
            BY <1>3, <3>2
        <3>4. k + Len(p) \in 1 .. m /\ ~(k + Len(p) \in 1 .. Len(p)) /\ (k + Len(p)) - Len(p) = k
            BY <1>2, <1>3
        <3>5. f[k + Len(p)] = Len(a) + Nth(B, k)
            BY <1>5, <3>4
        <3> QED
            BY <3>1, <3>3, <3>4, <3>5
    <2> QED
        BY <1>0, <1>1, <2>1, <2>2
<1>c. Len(w) \in Nat /\ C \subseteq 1 .. Len(w)
    BY <1>0, <1>1
<1>e. Enumerates(f, m, C)
    BY <1>7, <1>8, <1>9 DEF Enumerates
<1>10. Cardinality(C) = m /\ \A k \in 1 .. m : Nth(C, k) = f[k]
    <2> HIDE DEF m
    <2> QED
        BY ONLY <1>c, <1>m, <1>e, Enumerated
<1>11. /\ Pick(w, C) \in Seq(T) /\ Len(Pick(w, C)) = m
       /\ \A k \in 1 .. m : Pick(w, C)[k] = w[Nth(C, k)]
    <2>1. Picked(T, w, C, Pick(w, C))
        BY ONLY <1>1, <1>c, PickedFacts
    <2> QED
        BY <1>10, <2>1 DEF Picked
<1>12. ASSUME NEW k \in 1 .. m
       PROVE  Pick(w, C)[k] = (p \o q)[k]
    <2>1. CASE k \in 1 .. Len(p)
        <3>0. ~(k \in Len(p) + 1 .. Len(p) + Len(q))
            BY <1>2, <2>1
        <3>1. f[k] = Nth(A, k) /\ Nth(A, k) \in 1 .. Len(a)
            BY <1>5, <1>a, <3>0
        <3>2. Pick(w, C)[k] = w[Nth(A, k)]
            BY <1>10, <1>11, <3>1
        <3> QED
            BY <1>1, <1>2, <1>4, <2>1, <3>1, <3>2
    <2>2. CASE k \notin 1 .. Len(p)
        <3>1. /\ k \in Len(p) + 1 .. Len(p) + Len(q) /\ k - Len(p) \in 1 .. Len(q)
              /\ f[k] = Len(a) + Nth(B, k - Len(p)) /\ Nth(B, k - Len(p)) \in 1 .. Len(b)
            BY <1>5, <1>b, <2>2
        <3>2. Pick(w, C)[k] = w[Len(a) + Nth(B, k - Len(p))]
            BY <1>10, <1>11, <3>1
        <3> QED
            BY <1>1, <1>3, <1>4, <3>1, <3>2
    <2> QED
        BY <2>1, <2>2
<1>13. Pick(w, C) = p \o q
    BY <1>4, <1>11, <1>12, SeqEqual
<1> QED
    BY <1>13 DEF w, p, q

-----------------------------------------------------------------------------
(* Taking line breaks and wrappers out of an unbroken text.                *)

\* A wrapper reaches from h to e.
Wrap(s, h, e) == /\ h \in 1 .. Len(s) /\ e \in 1 .. Len(s)
                 /\ s[h] = "<" /\ s[e] = "invoke>"
                 /\ e = h + 1 \/ (e = h + 2 /\ s[h + 1] = "/")

Covered(s, i) == \E tag \in Wrappers : Inside(s, i, tag)
Visible(s)    == {i \in Inked(s) : \A tag \in Wrappers : ~Inside(s, i, tag)}

LEMMA CoveredFacts ==
    ASSUME NEW s \in Seq(Pieces), NEW i
    PROVE  Covered(s, i) <=> \E h, e \in 1 .. Len(s) : Wrap(s, h, e) /\ i \in h .. e
<1>l. Len(s) \in Nat
    BY LenProperties
<1>1. ASSUME NEW h
      PROVE  /\ h \in Hits(s, Invoke) <=> h \in 1 .. Len(s) /\ Wrap(s, h, h + 1)
             /\ h \in Hits(s, EndInvoke) <=>
                    h \in 1 .. Len(s) /\ h + 2 \in 1 .. Len(s) /\ s[h] = "<" /\ s[h + 1] = "/"
                    /\ s[h + 2] = "invoke>"
    <2>1. /\ h \in Hits(s, Invoke) <=>
                  h \in 1 .. Len(s) - 1 /\ s[h] = "<" /\ s[h + 1] = "invoke>"
          /\ h \in Hits(s, EndInvoke) <=>
                  /\ h \in 1 .. Len(s) - 2
                  /\ s[h] = "<" /\ s[h + 1] = "/" /\ s[h + 2] = "invoke>"
        BY WrapperHits
    <2>2. h \in 1 .. Len(s) - 1 <=> h \in 1 .. Len(s) /\ h + 1 \in 1 .. Len(s)
        BY <1>l
    <2>3. h \in 1 .. Len(s) - 2 <=> h \in 1 .. Len(s) /\ h + 2 \in 1 .. Len(s)
        BY <1>l
    <2> QED
        BY <2>1, <2>2, <2>3 DEF Wrap
<1>2. Inside(s, i, Invoke) <=> \E h \in Hits(s, Invoke) : i \in h .. h + 1
    <2>1. \A h \in Hits(s, Invoke) : h + Len(Invoke) - 1 = h + 1
        BY <1>1, TagsAreTexts
    <2> QED
        BY <2>1 DEF Inside
<1>3. Inside(s, i, EndInvoke) <=> \E h \in Hits(s, EndInvoke) : i \in h .. h + 2
    <2>1. \A h \in Hits(s, EndInvoke) : h + Len(EndInvoke) - 1 = h + 2
        BY <1>1, TagsAreTexts
    <2> QED
        BY <2>1 DEF Inside
<1>4. Covered(s, i) <=> Inside(s, i, Invoke) \/ Inside(s, i, EndInvoke)
    BY DEF Covered, Wrappers
<1>5. ASSUME Inside(s, i, Invoke)
      PROVE  \E h, e \in 1 .. Len(s) : Wrap(s, h, e) /\ i \in h .. e
    <2>1. PICK h \in Hits(s, Invoke) : i \in h .. h + 1
        BY <1>2, <1>5
    <2>2. h \in 1 .. Len(s) /\ Wrap(s, h, h + 1) /\ h + 1 \in 1 .. Len(s)
        BY <1>1 DEF Wrap
    <2> QED
        BY <2>1, <2>2
<1>6. ASSUME Inside(s, i, EndInvoke)
      PROVE  \E h, e \in 1 .. Len(s) : Wrap(s, h, e) /\ i \in h .. e
    <2>1. PICK h \in Hits(s, EndInvoke) : i \in h .. h + 2
        BY <1>3, <1>6
    <2>2. h \in 1 .. Len(s) /\ Wrap(s, h, h + 2) /\ h + 2 \in 1 .. Len(s)
        BY <1>1 DEF Wrap
    <2> QED
        BY <2>1, <2>2
<1>7. ASSUME NEW h \in 1 .. Len(s), NEW e \in 1 .. Len(s), Wrap(s, h, e), i \in h .. e
      PROVE  Covered(s, i)
    <2>1. CASE e = h + 1
        <3>1. h \in Hits(s, Invoke) /\ i \in h .. h + 1
            BY <1>1, <1>7, <2>1
        <3> QED
            BY <1>2, <1>4, <3>1
    <2>2. CASE e = h + 2 /\ s[h + 1] = "/"
        <3>1. h \in Hits(s, EndInvoke) /\ i \in h .. h + 2
            BY <1>1, <1>7, <2>2 DEF Wrap
        <3> QED
            BY <1>3, <1>4, <3>1
    <2> QED
        BY <1>7, <2>1, <2>2 DEF Wrap
<1> QED
    BY <1>4, <1>5, <1>6, <1>7

\* In an unbroken text the next pieces tell whether one belongs to a wrapper.
Wrapped(s, i) == \/ s[i] = "invoke>"
                 \/ i + 1 \in 1 .. Len(s) /\ s[i + 1] = "invoke>"
                 \/ i + 2 \in 1 .. Len(s) /\ s[i + 1] = "/" /\ s[i + 2] = "invoke>"

\* What precedes the inner pieces of an unbroken text.
LEMMA UnbrokenFacts ==
    ASSUME NEW s \in Seq(Pieces), Unbroken(s), NEW i \in 1 .. Len(s)
    PROVE  /\ s[i] \in Inner => i > 1 /\ i - 1 \in 1 .. Len(s) /\ s[i - 1] \in {"<", "/"}
           /\ s[i] = "/" => s[i - 1] = "<"
           /\ s[i] \in {"<", "nl"} => s[i] \notin Inner
<1>l. Len(s) \in Nat
    BY LenProperties
<1>1. s[i] \in Inner => i > 1 /\ s[i - 1] \in IF s[i] = "/" THEN {"<"} ELSE {"<", "/"}
    BY DEF Unbroken
<1>2. s[i] = "/" => s[i] \in Inner
    BY DEF Inner
<1>3. i > 1 => i - 1 \in 1 .. Len(s)
    BY <1>l
<1>4. s[i] \in {"<", "nl"} => s[i] \notin Inner
    BY DEF Inner
<1> QED
    BY <1>1, <1>2, <1>3, <1>4

LEMMA WrappedFacts ==
    ASSUME NEW s \in Seq(Pieces), Unbroken(s), NEW i \in 1 .. Len(s)
    PROVE  Covered(s, i) <=> Wrapped(s, i)
<1>l. Len(s) \in Nat
    BY LenProperties
<1>1. ASSUME Covered(s, i)
      PROVE  Wrapped(s, i)
    <2>1. PICK h \in 1 .. Len(s), e \in 1 .. Len(s) : Wrap(s, h, e) /\ i \in h .. e
        BY <1>1, CoveredFacts
    <2>2. /\ s[h] = "<" /\ s[e] = "invoke>" /\ (e = h + 1 \/ (e = h + 2 /\ s[h + 1] = "/"))
        BY <2>1 DEF Wrap
    <2>3. i = e \/ i + 1 = e \/ (i + 2 = e /\ i = h)
        BY <2>1, <2>2
    <2>4. CASE i + 2 = e /\ i = h
        <3>1. s[i + 1] = "/"
            BY <2>2, <2>4
        <3> QED
            BY <2>2, <2>4, <3>1 DEF Wrapped
    <2> QED
        BY <2>2, <2>3, <2>4 DEF Wrapped
<1>2. ASSUME NEW e \in 1 .. Len(s), s[e] = "invoke>"
      PROVE  \E h \in 1 .. Len(s) : /\ Wrap(s, h, e)
                                    /\ h = e - 1 \/ (h = e - 2 /\ s[e - 1] = "/")
    <2>1. e > 1 /\ e - 1 \in 1 .. Len(s) /\ s[e - 1] \in {"<", "/"}
        <3>1. s[e] \in Inner
            BY <1>2 DEF Inner
        <3> QED
            BY <3>1, UnbrokenFacts
    <2>2. CASE s[e - 1] = "<"
        <3>1. Wrap(s, e - 1, e)
            BY <1>2, <2>1, <2>2 DEF Wrap
        <3> QED
            BY <2>1, <3>1
    <2>3. CASE s[e - 1] = "/"
        <3>1. s[e - 1] \in Inner
            BY <2>3 DEF Inner
        <3>2. e - 1 > 1 /\ (e - 1) - 1 \in 1 .. Len(s) /\ s[(e - 1) - 1] = "<"
            BY <2>1, <2>3, <3>1, UnbrokenFacts
        <3>3. (e - 1) - 1 = e - 2 /\ (e - 2) + 1 = e - 1 /\ e = (e - 2) + 2
            BY <1>l
        <3>4. Wrap(s, e - 2, e)
            BY <1>2, <2>3, <3>2, <3>3 DEF Wrap
        <3> QED
            BY <2>3, <3>2, <3>3, <3>4
    <2> QED
        BY <2>1, <2>2, <2>3
<1>3. CASE s[i] = "invoke>"
    <2>1. PICK h \in 1 .. Len(s) : Wrap(s, h, i) /\ (h = i - 1 \/ h = i - 2)
        BY <1>2, <1>3
    <2>2. i \in h .. i
        BY <1>l, <2>1
    <2> QED
        BY <1>3, <2>1, <2>2, CoveredFacts DEF Wrapped
<1>4. CASE i + 1 \in 1 .. Len(s) /\ s[i + 1] = "invoke>"
    <2>1. PICK h \in 1 .. Len(s) : Wrap(s, h, i + 1) /\ (h = (i + 1) - 1 \/ h = (i + 1) - 2)
        BY <1>2, <1>4
    <2>2. i \in h .. i + 1
        BY <1>l, <2>1
    <2> QED
        BY <1>4, <2>1, <2>2, CoveredFacts DEF Wrapped
<1>5. CASE i + 2 \in 1 .. Len(s) /\ s[i + 1] = "/" /\ s[i + 2] = "invoke>"
    <2>1. i + 1 \in 1 .. Len(s) /\ (i + 1) - 1 = i
        BY <1>l, <1>5
    <2>2. s[i] = "<"
        BY <1>5, <2>1, UnbrokenFacts
    <2>3. Wrap(s, i, i + 2) /\ i \in i .. i + 2
        BY <1>5, <2>2 DEF Wrap
    <2> QED
        BY <1>5, <2>3, CoveredFacts DEF Wrapped
<1> QED
    BY <1>1, <1>3, <1>4, <1>5 DEF Wrapped

\* K leaves nothing out but line breaks and whole wrappers.
LeavesOut(s, K) ==
    /\ K \subseteq 1 .. Len(s)
    /\ \A i \in 1 .. Len(s) : i \notin K =>
          \/ s[i] = "nl"
          \/ \E h, e \in 1 .. Len(s) : Wrap(s, h, e) /\ i \in h .. e /\ \A j \in h .. e : j \notin K

LEMMA LeavesOutFacts ==
    ASSUME NEW s \in Seq(Pieces), Unbroken(s), NEW K, LeavesOut(s, K)
    PROVE  /\ Visible(s) \subseteq K
           /\ \A i \in 2 .. Len(s) : s[i] \in Inner => (i \in K <=> i - 1 \in K)
<1>l. Len(s) \in Nat /\ DOMAIN s = 1 .. Len(s)
    BY LenProperties
<1>1. ASSUME NEW i \in Visible(s), i \notin K
      PROVE  FALSE
    <2>1. i \in 1 .. Len(s) /\ s[i] # "nl" /\ ~Covered(s, i)
        BY <1>l DEF Visible, Inked, Covered
    <2>2. PICK h \in 1 .. Len(s), e \in 1 .. Len(s) : Wrap(s, h, e) /\ i \in h .. e
        BY <1>1, <2>1 DEF LeavesOut
    <2> QED
        BY <2>1, <2>2, CoveredFacts
<1>2. ASSUME NEW i \in 2 .. Len(s), s[i] \in Inner, i \notin K
      PROVE  i - 1 \notin K
    <2>0. i \in 1 .. Len(s) /\ s[i] # "nl" /\ s[i] # "<"
        BY <1>2, <1>l DEF Inner
    <2>1. PICK h \in 1 .. Len(s), e \in 1 .. Len(s) :
              Wrap(s, h, e) /\ i \in h .. e /\ \A j \in h .. e : j \notin K
        BY <1>2, <2>0 DEF LeavesOut
    <2>2. i # h
        BY <2>0, <2>1 DEF Wrap
    <2>3. i - 1 \in h .. e
        BY <2>1, <2>2
    <2> QED
        BY <2>1, <2>3
<1>3. ASSUME NEW i \in 2 .. Len(s), s[i] \in Inner, i - 1 \notin K
      PROVE  i \notin K
    <2>0. i \in 1 .. Len(s) /\ i - 1 \in 1 .. Len(s) /\ s[i - 1] \in {"<", "/"}
        BY <1>3, <1>l, UnbrokenFacts
    <2>1. PICK h \in 1 .. Len(s), e \in 1 .. Len(s) :
              Wrap(s, h, e) /\ i - 1 \in h .. e /\ \A j \in h .. e : j \notin K
        BY <1>3, <2>0 DEF LeavesOut
    <2>2. i - 1 # e
        BY <2>0, <2>1 DEF Wrap
    <2>3. i \in h .. e
        BY <2>0, <2>1, <2>2
    <2> QED
        BY <2>1, <2>3
<1> QED
    BY <1>1, <1>2, <1>3

\* An inner piece keeps its neighbour.
LEMMA Neighbours ==
    ASSUME NEW s \in Seq(Pieces), Unbroken(s), NEW K, LeavesOut(s, K),
           NEW k \in 1 .. Len(Pick(s, K))
    PROVE  /\ s[Nth(K, k)] \in Inner => k > 1 /\ Nth(K, k - 1) = Nth(K, k) - 1
           /\ Nth(K, k) + 1 \in 1 .. Len(s) /\ s[Nth(K, k) + 1] \in Inner =>
                  k + 1 \in 1 .. Len(Pick(s, K)) /\ Nth(K, k + 1) = Nth(K, k) + 1
<1>0. K \subseteq 1 .. Len(s)
    BY DEF LeavesOut
<1>1. Picked(Pieces, s, K, Pick(s, K))
    BY <1>0, PickedFacts
<1>p. \A l \in 1 .. Len(Pick(s, K)) : Nth(K, l) - 1 \in K => l > 1 /\ Nth(K, l - 1) = Nth(K, l) - 1
    BY <1>0, PickPrev
<1> DEFINE t == Pick(s, K)
<1> HIDE DEF t
<1>2. /\ Len(t) \in Nat /\ Len(s) \in Nat
      /\ \A l \in 1 .. Len(t) : Nth(K, l) \in K /\ Nth(K, l) \in 1 .. Len(s)
      /\ \A l, m \in 1 .. Len(t) : l < m => Nth(K, l) < Nth(K, m)
      /\ \A i \in K : \E l \in 1 .. Len(t) : Nth(K, l) = i
    BY <1>0, <1>1, LenProperties DEF Picked, t
<1>3. \A i \in 2 .. Len(s) : s[i] \in Inner => (i \in K <=> i - 1 \in K)
    BY LeavesOutFacts
<1>k. k \in 1 .. Len(t)
    BY DEF t
<1>4. ASSUME s[Nth(K, k)] \in Inner
      PROVE  k > 1 /\ Nth(K, k - 1) = Nth(K, k) - 1
    <2>1. Nth(K, k) > 1
        BY <1>2, <1>4, <1>k, UnbrokenFacts
    <2>2. Nth(K, k) \in 2 .. Len(s)
        BY <1>2, <1>k, <2>1
    <2>3. Nth(K, k) - 1 \in K
        BY <1>2, <1>3, <1>4, <1>k, <2>2
    <2> QED
        BY <1>p, <2>3
<1>5. ASSUME Nth(K, k) + 1 \in 1 .. Len(s), s[Nth(K, k) + 1] \in Inner
      PROVE  k + 1 \in 1 .. Len(t) /\ Nth(K, k + 1) = Nth(K, k) + 1
    <2> DEFINE i == Nth(K, k)
    <2>0. i \in 1 .. Len(s) /\ i \in K
        BY <1>2, <1>k
    <2>1. i + 1 \in 2 .. Len(s) /\ (i + 1) - 1 = i /\ s[i + 1] \in Inner
        BY <1>5, <2>0
    <2> HIDE DEF i
    <2>2. i + 1 \in K
        BY <1>3, <2>0, <2>1
    <2>3. PICK l \in 1 .. Len(t) : Nth(K, l) = i + 1
        BY <1>2, <2>2
    <2>4. l > 1 /\ Nth(K, l - 1) = i
        BY <1>p, <2>0, <2>1, <2>3 DEF t
    <2>5. l - 1 \in 1 .. Len(t)
        BY <1>2, <2>4
    <2>6. ~(l - 1 < k) /\ ~(k < l - 1)
        <3>1. Nth(K, l - 1) = Nth(K, k) /\ Nth(K, k) \in Int
            BY <2>0, <2>4 DEF i
        <3> QED
            BY <1>2, <1>k, <2>5, <3>1
    <2>7. l = k + 1
        BY <1>k, <2>6
    <2> QED
        BY <2>3, <2>7 DEF i
<1> QED
    BY <1>4, <1>5 DEF t

\* So the inner pieces that follow a piece are the same before and after.
LEMMA NextPieces ==
    ASSUME NEW s \in Seq(Pieces), Unbroken(s), NEW K, LeavesOut(s, K),
           NEW k \in 1 .. Len(Pick(s, K))
    PROVE  LET t == Pick(s, K)
               i == Nth(K, k)
           IN  /\ i \in 1 .. Len(s) /\ t[k] = s[i]
               /\ \A x \in Inner : k + 1 \in 1 .. Len(t) /\ t[k + 1] = x <=>
                                   i + 1 \in 1 .. Len(s) /\ s[i + 1] = x
               /\ \A x, y \in Inner : k + 2 \in 1 .. Len(t) /\ t[k + 1] = x /\ t[k + 2] = y <=>
                                      i + 2 \in 1 .. Len(s) /\ s[i + 1] = x /\ s[i + 2] = y
<1> DEFINE t == Pick(s, K)
<1>0. K \subseteq 1 .. Len(s)
    BY DEF LeavesOut
<1>1. Picked(Pieces, s, K, t)
    BY <1>0, PickedFacts
<1>2. ASSUME NEW l \in 1 .. Len(t)
      PROVE  /\ s[Nth(K, l)] \in Inner => l > 1 /\ Nth(K, l - 1) = Nth(K, l) - 1
             /\ Nth(K, l) + 1 \in 1 .. Len(s) /\ s[Nth(K, l) + 1] \in Inner =>
                  l + 1 \in 1 .. Len(t) /\ Nth(K, l + 1) = Nth(K, l) + 1
    BY Neighbours
<1>k. k \in 1 .. Len(t)
    OBVIOUS
<1> HIDE DEF t
<1>3. /\ Len(t) \in Nat /\ Len(s) \in Nat
      /\ \A l \in 1 .. Len(t) : /\ Nth(K, l) \in K /\ Nth(K, l) \in 1 .. Len(s)
                                /\ t[l] = s[Nth(K, l)]
    BY <1>0, <1>1, LenProperties DEF Picked
<1>4. ASSUME NEW l \in 1 .. Len(t), l + 1 \in 1 .. Len(t), t[l + 1] \in Inner
      PROVE  Nth(K, l + 1) = Nth(K, l) + 1
    <2>1. s[Nth(K, l + 1)] \in Inner
        BY <1>3, <1>4
    <2>2. (l + 1) - 1 = l /\ Nth(K, (l + 1) - 1) = Nth(K, l + 1) - 1
        BY <1>2, <1>4, <2>1
    <2> QED
        BY <1>3, <1>4, <2>2
<1>5. ASSUME NEW l \in 1 .. Len(t), NEW x \in Inner
      PROVE  l + 1 \in 1 .. Len(t) /\ t[l + 1] = x <=>
             Nth(K, l) + 1 \in 1 .. Len(s) /\ s[Nth(K, l) + 1] = x
    <2>1. ASSUME l + 1 \in 1 .. Len(t), t[l + 1] = x
          PROVE  Nth(K, l) + 1 \in 1 .. Len(s) /\ s[Nth(K, l) + 1] = x
        BY <1>3, <1>4, <2>1
    <2>2. ASSUME Nth(K, l) + 1 \in 1 .. Len(s), s[Nth(K, l) + 1] = x
          PROVE  l + 1 \in 1 .. Len(t) /\ t[l + 1] = x
        BY <1>2, <1>3, <2>2
    <2> QED
        BY <2>1, <2>2
<1>6. ASSUME NEW x \in Inner, NEW y \in Inner
      PROVE  k + 2 \in 1 .. Len(t) /\ t[k + 1] = x /\ t[k + 2] = y <=>
             Nth(K, k) + 2 \in 1 .. Len(s) /\ s[Nth(K, k) + 1] = x /\ s[Nth(K, k) + 2] = y
    <2>n. /\ Nth(K, k) \in 1 .. Len(s) /\ (k + 1) + 1 = k + 2
          /\ (Nth(K, k) + 1) + 1 = Nth(K, k) + 2
        BY <1>3, <1>k
    <2>1. ASSUME k + 2 \in 1 .. Len(t), t[k + 1] = x, t[k + 2] = y
          PROVE  Nth(K, k) + 2 \in 1 .. Len(s) /\ s[Nth(K, k) + 1] = x /\ s[Nth(K, k) + 2] = y
        <3>1. k + 1 \in 1 .. Len(t) /\ (k + 1) + 1 \in 1 .. Len(t) /\ t[(k + 1) + 1] = y
            BY <1>3, <1>k, <2>1, <2>n
        <3>2. Nth(K, k + 1) = Nth(K, k) + 1 /\ s[Nth(K, k) + 1] = x
            BY <1>3, <1>4, <1>k, <2>1, <3>1
        <3>3. Nth(K, k + 1) + 1 \in 1 .. Len(s) /\ s[Nth(K, k + 1) + 1] = y
            BY <1>5, <3>1
        <3> QED
            BY <2>n, <3>2, <3>3
    <2>2. ASSUME Nth(K, k) + 2 \in 1 .. Len(s), s[Nth(K, k) + 1] = x, s[Nth(K, k) + 2] = y
          PROVE  k + 2 \in 1 .. Len(t) /\ t[k + 1] = x /\ t[k + 2] = y
        <3>1. Nth(K, k) + 1 \in 1 .. Len(s)
            BY <1>3, <2>n, <2>2
        <3>2. k + 1 \in 1 .. Len(t) /\ t[k + 1] = x /\ Nth(K, k + 1) = Nth(K, k) + 1
            BY <1>2, <1>5, <1>k, <2>2, <3>1
        <3>3. (k + 1) + 1 \in 1 .. Len(t) /\ t[(k + 1) + 1] = y
            BY <1>5, <2>n, <2>2, <3>2
        <3> QED
            BY <2>n, <3>2, <3>3
    <2> QED
        BY <2>1, <2>2
<1>7. /\ Nth(K, k) \in 1 .. Len(s) /\ t[k] = s[Nth(K, k)]
      /\ \A x \in Inner : k + 1 \in 1 .. Len(t) /\ t[k + 1] = x <=>
                          Nth(K, k) + 1 \in 1 .. Len(s) /\ s[Nth(K, k) + 1] = x
    BY <1>3, <1>5, <1>k
<1> QED
    BY <1>6, <1>7 DEF t

\* The text that remains is unbroken.
LEMMA StaysUnbroken ==
    ASSUME NEW s \in Seq(Pieces), Unbroken(s), NEW K, LeavesOut(s, K)
    PROVE  Pick(s, K) \in Seq(Pieces) /\ Unbroken(Pick(s, K))
<1> DEFINE t == Pick(s, K)
<1>0. K \subseteq 1 .. Len(s)
    BY DEF LeavesOut
<1>1. Picked(Pieces, s, K, t)
    BY <1>0, PickedFacts
<1>2. ASSUME NEW l \in 1 .. Len(t)
      PROVE  s[Nth(K, l)] \in Inner => l > 1 /\ Nth(K, l - 1) = Nth(K, l) - 1
    BY Neighbours
<1> HIDE DEF t
<1>3. /\ t \in Seq(Pieces) /\ Len(t) \in Nat
      /\ \A l \in 1 .. Len(t) : Nth(K, l) \in 1 .. Len(s) /\ t[l] = s[Nth(K, l)]
    BY <1>0, <1>1 DEF Picked
<1>4. ASSUME NEW l \in 1 .. Len(t), t[l] \in Inner
      PROVE  l > 1 /\ t[l - 1] \in IF t[l] = "/" THEN {"<"} ELSE {"<", "/"}
    <2>1. s[Nth(K, l)] \in Inner
        BY <1>3, <1>4
    <2>2. l > 1 /\ Nth(K, l - 1) = Nth(K, l) - 1
        BY <1>2, <2>1
    <2>3. l - 1 \in 1 .. Len(t)
        BY <1>3, <2>2
    <2>4. t[l - 1] = s[Nth(K, l) - 1]
        BY <1>3, <2>2, <2>3
    <2>5. s[Nth(K, l) - 1] \in IF s[Nth(K, l)] = "/" THEN {"<"} ELSE {"<", "/"}
        BY <1>3, <2>1 DEF Unbroken
    <2> QED
        BY <1>3, <2>2, <2>4, <2>5
<1> QED
    BY <1>3, <1>4 DEF t, Unbroken

\* And says the same.
LEMMA InkKept ==
    ASSUME NEW s \in Seq(Pieces), Unbroken(s), NEW K, LeavesOut(s, K)
    PROVE  Ink(Pick(s, K)) = Ink(s)
<1> DEFINE t == Pick(s, K)
<1>0. K \subseteq 1 .. Len(s)
    BY DEF LeavesOut
<1>1. Picked(Pieces, s, K, t)
    BY <1>0, PickedFacts
<1>2. t \in Seq(Pieces) /\ Unbroken(t)
    BY StaysUnbroken
<1>3. ASSUME NEW k \in 1 .. Len(t)
      PROVE  /\ Nth(K, k) \in 1 .. Len(s) /\ t[k] = s[Nth(K, k)]
             /\ Wrapped(t, k) <=> Wrapped(s, Nth(K, k))
    <2>1. LET i == Nth(K, k)
           IN  /\ i \in 1 .. Len(s) /\ t[k] = s[i]
               /\ \A x \in Inner : k + 1 \in 1 .. Len(t) /\ t[k + 1] = x <=>
                                   i + 1 \in 1 .. Len(s) /\ s[i + 1] = x
               /\ \A x, y \in Inner : k + 2 \in 1 .. Len(t) /\ t[k + 1] = x /\ t[k + 2] = y <=>
                                      i + 2 \in 1 .. Len(s) /\ s[i + 1] = x /\ s[i + 2] = y
        BY NextPieces
    <2>2. "invoke>" \in Inner /\ "/" \in Inner
        BY DEF Inner
    <2> HIDE DEF t
    <2> QED
        BY <2>1, <2>2 DEF Wrapped
<1>4. \A k \in 1 .. Len(t) : k \in Visible(t) <=> Nth(K, k) \in Visible(s)
    <2> SUFFICES ASSUME NEW k \in 1 .. Len(t)
                 PROVE  k \in Visible(t) <=> Nth(K, k) \in Visible(s)
        OBVIOUS
    <2> HIDE DEF t
    <2>1. Covered(t, k) <=> Wrapped(t, k)
        BY <1>2, WrappedFacts
    <2>2. Covered(s, Nth(K, k)) <=> Wrapped(s, Nth(K, k))
        BY <1>3, WrappedFacts
    <2>3. DOMAIN t = 1 .. Len(t) /\ DOMAIN s = 1 .. Len(s)
        BY <1>2, LenProperties
    <2>4. k \in Visible(t) <=> t[k] # "nl" /\ ~Covered(t, k)
        BY <2>3 DEF Visible, Inked, Covered
    <2>5. Nth(K, k) \in Visible(s) <=> s[Nth(K, k)] # "nl" /\ ~Covered(s, Nth(K, k))
        BY <1>3, <2>3 DEF Visible, Inked, Covered
    <2> QED
        BY <1>3, <2>1, <2>2, <2>4, <2>5
<1>5. Visible(s) \subseteq K
    BY LeavesOutFacts
<1>6. Chooses(Visible(t), s, K, Visible(s))
    <2>1. Visible(t) \subseteq 1 .. Len(t)
        <3> HIDE DEF t
        <3> QED
            BY <1>2, LenProperties DEF Visible, Inked
    <2> QED
        BY <1>0, <1>4, <1>5, <2>1 DEF Chooses
<1>7. Pick(Pick(s, K), Visible(t)) = Pick(s, Visible(s))
    BY ONLY s \in Seq(Pieces), <1>6, PickPick DEF t
<1> QED
    BY <1>7 DEF t, Ink, Visible

\* The tags of calls and reasoning.
Tags == {OpenCall, CloseThink, CloseCall}

LEMMA CloseCallHits ==
    ASSUME NEW s \in Seq(Pieces), NEW h
    PROVE  h \in Hits(s, CloseCall) <=>
               /\ h \in 1 .. Len(s) - 2
               /\ s[h] = "<" /\ s[h + 1] = "/" /\ s[h + 2] = "tool_call>"
<1>0. /\ CloseCall \in Seq(Pieces) /\ Len(CloseCall) = 3
      /\ CloseCall[1] = "<" /\ CloseCall[2] = "/" /\ CloseCall[3] = "tool_call>"
    BY DEF CloseCall, Pieces
<1>t. PICK tag \in Seq(Pieces) : tag = CloseCall
    BY <1>0
<1>1. Len(tag) = 3 /\ tag[1] = "<" /\ tag[2] = "/" /\ tag[3] = "tool_call>"
    BY <1>0, <1>t
<1>l. Len(s) \in Nat
    BY LenProperties
<1>2. h \in Hits(s, tag) <=>
          /\ h \in 1 .. Len(s) - Len(tag) + 1
          /\ \A k \in 1 .. Len(tag) : s[h + k - 1] = tag[k]
    BY ONLY s \in Seq(Pieces), tag \in Seq(Pieces), HitFacts
<1>3. h \in 1 .. Len(s) - Len(tag) + 1 <=> h \in 1 .. Len(s) - 2
    BY <1>1, <1>l
<1> SUFFICES ASSUME h \in 1 .. Len(s) - 2
             PROVE  (\A k \in 1 .. Len(tag) : s[h + k - 1] = tag[k]) <=>
                        s[h] = "<" /\ s[h + 1] = "/" /\ s[h + 2] = "tool_call>"
    BY <1>2, <1>3, <1>t
<1>4. (\A k \in 1 .. 3 : s[h + k - 1] = tag[k]) <=>
          s[h + 1 - 1] = tag[1] /\ s[h + 2 - 1] = tag[2] /\ s[h + 3 - 1] = tag[3]
    <2>1. 1 .. 3 = {1, 2, 3}
        OBVIOUS
    <2> QED
        BY <2>1
<1>5. h + 1 - 1 = h /\ h + 2 - 1 = h + 1 /\ h + 3 - 1 = h + 2
    BY <1>l
<1> QED
    BY <1>1, <1>4, <1>5

\* A tag in terms of the inner pieces that follow its first.
LEMMA TagHits ==
    ASSUME NEW s \in Seq(Pieces), NEW tag \in Tags, NEW h \in 1 .. Len(s)
    PROVE  h \in Hits(s, tag) <=>
               /\ s[h] = "<"
               /\ \/ /\ tag = OpenCall
                     /\ h + 1 \in 1 .. Len(s) /\ s[h + 1] = "tool_call>"
                  \/ /\ tag = CloseThink
                     /\ h + 2 \in 1 .. Len(s) /\ s[h + 1] = "/" /\ s[h + 2] = "think>"
                  \/ /\ tag = CloseCall
                     /\ h + 2 \in 1 .. Len(s) /\ s[h + 1] = "/" /\ s[h + 2] = "tool_call>"
<1>l. Len(s) \in Nat
    BY LenProperties
<1>0. OpenCall # CloseThink /\ OpenCall # CloseCall /\ CloseThink # CloseCall
    <2>1. OpenCall[2] = "tool_call>" /\ CloseThink[2] = "/" /\ CloseCall[2] = "/"
        BY DEF OpenCall, CloseThink, CloseCall
    <2>2. CloseThink[3] = "think>" /\ CloseCall[3] = "tool_call>"
        BY DEF CloseThink, CloseCall
    <2> QED
        BY ONLY <2>1, <2>2
<1>1. h \in 1 .. Len(s) - 1 <=> h + 1 \in 1 .. Len(s)
    BY <1>l
<1>2. h \in 1 .. Len(s) - 2 <=> h + 2 \in 1 .. Len(s)
    BY <1>l
<1>3. CASE tag = OpenCall
    BY <1>0, <1>1, <1>3, OpenCallHits
<1>4. CASE tag = CloseThink
    BY <1>0, <1>2, <1>4, CloseThinkHits
<1>5. CASE tag = CloseCall
    BY <1>0, <1>2, <1>5, CloseCallHits
<1> QED
    BY <1>3, <1>4, <1>5 DEF Tags

\* The tags stay where they are.
LEMMA HitsKept ==
    ASSUME NEW s \in Seq(Pieces), Unbroken(s), NEW K, LeavesOut(s, K), NEW tag \in Tags
    PROVE  /\ Hits(s, tag) \subseteq Visible(s)
           /\ \A k \in 1 .. Len(Pick(s, K)) : k \in Hits(Pick(s, K), tag) <=> Nth(K, k) \in Hits(s, tag)
<1> DEFINE t == Pick(s, K)
<1>l. Len(s) \in Nat /\ DOMAIN s = 1 .. Len(s)
    BY LenProperties
<1>1. t \in Seq(Pieces) /\ Unbroken(t)
    BY StaysUnbroken
<1>2. ASSUME NEW k \in 1 .. Len(t)
      PROVE  k \in Hits(t, tag) <=> Nth(K, k) \in Hits(s, tag)
    <2>1. LET i == Nth(K, k)
           IN  /\ i \in 1 .. Len(s) /\ t[k] = s[i]
               /\ \A x \in Inner : k + 1 \in 1 .. Len(t) /\ t[k + 1] = x <=>
                                   i + 1 \in 1 .. Len(s) /\ s[i + 1] = x
               /\ \A x, y \in Inner : k + 2 \in 1 .. Len(t) /\ t[k + 1] = x /\ t[k + 2] = y <=>
                                      i + 2 \in 1 .. Len(s) /\ s[i + 1] = x /\ s[i + 2] = y
        BY NextPieces
    <2>2. "tool_call>" \in Inner /\ "think>" \in Inner /\ "/" \in Inner
        BY DEF Inner
    <2> HIDE DEF t
    <2>3. k \in Hits(t, tag) <=>
               /\ t[k] = "<"
               /\ \/ /\ tag = OpenCall
                     /\ k + 1 \in 1 .. Len(t) /\ t[k + 1] = "tool_call>"
                  \/ /\ tag = CloseThink
                     /\ k + 2 \in 1 .. Len(t) /\ t[k + 1] = "/" /\ t[k + 2] = "think>"
                  \/ /\ tag = CloseCall
                     /\ k + 2 \in 1 .. Len(t) /\ t[k + 1] = "/" /\ t[k + 2] = "tool_call>"
        BY <1>1, TagHits
    <2> DEFINE i == Nth(K, k)
    <2>i. i \in 1 .. Len(s)
        BY <2>1
    <2> HIDE DEF i
    <2>4. i \in Hits(s, tag) <=>
               /\ s[i] = "<"
               /\ \/ /\ tag = OpenCall
                     /\ i + 1 \in 1 .. Len(s) /\ s[i + 1] = "tool_call>"
                  \/ /\ tag = CloseThink
                     /\ i + 2 \in 1 .. Len(s) /\ s[i + 1] = "/" /\ s[i + 2] = "think>"
                  \/ /\ tag = CloseCall
                     /\ i + 2 \in 1 .. Len(s) /\ s[i + 1] = "/" /\ s[i + 2] = "tool_call>"
        BY <2>i, TagHits
    <2> QED
        BY <2>1, <2>2, <2>3, <2>4 DEF i
<1>3. ASSUME NEW h \in Hits(s, tag)
      PROVE  h \in Visible(s)
    <2>1. h \in 1 .. Len(s)
        <3>1. CASE tag = OpenCall
            BY <1>l, <3>1, OpenCallHits
        <3>2. CASE tag = CloseThink
            BY <1>l, <3>2, CloseThinkHits
        <3>3. CASE tag = CloseCall
            BY <1>l, <3>3, CloseCallHits
        <3> QED
            BY <3>1, <3>2, <3>3 DEF Tags
    <2>2. /\ s[h] = "<"
          /\ s[h + 1] # "invoke>"
          /\ s[h + 1] = "/" => s[h + 2] # "invoke>"
        BY <2>1, TagHits
    <2>3. ~Wrapped(s, h)
        BY <2>2 DEF Wrapped
    <2>4. ~Covered(s, h)
        BY <2>1, <2>3, WrappedFacts
    <2> QED
        BY <1>l, <2>1, <2>2, <2>4 DEF Visible, Inked, Covered
<1> QED
    BY <1>2, <1>3

-----------------------------------------------------------------------------
(* Texts that follow each other.                                           *)

\* w is a and then b, as JoinFacts has it.
Joins(a, b, w) ==
    /\ w \in Seq(Pieces) /\ Len(a) \in Nat /\ Len(b) \in Nat /\ Len(w) = Len(a) + Len(b)
    /\ \A i \in 1 .. Len(a) : i \in 1 .. Len(w) /\ w[i] = a[i]
    /\ \A i \in 1 .. Len(b) : Len(a) + i \in 1 .. Len(w) /\ w[Len(a) + i] = b[i]
    /\ \A i \in 1 .. Len(w) : i \in 1 .. Len(a) \/ \E j \in 1 .. Len(b) : i = Len(a) + j

LEMMA JoinsFacts ==
    ASSUME NEW a \in Seq(Pieces), NEW b \in Seq(Pieces)
    PROVE  Joins(a, b, a \o b)
<1>1. /\ a \o b \in Seq(Pieces) /\ Len(a) \in Nat /\ Len(b) \in Nat
      /\ Len(a \o b) = Len(a) + Len(b)
      /\ \A i \in 1 .. Len(a) : (a \o b)[i] = a[i]
      /\ \A i \in 1 .. Len(b) : (a \o b)[Len(a) + i] = b[i]
    BY JoinFacts
<1>2. PICK w : w = a \o b
    OBVIOUS
<1>3. ASSUME NEW i \in 1 .. Len(w)
      PROVE  i \in 1 .. Len(a) \/ \E j \in 1 .. Len(b) : i = Len(a) + j
    <2>1. CASE i > Len(a)
        <3>1. i - Len(a) \in 1 .. Len(b) /\ i = Len(a) + (i - Len(a))
            BY <1>1, <1>2, <2>1
        <3> QED
            BY <3>1
    <2> QED
        BY <1>1, <1>2, <2>1
<1>4. /\ \A i \in 1 .. Len(a) : i \in 1 .. Len(w)
      /\ \A i \in 1 .. Len(b) : Len(a) + i \in 1 .. Len(w)
    BY <1>1, <1>2
<1>5. Joins(a, b, w)
    BY <1>1, <1>2, <1>3, <1>4 DEF Joins
<1> QED
    BY <1>2, <1>5

\* b does not begin inside a tag.
Begins(b) == Len(b) > 0 => b[1] \notin Inner

LEMMA UnbrokenBegins ==
    ASSUME NEW b \in Seq(Pieces), Unbroken(b)
    PROVE  Begins(b)
<1>1. Len(b) > 0 => 1 \in 1 .. Len(b)
    BY LenProperties
<1> QED
    BY <1>1 DEF Unbroken, Begins

\* Unbroken texts make an unbroken one, and come from one.
LEMMA UnbrokenParts ==
    ASSUME NEW a \in Seq(Pieces), NEW b \in Seq(Pieces)
    PROVE  /\ Unbroken(a) /\ Unbroken(b) => Unbroken(a \o b)
           /\ Unbroken(a \o b) => Unbroken(a)
           /\ Unbroken(a \o b) /\ Begins(b) => Unbroken(b)
<1>1. PICK w : w = a \o b
    OBVIOUS
<1>2. Joins(a, b, w)
    BY <1>1, JoinsFacts
<1>3. /\ w \in Seq(Pieces) /\ Len(a) \in Nat /\ Len(b) \in Nat /\ Len(w) = Len(a) + Len(b)
      /\ \A i \in 1 .. Len(a) : i \in 1 .. Len(w) /\ w[i] = a[i]
      /\ \A i \in 1 .. Len(b) : Len(a) + i \in 1 .. Len(w) /\ w[Len(a) + i] = b[i]
      /\ \A i \in 1 .. Len(w) : i \in 1 .. Len(a) \/ \E j \in 1 .. Len(b) : i = Len(a) + j
    BY <1>2 DEF Joins
<1> DEFINE Good(x) == IF x = "/" THEN {"<"} ELSE {"<", "/"}
<1> HIDE DEF Good
<1>d. \A s : Unbroken(s) <=> \A i \in 1 .. Len(s) : s[i] \in Inner => i > 1 /\ s[i - 1] \in Good(s[i])
    BY DEF Unbroken, Good
<1>4. ASSUME Unbroken(a), Unbroken(b)
      PROVE  Unbroken(w)
    <2> SUFFICES ASSUME NEW i \in 1 .. Len(w), w[i] \in Inner
                 PROVE  i > 1 /\ w[i - 1] \in Good(w[i])
        BY <1>d
    <2>1. CASE i \in 1 .. Len(a)
        <3>1. i > 1 /\ a[i - 1] \in Good(a[i])
            BY <1>3, <1>4, <1>d, <2>1
        <3>2. i - 1 \in 1 .. Len(a)
            BY <1>3, <2>1, <3>1
        <3> QED
            BY <1>3, <2>1, <3>1, <3>2
    <2>2. ASSUME NEW j \in 1 .. Len(b), i = Len(a) + j
          PROVE  i > 1 /\ w[i - 1] \in Good(w[i])
        <3>1. j > 1 /\ b[j - 1] \in Good(b[j])
            BY <1>3, <1>4, <1>d, <2>2
        <3>2. j - 1 \in 1 .. Len(b) /\ Len(a) + (j - 1) = i - 1 /\ i > 1
            BY <1>3, <2>2, <3>1
        <3>3. w[i - 1] = b[j - 1] /\ w[i] = b[j]
            BY <1>3, <2>2, <3>2
        <3> QED
            BY <3>1, <3>2, <3>3
    <2> QED
        BY <1>3, <2>1, <2>2
<1>5. ASSUME Unbroken(w)
      PROVE  Unbroken(a)
    <2> SUFFICES ASSUME NEW i \in 1 .. Len(a), a[i] \in Inner
                 PROVE  i > 1 /\ a[i - 1] \in Good(a[i])
        BY <1>d
    <2>1. i > 1 /\ w[i - 1] \in Good(w[i])
        BY <1>3, <1>5, <1>d
    <2>2. i - 1 \in 1 .. Len(a)
        BY <1>3, <2>1
    <2> QED
        BY <1>3, <2>1, <2>2
<1>6. ASSUME Unbroken(w), Begins(b)
      PROVE  Unbroken(b)
    <2> SUFFICES ASSUME NEW j \in 1 .. Len(b), b[j] \in Inner
                 PROVE  j > 1 /\ b[j - 1] \in Good(b[j])
        BY <1>d
    <2>1. j > 1
        BY <1>3, <1>6 DEF Begins
    <2>2. w[(Len(a) + j) - 1] \in Good(w[Len(a) + j])
        BY <1>3, <1>6, <1>d
    <2>3. j - 1 \in 1 .. Len(b) /\ Len(a) + (j - 1) = (Len(a) + j) - 1
        BY <1>3, <2>1
    <2> QED
        BY <1>3, <2>1, <2>2, <2>3
<1> QED
    BY <1>1, <1>4, <1>5, <1>6

\* What is visible of two unbroken texts.
LEMMA InkConcat ==
    ASSUME NEW a \in Seq(Pieces), NEW b \in Seq(Pieces), Unbroken(a), Unbroken(b)
    PROVE  Unbroken(a \o b) /\ Ink(a \o b) = Ink(a) \o Ink(b)
<1>1. PICK w : w = a \o b
    OBVIOUS
<1>2. Joins(a, b, w)
    BY <1>1, JoinsFacts
<1>3. /\ w \in Seq(Pieces) /\ Len(a) \in Nat /\ Len(b) \in Nat /\ Len(w) = Len(a) + Len(b)
      /\ \A i \in 1 .. Len(a) : i \in 1 .. Len(w) /\ w[i] = a[i]
      /\ \A i \in 1 .. Len(b) : Len(a) + i \in 1 .. Len(w) /\ w[Len(a) + i] = b[i]
      /\ \A i \in 1 .. Len(w) : i \in 1 .. Len(a) \/ \E j \in 1 .. Len(b) : i = Len(a) + j
    BY <1>2 DEF Joins
<1>4. Unbroken(w)
    BY <1>1, UnbrokenParts
<1>5. ASSUME NEW s \in Seq(Pieces), Unbroken(s)
      PROVE  /\ Visible(s) \subseteq 1 .. Len(s)
             /\ \A i \in 1 .. Len(s) : i \in Visible(s) <=> s[i] # "nl" /\ ~Wrapped(s, i)
    <2>1. DOMAIN s = 1 .. Len(s)
        BY LenProperties
    <2>2. ASSUME NEW i \in 1 .. Len(s)
          PROVE  Covered(s, i) <=> Wrapped(s, i)
        BY <1>5, WrappedFacts
    <2> QED
        BY <2>1, <2>2 DEF Visible, Inked, Covered
<1>b. Len(b) > 0 => b[1] # "invoke>" /\ b[1] # "/"
    BY UnbrokenBegins DEF Begins, Inner
<1>6. ASSUME NEW i \in 1 .. Len(a)
      PROVE  Wrapped(w, i) <=> Wrapped(a, i)
    <2>1. i + 1 \in 1 .. Len(a) => i + 1 \in 1 .. Len(w) /\ w[i + 1] = a[i + 1]
        BY <1>3
    <2>2. i + 2 \in 1 .. Len(a) => /\ i + 2 \in 1 .. Len(w) /\ w[i + 2] = a[i + 2]
                                   /\ w[i + 1] = a[i + 1]
        BY <1>3
    <2>3. ASSUME i + 1 \in 1 .. Len(w), i + 1 \notin 1 .. Len(a)
          PROVE  w[i + 1] # "invoke>" /\ w[i + 1] # "/"
        <3>1. i = Len(a) /\ 1 \in 1 .. Len(b)
            BY <1>3, <2>3
        <3>2. w[Len(a) + 1] = b[1]
            BY <1>3, <3>1
        <3> QED
            BY <1>3, <1>b, <3>1, <3>2
    <2>4. ASSUME i + 2 \in 1 .. Len(w), i + 2 \notin 1 .. Len(a)
          PROVE  w[i + 1] # "/" \/ w[i + 2] # "invoke>"
        <3>1. CASE i + 1 \in 1 .. Len(a)
            <4>1. i + 2 = Len(a) + 1 /\ 1 \in 1 .. Len(b)
                BY <1>3, <2>4, <3>1
            <4>2. w[Len(a) + 1] = b[1]
                BY <1>3, <4>1
            <4> QED
                BY <1>3, <1>b, <4>1, <4>2
        <3>2. CASE i + 1 \notin 1 .. Len(a)
            <4>1. i + 1 \in 1 .. Len(w)
                BY <1>3, <2>4
            <4> QED
                BY <2>3, <3>2, <4>1
        <3> QED
            BY <3>1, <3>2
    <2> QED
        BY <1>3, <2>1, <2>2, <2>3, <2>4 DEF Wrapped
<1>7. ASSUME NEW j \in 1 .. Len(b)
      PROVE  Wrapped(w, Len(a) + j) <=> Wrapped(b, j)
    <2>1. /\ j + 1 \in 1 .. Len(b) <=> (Len(a) + j) + 1 \in 1 .. Len(w)
          /\ j + 2 \in 1 .. Len(b) <=> (Len(a) + j) + 2 \in 1 .. Len(w)
        <3>1. PICK n \in Nat, m \in Nat : n = Len(a) /\ m = Len(b)
            BY ONLY <1>3
        <3>2. Len(w) = n + m /\ j \in 1 .. m
            BY ONLY <1>3, <3>1, j \in 1 .. Len(b)
        <3>3. j + 1 \in 1 .. m <=> (n + j) + 1 \in 1 .. n + m
            BY ONLY <3>2, n \in Nat, m \in Nat
        <3>4. j + 2 \in 1 .. m <=> (n + j) + 2 \in 1 .. n + m
            BY ONLY <3>2, n \in Nat, m \in Nat
        <3> QED
            BY ONLY <3>1, <3>2, <3>3, <3>4
    <2>2. /\ (Len(a) + j) + 1 = Len(a) + (j + 1) /\ (Len(a) + j) + 2 = Len(a) + (j + 2)
          /\ j + 2 \in 1 .. Len(b) => j + 1 \in 1 .. Len(b)
        BY <1>3
    <2>3. /\ j + 1 \in 1 .. Len(b) => w[(Len(a) + j) + 1] = b[j + 1]
          /\ j + 2 \in 1 .. Len(b) => w[(Len(a) + j) + 2] = b[j + 2]
          /\ w[Len(a) + j] = b[j]
        BY <1>3, <2>2
    <2> QED
        BY <2>1, <2>2, <2>3 DEF Wrapped
<1>8. ChoosesBoth(Visible(w), a, Visible(a), b, Visible(b))
    <2>1. Visible(a) \subseteq 1 .. Len(a) /\ Visible(b) \subseteq 1 .. Len(b)
        BY <1>5
    <2>2. Visible(w) \subseteq 1 .. Len(a) + Len(b)
        BY <1>3, <1>4, <1>5
    <2>3. ASSUME NEW i \in 1 .. Len(a)
          PROVE  i \in Visible(w) <=> i \in Visible(a)
        BY <1>3, <1>4, <1>5, <1>6
    <2>4. ASSUME NEW j \in 1 .. Len(b)
          PROVE  Len(a) + j \in Visible(w) <=> j \in Visible(b)
        BY <1>3, <1>4, <1>5, <1>7
    <2> QED
        BY <2>1, <2>2, <2>3, <2>4 DEF ChoosesBoth
<1>9. Pick(a \o b, Visible(w)) = Pick(a, Visible(a)) \o Pick(b, Visible(b))
    BY <1>8, PickConcat
<1> QED
    BY <1>1, <1>4, <1>9 DEF Ink, Visible

-----------------------------------------------------------------------------
(* A text that stands for another: with whatever precedes and follows it,  *)
(* it says the same.                                                       *)

LEMMA PiecesAssociate == \A x, y, z \in Seq(Pieces) : (x \o y) \o z = x \o (y \o z)
BY ONLY Reassociated, SMTT(60)

Associates(a, b, c) == (a \o b) \o c = a \o (b \o c)

LEMMA ThreeTexts ==
    ASSUME NEW a \in Seq(Pieces), NEW b \in Seq(Pieces), NEW c \in Seq(Pieces)
    PROVE  Associates(a, b, c)
<1>1. a \in Seq(Pieces) /\ b \in Seq(Pieces) /\ c \in Seq(Pieces)
    OBVIOUS
<1> QED
    BY ONLY <1>1, PiecesAssociate, Zenon DEF Associates

\* x, then a m b, then z: cut differently.
Recut(x, a, m, b, z) == x \o ((a \o (m \o b)) \o z) = (x \o a) \o (m \o (b \o z))

LEMMA FiveTexts ==
    ASSUME NEW x \in Seq(Pieces), NEW a \in Seq(Pieces), NEW m \in Seq(Pieces),
           NEW b \in Seq(Pieces), NEW z \in Seq(Pieces)
    PROVE  Recut(x, a, m, b, z)
<1>1. PICK mb \in Seq(Pieces) : mb = m \o b
    BY ConcatProperties
<1>2. PICK bz \in Seq(Pieces) : bz = b \o z
    BY ConcatProperties
<1>3. PICK mbz \in Seq(Pieces) : mbz = m \o bz
    BY ConcatProperties
<1>4. /\ Associates(a, mb, z) /\ Associates(m, b, z) /\ Associates(x, a, mbz)
    BY ThreeTexts
<1> QED
    BY ONLY <1>1, <1>2, <1>3, <1>4 DEF Associates, Recut

StandsFor(t, s) ==
    /\ s \in Seq(Pieces) /\ t \in Seq(Pieces)
    /\ \A x, z \in Seq(Pieces) :
          Unbroken(x \o (s \o z)) => /\ Unbroken(x \o (t \o z))
                                     /\ Ink(x \o (t \o z)) = Ink(x \o (s \o z))

LEMMA StandsAgain ==
    ASSUME NEW r, NEW s, NEW t, StandsFor(t, s), StandsFor(s, r)
    PROVE  StandsFor(t, r)
BY DEF StandsFor

LEMMA StandsItself ==
    ASSUME NEW s \in Seq(Pieces)
    PROVE  StandsFor(s, s)
BY DEF StandsFor

\* Also as a part of a longer text.
LEMMA StandsWithin ==
    ASSUME NEW s, NEW t, StandsFor(t, s), NEW a \in Seq(Pieces), NEW b \in Seq(Pieces)
    PROVE  StandsFor(a \o (t \o b), a \o (s \o b))
<1>1. /\ s \in Seq(Pieces) /\ t \in Seq(Pieces)
      /\ \A x, z \in Seq(Pieces) :
            Unbroken(x \o (s \o z)) => /\ Unbroken(x \o (t \o z))
                                       /\ Ink(x \o (t \o z)) = Ink(x \o (s \o z))
    BY DEF StandsFor
<1>3. ASSUME NEW x \in Seq(Pieces), NEW z \in Seq(Pieces),
             Unbroken(x \o ((a \o (s \o b)) \o z))
      PROVE  /\ Unbroken(x \o ((a \o (t \o b)) \o z))
             /\ Ink(x \o ((a \o (t \o b)) \o z)) = Ink(x \o ((a \o (s \o b)) \o z))
    <2>1. PICK xa \in Seq(Pieces) : xa = x \o a
        BY ConcatProperties
    <2>2. PICK bz \in Seq(Pieces) : bz = b \o z
        BY ConcatProperties
    <2>3. /\ x \o ((a \o (s \o b)) \o z) = xa \o (s \o bz)
          /\ x \o ((a \o (t \o b)) \o z) = xa \o (t \o bz)
        <3>1. Recut(x, a, s, b, z) /\ Recut(x, a, t, b, z)
            BY <1>1, FiveTexts
        <3> QED
            BY ONLY <2>1, <2>2, <3>1 DEF Recut
    <2>4. Unbroken(xa \o (s \o bz))
        BY <1>3, <2>3
    <2>5. /\ Unbroken(xa \o (t \o bz))
          /\ Ink(xa \o (t \o bz)) = Ink(xa \o (s \o bz))
        BY <1>1, <2>4
    <2> QED
        BY <2>3, <2>5
<1>4. a \o (t \o b) \in Seq(Pieces) /\ a \o (s \o b) \in Seq(Pieces)
    BY <1>1, ConcatProperties
<1> QED
    BY <1>3, <1>4 DEF StandsFor

LEMMA StandsFacts ==
    ASSUME NEW s, NEW t, StandsFor(t, s)
    PROVE  /\ s \in Seq(Pieces) /\ t \in Seq(Pieces)
           /\ Unbroken(s) => Unbroken(t) /\ Ink(t) = Ink(s)
           /\ \A a \in Seq(Pieces) : Unbroken(a \o s) => Unbroken(a \o t) /\ Ink(a \o t) = Ink(a \o s)
           /\ \A b \in Seq(Pieces) : Unbroken(s \o b) => Unbroken(t \o b) /\ Ink(t \o b) = Ink(s \o b)
<1>1. /\ s \in Seq(Pieces) /\ t \in Seq(Pieces) /\ <<>> \in Seq(Pieces)
      /\ \A x, z \in Seq(Pieces) :
            Unbroken(x \o (s \o z)) => /\ Unbroken(x \o (t \o z))
                                       /\ Ink(x \o (t \o z)) = Ink(x \o (s \o z))
    BY DEF StandsFor
<1>2. \A m \in Seq(Pieces) : m \o <<>> = m /\ <<>> \o m = m
    BY ConcatEmptySeq
<1>3. Unbroken(s) => Unbroken(t) /\ Ink(t) = Ink(s)
    <2>1. <<>> \o (s \o <<>>) = s /\ <<>> \o (t \o <<>>) = t
        BY <1>1, <1>2
    <2> QED
        BY <1>1, <2>1
<1>4. ASSUME NEW a \in Seq(Pieces)
      PROVE  Unbroken(a \o s) => Unbroken(a \o t) /\ Ink(a \o t) = Ink(a \o s)
    <2>1. a \o (s \o <<>>) = a \o s /\ a \o (t \o <<>>) = a \o t
        BY <1>1, <1>2
    <2> QED
        BY <1>1, <2>1
<1>5. ASSUME NEW b \in Seq(Pieces)
      PROVE  Unbroken(s \o b) => Unbroken(t \o b) /\ Ink(t \o b) = Ink(s \o b)
    <2>1. <<>> \o (s \o b) = s \o b /\ <<>> \o (t \o b) = t \o b
        BY <1>1, <1>2, ConcatProperties
    <2> QED
        BY <1>1, <2>1
<1> QED
    BY <1>1, <1>3, <1>4, <1>5

\* What is left out of two texts is left out of both together.
BothChosen(a, A, B) == A \cup {Len(a) + j : j \in B}

LEMMA BothFacts ==
    ASSUME NEW a \in Seq(Pieces), NEW b \in Seq(Pieces), NEW A, NEW B,
           LeavesOut(a, A), LeavesOut(b, B)
    PROVE  /\ ChoosesBoth(BothChosen(a, A, B), a, A, b, B)
           /\ LeavesOut(a \o b, BothChosen(a, A, B))
<1>1. PICK w : w = a \o b
    OBVIOUS
<1>2. Joins(a, b, w)
    BY <1>1, JoinsFacts
<1>3. /\ w \in Seq(Pieces) /\ Len(a) \in Nat /\ Len(b) \in Nat /\ Len(w) = Len(a) + Len(b)
      /\ \A i \in 1 .. Len(a) : i \in 1 .. Len(w) /\ w[i] = a[i]
      /\ \A i \in 1 .. Len(b) : Len(a) + i \in 1 .. Len(w) /\ w[Len(a) + i] = b[i]
      /\ \A i \in 1 .. Len(w) : i \in 1 .. Len(a) \/ \E j \in 1 .. Len(b) : i = Len(a) + j
    BY <1>2 DEF Joins
<1> DEFINE C == BothChosen(a, A, B)
<1>4. A \subseteq 1 .. Len(a) /\ B \subseteq 1 .. Len(b)
    BY DEF LeavesOut
<1>5. \A i \in 1 .. Len(a) : i \in C <=> i \in A
    BY <1>3, <1>4 DEF BothChosen
<1>6. \A j \in 1 .. Len(b) : Len(a) + j \in C <=> j \in B
    BY <1>3, <1>4 DEF BothChosen
<1>7. C \subseteq 1 .. Len(a) + Len(b)
    BY <1>3, <1>4 DEF BothChosen
<1> HIDE DEF C
<1>8. ChoosesBoth(C, a, A, b, B)
    BY <1>4, <1>5, <1>6, <1>7 DEF ChoosesBoth
<1>9. ASSUME NEW i \in 1 .. Len(a), i \notin C
      PROVE  \/ w[i] = "nl"
             \/ \E h, e \in 1 .. Len(w) : Wrap(w, h, e) /\ i \in h .. e /\ \A j \in h .. e : j \notin C
    <2>1. CASE a[i] = "nl"
        BY <1>3, <2>1
    <2>2. CASE a[i] # "nl"
        <3>1. PICK h \in 1 .. Len(a), e \in 1 .. Len(a) :
                  Wrap(a, h, e) /\ i \in h .. e /\ \A j \in h .. e : j \notin A
            BY <1>5, <1>9, <2>2 DEF LeavesOut
        <3>2. Wrap(w, h, e)
            <4>1. /\ a[h] = "<" /\ a[e] = "invoke>"
                  /\ e = h + 1 \/ (e = h + 2 /\ a[h + 1] = "/")
                BY <3>1 DEF Wrap
            <4>2. e = h + 2 => h + 1 \in 1 .. Len(a)
                BY <1>3
            <4> QED
                BY <1>3, <4>1, <4>2 DEF Wrap
        <3>3. \A j \in h .. e : j \in 1 .. Len(a)
            BY <1>3
        <3>4. \A j \in h .. e : j \notin C
            BY <1>5, <3>1, <3>3
        <3> QED
            BY <1>3, <3>1, <3>2, <3>4
    <2> QED
        BY <2>1, <2>2
<1>10. ASSUME NEW i \in 1 .. Len(b), Len(a) + i \notin C
       PROVE  \/ w[Len(a) + i] = "nl"
              \/ \E h, e \in 1 .. Len(w) :
                    Wrap(w, h, e) /\ Len(a) + i \in h .. e /\ \A j \in h .. e : j \notin C
    <2>1. CASE b[i] = "nl"
        BY <1>3, <2>1
    <2>2. CASE b[i] # "nl"
        <3>1. PICK h \in 1 .. Len(b), e \in 1 .. Len(b) :
                  Wrap(b, h, e) /\ i \in h .. e /\ \A j \in h .. e : j \notin B
            BY <1>6, <1>10, <2>2 DEF LeavesOut
        <3> DEFINE h2 == Len(a) + h   e2 == Len(a) + e
        <3>2. Wrap(w, h2, e2)
            <4>1. /\ b[h] = "<" /\ b[e] = "invoke>"
                  /\ e = h + 1 \/ (e = h + 2 /\ b[h + 1] = "/")
                BY <3>1 DEF Wrap
            <4>2. e = h + 2 => h + 1 \in 1 .. Len(b) /\ Len(a) + (h + 1) = h2 + 1
                BY <1>3
            <4>0. Len(a) \in Nat /\ h \in Nat
                BY <1>3
            <4>3. /\ e = h + 1 => e2 = h2 + 1
                  /\ e = h + 2 => e2 = h2 + 2
                BY ONLY <4>0
            <4> QED
                BY <1>3, <4>1, <4>2, <4>3 DEF Wrap
        <3>3. h2 \in 1 .. Len(w) /\ e2 \in 1 .. Len(w) /\ Len(a) + i \in h2 .. e2
            BY <1>3, <3>1
        <3>4. ASSUME NEW j \in h2 .. e2
              PROVE  j \notin C
            <4>1. j - Len(a) \in h .. e /\ j - Len(a) \in 1 .. Len(b) /\ Len(a) + (j - Len(a)) = j
                BY <1>3
            <4>2. j - Len(a) \notin B
                BY <3>1, <4>1
            <4> QED
                BY <1>6, <4>1, <4>2
        <3> QED
            BY <3>2, <3>3, <3>4
    <2> QED
        BY <2>1, <2>2
<1>11. LeavesOut(w, C)
    <2>1. ASSUME NEW i \in 1 .. Len(w), i \notin C
          PROVE  \/ w[i] = "nl"
                 \/ \E h, e \in 1 .. Len(w) :
                       Wrap(w, h, e) /\ i \in h .. e /\ \A j \in h .. e : j \notin C
        <3>1. CASE i \in 1 .. Len(a)
            BY <1>9, <2>1, <3>1
        <3>2. ASSUME NEW j \in 1 .. Len(b), i = Len(a) + j
              PROVE  \/ w[i] = "nl"
                     \/ \E h, e \in 1 .. Len(w) :
                           Wrap(w, h, e) /\ i \in h .. e /\ \A k \in h .. e : k \notin C
            BY <1>10, <2>1, <3>2
        <3> QED
            BY <1>3, <3>1, <3>2
    <2> QED
        BY <1>3, <1>7, <2>1 DEF LeavesOut
<1> QED
    BY <1>1, <1>8, <1>11 DEF C

LEMMA LeavesNothing ==
    ASSUME NEW s \in Seq(Pieces)
    PROVE  LeavesOut(s, 1 .. Len(s)) /\ Pick(s, 1 .. Len(s)) = s
BY PickWhole DEF LeavesOut

\* Leaving line breaks and wrappers out of a part.
LEMMA StandsPicked ==
    ASSUME NEW y \in Seq(Pieces), NEW K, LeavesOut(y, K)
    PROVE  StandsFor(Pick(y, K), y)
<1>1. K \subseteq 1 .. Len(y)
    BY DEF LeavesOut
<1>2. Pick(y, K) \in Seq(Pieces)
    <2>1. Picked(Pieces, y, K, Pick(y, K))
        BY <1>1, PickedFacts
    <2> QED
        BY <2>1 DEF Picked
<1>3. ASSUME NEW x \in Seq(Pieces), NEW z \in Seq(Pieces), Unbroken(x \o (y \o z))
      PROVE  /\ Unbroken(x \o (Pick(y, K) \o z))
             /\ Ink(x \o (Pick(y, K) \o z)) = Ink(x \o (y \o z))
    <2>0. PICK v \in Seq(Pieces) : v = y \o z
        BY ConcatProperties
    <2>1. PICK w \in Seq(Pieces) : w = x \o v
        BY ConcatProperties
    <2> DEFINE P == BothChosen(y, K, 1 .. Len(z))
               C == BothChosen(x, 1 .. Len(x), P)
    <2>2. /\ ChoosesBoth(P, y, K, z, 1 .. Len(z)) /\ LeavesOut(v, P)
        BY <2>0, BothFacts, LeavesNothing
    <2> HIDE DEF P
    <2>3. /\ ChoosesBoth(C, x, 1 .. Len(x), v, P) /\ LeavesOut(w, C)
        BY <2>1, <2>2, BothFacts, LeavesNothing
    <2> HIDE DEF C
    <2>4. Pick(v, P) = Pick(y, K) \o z
        <3>1. Pick(y \o z, P) = Pick(y, K) \o Pick(z, 1 .. Len(z))
            BY <2>2, PickConcat
        <3> QED
            BY <2>0, <3>1, PickWhole
    <2>5. Pick(w, C) = x \o (Pick(y, K) \o z)
        <3>1. Pick(x \o v, C) = Pick(x, 1 .. Len(x)) \o Pick(v, P)
            BY <2>3, PickConcat
        <3> QED
            BY <2>1, <2>4, <3>1, PickWhole
    <2>6. Unbroken(w)
        BY <1>3, <2>0, <2>1
    <2>7. Unbroken(Pick(w, C)) /\ Ink(Pick(w, C)) = Ink(w)
        BY <2>3, <2>6, StaysUnbroken, InkKept
    <2> QED
        BY <2>0, <2>1, <2>5, <2>7
<1> QED
    BY <1>2, <1>3 DEF StandsFor

-----------------------------------------------------------------------------
(* What the splitters and the parser strip.                                *)

Blank(s) == \A i \in 1 .. Len(s) : s[i] = "nl"

LEMMA BlankStands ==
    ASSUME NEW s \in Seq(Pieces), Blank(s)
    PROVE  StandsFor(<<>>, s)
<1>1. LeavesOut(s, {})
    BY DEF LeavesOut, Blank
<1>2. Pick(s, {}) = <<>>
    <2>1. Picked(Pieces, s, {}, Pick(s, {}))
        BY PickedFacts
    <2>2. Cardinality({}) = 0
        BY FS_EmptySet
    <2> QED
        BY <2>1, <2>2, EmptySeq DEF Picked
<1> QED
    BY <1>1, <1>2, StandsPicked

\* A line break is no part of a tag.
LEMMA RStripStands ==
    ASSUME NEW s \in Seq(Pieces)
    PROVE  StandsFor(RStrip(s), s)
<1>1. PICK k \in 0 .. Len(s) :
          /\ RStrip(s) = Upto(s, k + 1)
          /\ \A j \in k + 1 .. Len(s) : s[j] = "nl"
    BY RStripFacts
<1>2. Len(s) \in Nat
    BY LenProperties
<1>3. PICK i \in 1 .. Len(s) + 1 : i = k + 1
    BY <1>2
<1>4. /\ Upto(s, i) \in Seq(Pieces) /\ From(s, i) \in Seq(Pieces)
      /\ Len(From(s, i)) = Len(s) - i + 1
      /\ \A m \in 1 .. Len(s) - i + 1 : From(s, i)[m] = s[i + m - 1]
      /\ Upto(s, i) \o From(s, i) = s
    BY CutFacts
<1>5. PICK p \in Seq(Pieces) : p = Upto(s, i)
    BY <1>4
<1>6. PICK q \in Seq(Pieces) : q = From(s, i)
    BY <1>4
<1>7. Blank(q)
    <2> SUFFICES ASSUME NEW m \in 1 .. Len(q)
                 PROVE  q[m] = "nl"
        BY DEF Blank
    <2>1. m \in 1 .. Len(s) - i + 1 /\ i + m - 1 \in k + 1 .. Len(s)
        BY <1>2, <1>3, <1>4, <1>6
    <2> QED
        BY <1>1, <1>4, <1>6, <2>1
<1>8. StandsFor(<<>>, q)
    BY <1>7, BlankStands
<1>9. StandsFor(p \o (<<>> \o <<>>), p \o (q \o <<>>))
    BY <1>8, StandsWithin, EmptySeq
<1>10. p \o (<<>> \o <<>>) = p /\ p \o (q \o <<>>) = s
    <2>1. <<>> \o <<>> = <<>> /\ p \o <<>> = p /\ q \o <<>> = q
        BY ConcatEmptySeq, EmptySeq
    <2> QED
        BY <1>4, <1>5, <1>6, <2>1
<1> QED
    BY <1>1, <1>3, <1>5, <1>9, <1>10

LEMMA LStripStands ==
    ASSUME NEW s \in Seq(Pieces)
    PROVE  StandsFor(LStrip(s), s)
<1>1. PICK i \in 1 .. Len(s) + 1 :
          /\ LStrip(s) = From(s, i)
          /\ \A j \in 1 .. i - 1 : s[j] = "nl"
    BY LStripFacts
<1>2. Len(s) \in Nat
    BY LenProperties
<1>4. /\ Upto(s, i) \in Seq(Pieces) /\ From(s, i) \in Seq(Pieces)
      /\ Len(Upto(s, i)) = i - 1
      /\ \A m \in 1 .. i - 1 : Upto(s, i)[m] = s[m]
      /\ Upto(s, i) \o From(s, i) = s
    BY CutFacts
<1>5. PICK p \in Seq(Pieces) : p = Upto(s, i)
    BY <1>4
<1>6. PICK q \in Seq(Pieces) : q = From(s, i)
    BY <1>4
<1>7. Blank(p)
    BY <1>1, <1>4, <1>5 DEF Blank
<1>8. StandsFor(<<>>, p)
    BY <1>7, BlankStands
<1>9. StandsFor(<<>> \o (<<>> \o q), <<>> \o (p \o q))
    BY <1>8, StandsWithin, EmptySeq
<1>10. <<>> \o (<<>> \o q) = q /\ <<>> \o (p \o q) = s
    <2>1. <<>> \o q = q /\ <<>> \o s = s
        BY ConcatEmptySeq
    <2> QED
        BY <1>4, <1>5, <1>6, <2>1
<1> QED
    BY <1>1, <1>6, <1>9, <1>10

LEMMA StripStands ==
    ASSUME NEW s \in Seq(Pieces)
    PROVE  StandsFor(Strip(s), s)
<1>1. PICK r \in Seq(Pieces) : r = RStrip(s)
    BY RStripTypes
<1>2. StandsFor(r, s) /\ StandsFor(LStrip(r), r)
    BY <1>1, RStripStands, LStripStands
<1> QED
    BY <1>1, <1>2, StandsAgain DEF Strip

\* Where a wrapper's tag is, the wrapper is.
LEMMA WrapHits ==
    ASSUME NEW s \in Seq(Pieces), NEW tag \in Wrappers, NEW h \in Hits(s, tag)
    PROVE  /\ h \in 1 .. Len(s) /\ h + Len(tag) - 1 \in 1 .. Len(s)
           /\ Wrap(s, h, h + Len(tag) - 1)
<1>l. Len(s) \in Nat
    BY LenProperties
<1>1. CASE tag = Invoke
    <2>1. h \in 1 .. Len(s) - 1 /\ s[h] = "<" /\ s[h + 1] = "invoke>"
        BY <1>1, WrapperHits
    <2>2. h + Len(tag) - 1 = h + 1
        BY <1>1, <2>1, <1>l, TagsAreTexts
    <2> QED
        BY <1>l, <2>1, <2>2 DEF Wrap
<1>2. CASE tag = EndInvoke
    <2>1. h \in 1 .. Len(s) - 2 /\ s[h] = "<" /\ s[h + 1] = "/" /\ s[h + 2] = "invoke>"
        BY <1>2, WrapperHits
    <2>2. h + Len(tag) - 1 = h + 2
        BY <1>2, <2>1, <1>l, TagsAreTexts
    <2> QED
        BY <1>l, <2>1, <2>2 DEF Wrap
<1> QED
    BY <1>1, <1>2 DEF Wrappers

LEMMA DropTagStands ==
    ASSUME NEW s \in Seq(Pieces), NEW tag \in Wrappers
    PROVE  StandsFor(DropTag(s, tag), s)
<1> DEFINE K == {i \in DOMAIN s : ~Inside(s, i, tag)}
<1>1. DOMAIN s = 1 .. Len(s)
    BY LenProperties
<1>2. ASSUME NEW i \in 1 .. Len(s), i \notin K
      PROVE  \E h, e \in 1 .. Len(s) : Wrap(s, h, e) /\ i \in h .. e /\ \A j \in h .. e : j \notin K
    <2>1. PICK h \in Hits(s, tag) : i \in h .. h + Len(tag) - 1
        BY <1>1, <1>2 DEF Inside
    <2> DEFINE e == h + Len(tag) - 1
    <2>2. h \in 1 .. Len(s) /\ e \in 1 .. Len(s) /\ Wrap(s, h, e)
        BY WrapHits
    <2>3. \A j \in h .. e : j \notin K
        BY DEF Inside
    <2> HIDE DEF e, K
    <2>4. i \in h .. e
        BY <2>1 DEF e
    <2> QED
        BY <2>2, <2>3, <2>4
<1>3. LeavesOut(s, K)
    <2>1. K \subseteq 1 .. Len(s)
        BY <1>1
    <2> HIDE DEF K
    <2> QED
        BY <1>2, <2>1 DEF LeavesOut
<1>4. StandsFor(Pick(s, K), s)
    <2> HIDE DEF K
    <2> QED
        BY <1>3, StandsPicked
<1> QED
    BY <1>4 DEF DropTag

LEMMA DropStands ==
    ASSUME NEW s \in Seq(Pieces)
    PROVE  StandsFor(DropWrappers(s), s)
<1>0. Invoke \in Wrappers /\ EndInvoke \in Wrappers
    BY DEF Wrappers
<1>1. PICK r \in Seq(Pieces) : r = DropTag(s, Invoke)
    BY <1>0, DropTagFacts
<1>2. StandsFor(r, s) /\ StandsFor(DropTag(r, EndInvoke), r)
    BY <1>0, <1>1, DropTagStands
<1> QED
    BY <1>1, <1>2, StandsAgain DEF DropWrappers

LEMMA StripNoiseStands ==
    ASSUME NEW s \in Seq(Pieces)
    PROVE  StandsFor(StripNoise(s), s)
<1> DEFINE K == {i \in DOMAIN s : ~Noise(s, i)}
<1>1. Len(s) \in Nat /\ DOMAIN s = 1 .. Len(s)
    BY LenProperties
<1>2. ASSUME NEW i \in 1 .. Len(s), i \notin K, s[i] # "nl"
      PROVE  \E h, e \in 1 .. Len(s) : Wrap(s, h, e) /\ i \in h .. e /\ \A j \in h .. e : j \notin K
    <2>0. PICK tag \in Wrappers : \E h \in Hits(s, tag) :
              i >= h /\ \A j \in h + Len(tag) .. i : s[j] = "nl"
        BY <1>1, <1>2 DEF Noise
    <2>1. PICK h \in Hits(s, tag) : i >= h /\ \A j \in h + Len(tag) .. i : s[j] = "nl"
        BY <2>0
    <2> DEFINE e == h + Len(tag) - 1
    <2>2. h \in 1 .. Len(s) /\ e \in 1 .. Len(s) /\ Wrap(s, h, e)
        BY WrapHits
    <2>l. Len(tag) \in Nat
        BY TagsAreTexts DEF Wrappers
    <2>3. i \in h .. e
        <3>1. ASSUME i > e
              PROVE  FALSE
            <4>1. i \in h + Len(tag) .. i
                BY <1>1, <2>2, <2>l, <3>1
            <4> QED
                BY <1>2, <2>1, <4>1
        <3> QED
            BY <1>1, <2>1, <2>2, <3>1
    <2>4. ASSUME NEW j \in h .. e
          PROVE  j \notin K
        <3>1. j >= h /\ h + Len(tag) .. j = {}
            BY <1>1, <2>2, <2>l
        <3>2. Noise(s, j)
            BY <3>1 DEF Noise
        <3> QED
            BY <3>2
    <2> HIDE DEF e, K
    <2> QED
        BY <2>2, <2>3, <2>4
<1>3. LeavesOut(s, K)
    <2>1. K \subseteq 1 .. Len(s)
        BY <1>1
    <2> HIDE DEF K
    <2> QED
        BY <1>2, <2>1 DEF LeavesOut
<1>4. StandsFor(Pick(s, K), s)
    <2> HIDE DEF K
    <2> QED
        BY <1>3, StandsPicked
<1>5. Pick(s, K) \in Seq(Pieces)
    BY <1>4 DEF StandsFor
<1> HIDE DEF K
<1>6. StandsFor(RStrip(Pick(s, K)), Pick(s, K))
    BY <1>5, RStripStands
<1>7. StandsFor(RStrip(Pick(s, K)), s)
    BY <1>4, <1>6, StandsAgain
<1> QED
    BY <1>7 DEF StripNoise, K

-----------------------------------------------------------------------------
(* Tags in what a text says.                                               *)

\* A tag is a "<" and then inner pieces, the last of which begins nothing.
TagShape(tag) ==
    /\ tag \in Seq(Pieces) /\ Len(tag) \in {2, 3} /\ tag # <<>>
    /\ tag[1] = "<" /\ tag[Len(tag)] \notin {"<", "/"}
    /\ \A j \in 2 .. Len(tag) : tag[j] \in Inner
    /\ \A j \in 1 .. Len(tag) : tag[j] \notin {"nl", "invoke>"}

LEMMA TagShapes ==
    ASSUME NEW tag \in Tags
    PROVE  TagShape(tag) /\ Unbroken(tag)
<1>1. 2 .. 2 = {2} /\ 2 .. 3 = {2, 3} /\ 1 .. 2 = {1, 2} /\ 1 .. 3 = {1, 2, 3}
    OBVIOUS
<1>2. TagShape(OpenCall) /\ Unbroken(OpenCall)
    <2>1. OpenCall \in Seq(Pieces) /\ Len(OpenCall) = 2 /\ OpenCall # <<>>
        BY TagsAreTexts
    <2>2. OpenCall[1] = "<" /\ OpenCall[2] = "tool_call>"
        BY DEF OpenCall
    <2> QED
        BY <1>1, <2>1, <2>2 DEF TagShape, Unbroken, Inner
<1>3. TagShape(CloseThink) /\ Unbroken(CloseThink)
    <2>1. CloseThink \in Seq(Pieces) /\ Len(CloseThink) = 3 /\ CloseThink # <<>>
        BY TagsAreTexts
    <2>2. CloseThink[1] = "<" /\ CloseThink[2] = "/" /\ CloseThink[3] = "think>"
        BY DEF CloseThink
    <2> QED
        BY <1>1, <2>1, <2>2 DEF TagShape, Unbroken, Inner
<1>4. TagShape(CloseCall) /\ Unbroken(CloseCall)
    <2>1. CloseCall \in Seq(Pieces) /\ Len(CloseCall) = 3 /\ CloseCall # <<>>
        BY DEF CloseCall, Pieces
    <2>2. CloseCall[1] = "<" /\ CloseCall[2] = "/" /\ CloseCall[3] = "tool_call>"
        BY DEF CloseCall
    <2> QED
        BY <1>1, <2>1, <2>2 DEF TagShape, Unbroken, Inner
<1> QED
    BY <1>2, <1>3, <1>4 DEF Tags

LEMMA InkTag ==
    ASSUME NEW tag \in Tags
    PROVE  Ink(tag) = tag
<1>1. TagShape(tag) /\ Unbroken(tag)
    BY TagShapes
<1>2. tag \in Seq(Pieces) /\ \A j \in 1 .. Len(tag) : tag[j] \notin {"nl", "invoke>"}
    BY <1>1 DEF TagShape
<1>3. Visible(tag) = 1 .. Len(tag)
    <2>1. DOMAIN tag = 1 .. Len(tag)
        BY <1>2, LenProperties
    <2>2. ASSUME NEW i \in 1 .. Len(tag)
          PROVE  ~Covered(tag, i)
        <3>1. ~Wrapped(tag, i)
            BY <1>2 DEF Wrapped
        <3> QED
            BY <1>1, <1>2, <3>1, WrappedFacts
    <2> QED
        BY <1>2, <2>1, <2>2 DEF Visible, Inked, Covered
<1> QED
    BY <1>2, <1>3, PickWhole DEF Ink, Visible

\* Cutting where two texts meet.
LEMMA CutJoin ==
    ASSUME NEW T, NEW a \in Seq(T), NEW b \in Seq(T)
    PROVE  Upto(a \o b, Len(a) + 1) = a /\ From(a \o b, Len(a) + 1) = b
<1>1. PICK w \in Seq(T) : w = a \o b
    BY ConcatProperties
<1>2. /\ Len(a) \in Nat /\ Len(b) \in Nat /\ Len(w) = Len(a) + Len(b)
      /\ \A i \in 1 .. Len(a) : w[i] = a[i]
      /\ \A i \in 1 .. Len(b) : w[Len(a) + i] = b[i]
    BY ONLY <1>1, a \in Seq(T), b \in Seq(T), JoinFacts
<1>3. PICK m \in 1 .. Len(w) + 1 : m = Len(a) + 1
    BY <1>2
<1>4. /\ Upto(w, m) \in Seq(T) /\ Len(Upto(w, m)) = m - 1
      /\ \A k \in 1 .. m - 1 : Upto(w, m)[k] = w[k]
      /\ From(w, m) \in Seq(T) /\ Len(From(w, m)) = Len(w) - m + 1
      /\ \A k \in 1 .. Len(w) - m + 1 : From(w, m)[k] = w[m + k - 1]
    BY CutFacts
<1>5. Upto(w, m) = a
    <2>1. Len(Upto(w, m)) = Len(a) /\ \A k \in 1 .. Len(a) : Upto(w, m)[k] = a[k]
        BY <1>2, <1>3, <1>4
    <2> QED
        BY <1>4, <2>1, SeqEqual
<1>6. From(w, m) = b
    <2>1. Len(From(w, m)) = Len(b)
        BY <1>2, <1>3, <1>4
    <2>2. \A k \in 1 .. Len(b) : From(w, m)[k] = b[k]
        <3>1. \A k \in 1 .. Len(b) : k \in 1 .. Len(w) - m + 1 /\ m + k - 1 = Len(a) + k
            BY <1>2, <1>3
        <3> QED
            BY <1>2, <1>4, <3>1
    <2> QED
        BY <1>4, <2>1, <2>2, SeqEqual
<1> QED
    BY <1>1, <1>3, <1>5, <1>6

\* The tags of two texts, the second of which does not begin inside one.
LEMMA HitsJoin ==
    ASSUME NEW a \in Seq(Pieces), NEW b \in Seq(Pieces), Begins(b), NEW tag \in Tags
    PROVE  /\ \A h \in Hits(a \o b, tag) : \/ h \in Hits(a, tag)
                                           \/ h - Len(a) \in Hits(b, tag)
           /\ \A h \in Hits(a, tag) : h \in Hits(a \o b, tag)
           /\ \A h \in Hits(b, tag) : Len(a) + h \in Hits(a \o b, tag)
<1>1. PICK w : w = a \o b
    OBVIOUS
<1>2. Joins(a, b, w)
    BY <1>1, JoinsFacts
<1>3. /\ w \in Seq(Pieces) /\ Len(a) \in Nat /\ Len(b) \in Nat /\ Len(w) = Len(a) + Len(b)
      /\ \A i \in 1 .. Len(a) : i \in 1 .. Len(w) /\ w[i] = a[i]
      /\ \A i \in 1 .. Len(b) : Len(a) + i \in 1 .. Len(w) /\ w[Len(a) + i] = b[i]
    BY <1>2 DEF Joins
<1>4. /\ tag \in Seq(Pieces) /\ Len(tag) \in {2, 3}
      /\ \A j \in 2 .. Len(tag) : tag[j] \in Inner
    BY TagShapes DEF TagShape
<1>5. ASSUME NEW s \in Seq(Pieces), NEW h
      PROVE  h \in Hits(s, tag) <=>
                 /\ h \in 1 .. Len(s) - Len(tag) + 1
                 /\ \A k \in 1 .. Len(tag) : s[h + k - 1] = tag[k]
    BY ONLY s \in Seq(Pieces), <1>4, HitFacts
<1>6. ASSUME NEW h \in Hits(w, tag)
      PROVE  h \in Hits(a, tag) \/ h - Len(a) \in Hits(b, tag)
    <2>0. /\ h \in 1 .. Len(w) - Len(tag) + 1
          /\ \A k \in 1 .. Len(tag) : w[h + k - 1] = tag[k]
        BY <1>3, <1>5
    <2>1. CASE h + Len(tag) - 1 <= Len(a)
        <3>1. h \in 1 .. Len(a) - Len(tag) + 1
            BY <1>3, <1>4, <2>0, <2>1
        <3>2. ASSUME NEW k \in 1 .. Len(tag)
              PROVE  a[h + k - 1] = tag[k]
            <4>1. h + k - 1 \in 1 .. Len(a)
                BY <1>3, <1>4, <2>0, <2>1
            <4> QED
                BY <1>3, <2>0, <4>1
        <3> QED
            BY <1>5, <3>1, <3>2
    <2>2. CASE h > Len(a)
        <3>1. h - Len(a) \in 1 .. Len(b) - Len(tag) + 1
            BY <1>3, <1>4, <2>0, <2>2
        <3>2. ASSUME NEW k \in 1 .. Len(tag)
              PROVE  b[(h - Len(a)) + k - 1] = tag[k]
            <4>1. /\ (h - Len(a)) + k - 1 \in 1 .. Len(b)
                  /\ Len(a) + ((h - Len(a)) + k - 1) = h + k - 1
                BY <1>3, <1>4, <2>0, <2>2
            <4> QED
                BY <1>3, <2>0, <4>1
        <3> QED
            BY <1>5, <3>1, <3>2
    <2>3. CASE h <= Len(a) /\ h + Len(tag) - 1 > Len(a)
        <3> DEFINE k == Len(a) + 2 - h
        <3>1. k \in 2 .. Len(tag) /\ k \in 1 .. Len(tag) /\ h + k - 1 = Len(a) + 1
            BY <1>3, <1>4, <2>0, <2>3
        <3>2. 1 \in 1 .. Len(b)
            BY <1>3, <1>4, <2>0, <2>3
        <3>3. w[Len(a) + 1] = b[1] /\ w[h + k - 1] = tag[k] /\ tag[k] \in Inner
            BY <1>3, <1>4, <2>0, <3>1, <3>2
        <3> QED
            BY <3>1, <3>2, <3>3 DEF Begins
    <2> QED
        BY <1>3, <1>4, <2>0, <2>1, <2>2, <2>3
<1>7. ASSUME NEW h \in Hits(a, tag)
      PROVE  h \in Hits(w, tag)
    <2>0. /\ h \in 1 .. Len(a) - Len(tag) + 1
          /\ \A k \in 1 .. Len(tag) : a[h + k - 1] = tag[k]
        BY <1>5
    <2>1. h \in 1 .. Len(w) - Len(tag) + 1
        BY <1>3, <1>4, <2>0
    <2>2. ASSUME NEW k \in 1 .. Len(tag)
          PROVE  w[h + k - 1] = tag[k]
        <3>1. h + k - 1 \in 1 .. Len(a)
            BY <1>3, <1>4, <2>0
        <3> QED
            BY <1>3, <2>0, <3>1
    <2> QED
        BY <1>3, <1>5, <2>1, <2>2
<1>8. ASSUME NEW h \in Hits(b, tag)
      PROVE  Len(a) + h \in Hits(w, tag)
    <2>0. /\ h \in 1 .. Len(b) - Len(tag) + 1
          /\ \A k \in 1 .. Len(tag) : b[h + k - 1] = tag[k]
        BY <1>5
    <2>1. Len(a) + h \in 1 .. Len(w) - Len(tag) + 1
        BY <1>3, <1>4, <2>0
    <2>2. ASSUME NEW k \in 1 .. Len(tag)
          PROVE  w[(Len(a) + h) + k - 1] = tag[k]
        <3>1. h + k - 1 \in 1 .. Len(b) /\ Len(a) + (h + k - 1) = (Len(a) + h) + k - 1
            BY <1>3, <1>4, <2>0
        <3> QED
            BY <1>3, <2>0, <3>1
    <2> QED
        BY <1>3, <1>5, <2>1, <2>2
<1> QED
    BY <1>1, <1>6, <1>7, <1>8

\* The parts of an unbroken text before, at and behind a tag are unbroken.
LEMMA CutUnbroken ==
    ASSUME NEW s \in Seq(Pieces), Unbroken(s), NEW tag \in Tags, NEW h \in Hits(s, tag)
    PROVE  /\ h \in 1 .. Len(s) + 1 /\ h + Len(tag) \in 1 .. Len(s) + 1
           /\ Upto(s, h) \in Seq(Pieces) /\ Unbroken(Upto(s, h)) /\ Len(Upto(s, h)) = h - 1
           /\ From(s, h) \in Seq(Pieces) /\ Unbroken(From(s, h))
           /\ From(s, h + Len(tag)) \in Seq(Pieces) /\ Unbroken(From(s, h + Len(tag)))
           /\ s = Upto(s, h) \o From(s, h)
           /\ From(s, h) = tag \o From(s, h + Len(tag))
<1>1. TagShape(tag) /\ Unbroken(tag)
    BY TagShapes
<1>2. /\ tag \in Seq(Pieces) /\ Len(tag) \in {2, 3}
      /\ tag[1] = "<" /\ tag[Len(tag)] \notin {"<", "/"}
    BY <1>1 DEF TagShape
<1>3. /\ h \in 1 .. Len(s) - Len(tag) + 1
      /\ \A k \in 1 .. Len(tag) : s[h + k - 1] = tag[k]
    BY ONLY s \in Seq(Pieces), h \in Hits(s, tag), <1>2, HitFacts
<1>l. Len(s) \in Nat
    BY LenProperties
<1>4. h \in 1 .. Len(s) + 1 /\ h \in 1 .. Len(s) /\ h + Len(tag) \in 1 .. Len(s) + 1
    BY <1>2, <1>3, <1>l
<1>5. PICK e \in 1 .. Len(s) + 1 : e = h + Len(tag)
    BY <1>4
<1>6. /\ Upto(s, h) \in Seq(Pieces) /\ Len(Upto(s, h)) = h - 1
      /\ From(s, h) \in Seq(Pieces) /\ Len(From(s, h)) = Len(s) - h + 1
      /\ \A k \in 1 .. Len(s) - h + 1 : From(s, h)[k] = s[h + k - 1]
      /\ Upto(s, h) \o From(s, h) = s
    BY <1>4, CutFacts
<1>7. /\ From(s, e) \in Seq(Pieces) /\ Len(From(s, e)) = Len(s) - e + 1
      /\ \A k \in 1 .. Len(s) - e + 1 : From(s, e)[k] = s[e + k - 1]
    BY CutFacts
<1>8. PICK t \in Seq(Pieces) : t = From(s, h)
    BY <1>6
<1>9. PICK r \in Seq(Pieces) : r = From(s, e)
    BY <1>7
<1>10. t = tag \o r
    <2>1. PICK w \in Seq(Pieces) : w = tag \o r
        BY <1>2, ConcatProperties
    <2>2. Joins(tag, r, w)
        BY <1>2, <2>1, JoinsFacts
    <2>3. /\ Len(r) \in Nat /\ Len(w) = Len(tag) + Len(r)
          /\ \A i \in 1 .. Len(tag) : w[i] = tag[i]
          /\ \A i \in 1 .. Len(r) : w[Len(tag) + i] = r[i]
          /\ \A i \in 1 .. Len(w) : i \in 1 .. Len(tag) \/ \E j \in 1 .. Len(r) : i = Len(tag) + j
        BY <2>2 DEF Joins
    <2>4. Len(t) = Len(w)
        BY <1>2, <1>5, <1>6, <1>7, <1>8, <1>9, <1>l, <1>4, <2>3
    <2>5. \A i \in 1 .. Len(tag) : t[i] = w[i]
        <3>1. \A i \in 1 .. Len(tag) : i \in 1 .. Len(s) - h + 1
            BY <1>2, <1>3, <1>l
        <3> QED
            BY <1>3, <1>6, <1>8, <2>3, <3>1
    <2>6. \A j \in 1 .. Len(r) : t[Len(tag) + j] = w[Len(tag) + j]
        <3> SUFFICES ASSUME NEW j \in 1 .. Len(r)
                     PROVE  t[Len(tag) + j] = w[Len(tag) + j]
            OBVIOUS
        <3>1. /\ j \in 1 .. Len(s) - e + 1
              /\ Len(tag) + j \in 1 .. Len(s) - h + 1
              /\ h + (Len(tag) + j) - 1 = e + j - 1
            BY <1>2, <1>3, <1>5, <1>7, <1>9, <1>l
        <3>2. t[Len(tag) + j] = s[e + j - 1]
            BY <1>6, <1>8, <3>1
        <3>3. r[j] = s[e + j - 1]
            BY <1>7, <1>9, <3>1
        <3> QED
            BY <2>3, <3>2, <3>3
    <2>7. \A i \in 1 .. Len(t) : t[i] = w[i]
        <3> SUFFICES ASSUME NEW i \in 1 .. Len(t)
                     PROVE  t[i] = w[i]
            OBVIOUS
        <3>1. i \in 1 .. Len(tag) \/ \E j \in 1 .. Len(r) : i = Len(tag) + j
            BY ONLY <2>3, <2>4, i \in 1 .. Len(t)
        <3> QED
            BY ONLY <2>5, <2>6, <3>1
    <2>8. t = w
        BY <2>4, <2>7, SeqEqual
    <2> QED
        BY <2>1, <2>8
<1>11. Unbroken(Upto(s, h)) /\ Unbroken(t)
    <2>1. PICK p \in Seq(Pieces) : p = Upto(s, h)
        BY <1>6
    <2>2. Begins(t)
        <3>1. Len(t) > 0 => t[1] = s[h]
            <4>1. PICK k \in Nat : k = 1
                OBVIOUS
            <4>2. \A j \in 1 .. Len(s) - h + 1 : t[j] = s[h + j - 1]
                BY ONLY <1>6, <1>8
            <4>3. Len(t) = Len(s) - h + 1
                BY ONLY <1>6, <1>8
            <4>4. ASSUME Len(t) > 0
                  PROVE  k \in 1 .. Len(s) - h + 1 /\ h + k - 1 = h
                BY ONLY <4>1, <4>3, <4>4, <1>4, <1>l
            <4>5. ASSUME Len(t) > 0
                  PROVE  t[k] = s[h]
                BY <4>2, <4>4, <4>5
            <4> QED
                BY <4>1, <4>5
        <3>2. s[h] = "<"
            <4>1. 1 \in 1 .. Len(tag) /\ h + 1 - 1 = h
                BY <1>2, <1>4
            <4> QED
                BY <1>2, <1>3, <4>1
        <3> QED
            BY <3>1, <3>2 DEF Begins, Inner
    <2>3. p \o t = s
        BY <1>6, <1>8, <2>1
    <2>4. Unbroken(p \o t)
        BY <2>3
    <2> QED
        BY <2>1, <2>2, <2>4, UnbrokenParts
<1>12. Unbroken(r)
    <2>1. Begins(r)
        <3>1. SUFFICES ASSUME Len(r) > 0, r[1] \in Inner
                       PROVE  FALSE
            BY DEF Begins
        <3>2. e \in 1 .. Len(s) /\ r[1] = s[e] /\ s[e - 1] = tag[Len(tag)]
            <4>1. e \in 1 .. Len(s) /\ 1 \in 1 .. Len(s) - e + 1 /\ e + 1 - 1 = e
                BY <1>7, <1>9, <1>l, <3>1
            <4>2. Len(tag) \in 1 .. Len(tag) /\ h + Len(tag) - 1 = e - 1
                BY <1>2, <1>4, <1>5
            <4> QED
                BY <1>3, <1>7, <1>9, <4>1, <4>2
        <3>3. s[e - 1] \in {"<", "/"}
            BY <3>1, <3>2, UnbrokenFacts
        <3> QED
            BY <1>2, <3>2, <3>3
    <2>2. Unbroken(tag \o r)
        BY <1>10, <1>11
    <2> QED
        BY <1>2, <2>1, <2>2, UnbrokenParts
<1> QED
    BY <1>4, <1>5, <1>6, <1>8, <1>9, <1>10, <1>11, <1>12

HasTag(s, tag, h) == /\ h \in 1 .. Len(s) - Len(tag) + 1
                     /\ \A k \in 1 .. Len(tag) : s[h + k - 1] = tag[k]

LEMMA TagPlace ==
    ASSUME NEW s \in Seq(Pieces), NEW tag \in Tags, NEW h
    PROVE  /\ h \in Hits(s, tag) <=> HasTag(s, tag, h)
           /\ h \in Hits(s, tag) => h \in 1 .. Len(s)
<1>1. tag \in Seq(Pieces) /\ Len(tag) \in {2, 3}
    BY TagShapes DEF TagShape
<1>2. h \in Hits(s, tag) <=> HasTag(s, tag, h)
    BY ONLY s \in Seq(Pieces), <1>1, HitFacts DEF HasTag
<1>3. ASSUME HasTag(s, tag, h)
      PROVE  h \in 1 .. Len(s)
    <2>1. h \in 1 .. Len(s) - Len(tag) + 1
        BY <1>3 DEF HasTag
    <2>2. Len(s) \in Nat
        BY LenProperties
    <2>3. PICK n \in Nat : n = Len(s)
        BY <2>2
    <2>4. PICK l \in {2, 3} : l = Len(tag)
        BY <1>1
    <2>5. h \in 1 .. n - l + 1
        BY ONLY <2>1, <2>3, <2>4
    <2>6. h \in 1 .. n
        BY ONLY <2>5, n \in Nat, l \in {2, 3}
    <2> QED
        BY ONLY <2>3, <2>6
<1> QED
    BY <1>2, <1>3

LEMMA FirstFacts ==
    ASSUME NEW s \in Seq(Pieces), NEW tag \in Tags
    PROVE  /\ Find(s, tag) \in 0 .. Len(s)
           /\ Find(s, tag) = 0 <=> Hits(s, tag) = {}
           /\ Find(s, tag) # 0 => Find(s, tag) \in Hits(s, tag)
           /\ \A h \in Hits(s, tag) : Find(s, tag) <= h
<1>1. tag \in Seq(Pieces) /\ tag # <<>>
    BY TagShapes DEF TagShape
<1> QED
    BY ONLY s \in Seq(Pieces), <1>1, FindFacts

\* A text that is cut at its first tag into p and, behind the tag, q.
CutFirst(w, tag, p, q) == /\ Find(w, tag) = Len(p) + 1
                          /\ Upto(w, Find(w, tag)) = p
                          /\ From(w, Find(w, tag)) = tag \o q
                          /\ From(w, Find(w, tag) + Len(tag)) = q

LEMMA FirstAt ==
    ASSUME NEW p \in Seq(Pieces), NEW q \in Seq(Pieces), NEW tag \in Tags, Hits(p, tag) = {}
    PROVE  CutFirst(p \o (tag \o q), tag, p, q)
<1>1. /\ tag \in Seq(Pieces) /\ Len(tag) \in {2, 3} /\ tag[1] = "<"
    BY TagShapes DEF TagShape
<1>2. PICK t \in Seq(Pieces) : t = tag \o q
    BY <1>1, ConcatProperties
<1>3. PICK w \in Seq(Pieces) : w = p \o t
    BY ConcatProperties
<1>4. Joins(tag, q, t)
    BY <1>1, <1>2, JoinsFacts
<1>5. /\ Len(t) = Len(tag) + Len(q) /\ Len(q) \in Nat
      /\ \A i \in 1 .. Len(tag) : t[i] = tag[i]
    BY <1>4 DEF Joins
<1>6. Begins(t) /\ 1 \in Hits(t, tag)
    <2>1. 1 \in 1 .. Len(tag) /\ 1 \in 1 .. Len(t) - Len(tag) + 1
        BY <1>1, <1>5
    <2>2. Begins(t)
        BY <1>1, <1>5, <2>1 DEF Begins, Inner
    <2>3. \A k \in 1 .. Len(tag) : 1 + k - 1 = k
        BY <1>1
    <2>4. \A k \in 1 .. Len(tag) : t[1 + k - 1] = tag[k]
        BY <1>5, <2>3
    <2>5. HasTag(t, tag, 1)
        BY <2>1, <2>4 DEF HasTag
    <2> QED
        BY <2>2, <2>5, TagPlace
<1>7. Find(w, tag) = Len(p) + 1
    <2>1. /\ \A h \in Hits(p \o t, tag) : h - Len(p) \in Hits(t, tag)
          /\ Len(p) + 1 \in Hits(p \o t, tag)
        BY <1>6, HitsJoin
    <2>2. \A h \in Hits(t, tag) : h \in Nat /\ h >= 1
        BY <1>1 DEF Hits
    <2>3. /\ Find(w, tag) \in 0 .. Len(w) /\ (Find(w, tag) = 0 <=> Hits(w, tag) = {})
          /\ (Find(w, tag) # 0 => Find(w, tag) \in Hits(w, tag))
          /\ \A h \in Hits(w, tag) : Find(w, tag) <= h
        BY FirstFacts
    <2>4. Len(p) \in Nat /\ Len(w) \in Nat
        BY LenProperties
    <2>5. Find(w, tag) # 0 /\ Find(w, tag) <= Len(p) + 1
        BY <1>3, <2>1, <2>3
    <2>6. Find(w, tag) - Len(p) >= 1
        BY <1>3, <2>1, <2>2, <2>3, <2>5
    <2> QED
        BY <2>3, <2>4, <2>5, <2>6
<1>8. Upto(w, Len(p) + 1) = p /\ From(w, Len(p) + 1) = t
    BY <1>3, CutJoin
<1>9. From(w, (Len(p) + 1) + Len(tag)) = q
    <2>1. PICK pt \in Seq(Pieces) : pt = p \o tag
        BY <1>1, ConcatProperties
    <2>2. Associates(p, tag, q)
        BY <1>1, ThreeTexts
    <2>3. w = pt \o q
        BY <1>2, <1>3, <2>1, <2>2 DEF Associates
    <2>4. Len(pt) + 1 = (Len(p) + 1) + Len(tag)
        <3>1. Len(pt) = Len(p) + Len(tag) /\ Len(p) \in Nat
            BY <1>1, <2>1, ConcatProperties, LenProperties
        <3> QED
            BY <1>1, <3>1
    <2>5. From(pt \o q, Len(pt) + 1) = q
        BY CutJoin
    <2> QED
        BY <2>3, <2>4, <2>5
<1> QED
    BY <1>2, <1>3, <1>7, <1>8, <1>9 DEF CutFirst

\* What a text says is itself what is left of it.
LEMMA InkTypes ==
    ASSUME NEW s \in Seq(Pieces), Unbroken(s)
    PROVE  /\ LeavesOut(s, Visible(s)) /\ Ink(s) = Pick(s, Visible(s))
           /\ Ink(s) \in Seq(Pieces) /\ Unbroken(Ink(s))
<1>1. DOMAIN s = 1 .. Len(s)
    BY LenProperties
<1>2. ASSUME NEW i \in 1 .. Len(s), i \notin Visible(s), s[i] # "nl"
      PROVE  \E h, e \in 1 .. Len(s) : Wrap(s, h, e) /\ i \in h .. e
                                       /\ \A j \in h .. e : j \notin Visible(s)
    <2>1. Covered(s, i)
        BY <1>1, <1>2 DEF Visible, Inked, Covered
    <2>2. PICK h \in 1 .. Len(s), e \in 1 .. Len(s) : Wrap(s, h, e) /\ i \in h .. e
        BY <2>1, CoveredFacts
    <2>3. ASSUME NEW j \in h .. e
          PROVE  j \notin Visible(s)
        <3>1. Covered(s, j)
            BY <2>2, CoveredFacts
        <3> QED
            BY <3>1 DEF Visible, Covered
    <2> QED
        BY <2>2, <2>3
<1>3. Visible(s) \subseteq 1 .. Len(s)
    BY <1>1 DEF Visible, Inked
<1>4. LeavesOut(s, Visible(s))
    BY <1>2, <1>3 DEF LeavesOut
<1>5. Ink(s) = Pick(s, Visible(s))
    BY DEF Ink, Visible
<1> QED
    BY <1>4, <1>5, StaysUnbroken

\* Its first tag is that of the text.
LEMMA InkFirst ==
    ASSUME NEW s \in Seq(Pieces), Unbroken(s), NEW tag \in Tags
    PROVE  /\ Hits(Ink(s), tag) = {} <=> Hits(s, tag) = {}
           /\ Find(Ink(s), tag) = 0 <=> Find(s, tag) = 0
           /\ Find(s, tag) # 0 =>
                 /\ Find(Ink(s), tag) \in 1 .. Len(Ink(s))
                 /\ Nth(Visible(s), Find(Ink(s), tag)) = Find(s, tag)
<1> DEFINE V == Visible(s)
<1>1. LeavesOut(s, V) /\ Ink(s) = Pick(s, V) /\ Ink(s) \in Seq(Pieces)
    BY InkTypes
<1> HIDE DEF V
<1>2. /\ Hits(s, tag) \subseteq Visible(s)
      /\ \A k \in 1 .. Len(Pick(s, V)) : k \in Hits(Pick(s, V), tag) <=> Nth(V, k) \in Hits(s, tag)
    BY <1>1, HitsKept
<1>3. PICK t \in Seq(Pieces) : t = Ink(s)
    BY <1>1
<1>4. Picked(Pieces, s, V, t)
    <2>1. V \subseteq 1 .. Len(s)
        BY <1>1 DEF LeavesOut
    <2>2. Picked(Pieces, s, V, Pick(s, V))
        BY <2>1, PickedFacts
    <2> QED
        BY <1>1, <1>3, <2>2
<1>5. /\ Len(t) \in Nat
      /\ \A k \in 1 .. Len(t) : Nth(V, k) \in V
      /\ \A k, l \in 1 .. Len(t) : k < l => Nth(V, k) < Nth(V, l)
      /\ \A i \in V : \E k \in 1 .. Len(t) : Nth(V, k) = i
    BY <1>4 DEF Picked
<1>6. /\ Hits(s, tag) \subseteq V
      /\ \A k \in 1 .. Len(t) : k \in Hits(t, tag) <=> Nth(V, k) \in Hits(s, tag)
    BY <1>1, <1>2, <1>3 DEF V
<1>7. Hits(t, tag) \subseteq 1 .. Len(t)
    BY TagPlace
<1>8. Hits(t, tag) = {} <=> Hits(s, tag) = {}
    BY <1>5, <1>6, <1>7
<1>9. /\ Find(s, tag) = 0 <=> Hits(s, tag) = {}
      /\ Find(s, tag) # 0 => Find(s, tag) \in Hits(s, tag)
      /\ \A h \in Hits(s, tag) : Find(s, tag) <= h
      /\ Find(s, tag) \in 0 .. Len(s)
    BY FirstFacts
<1>10. /\ Find(t, tag) = 0 <=> Hits(t, tag) = {}
       /\ Find(t, tag) # 0 => Find(t, tag) \in Hits(t, tag)
       /\ \A h \in Hits(t, tag) : Find(t, tag) <= h
    BY FirstFacts
<1>11. ASSUME Find(s, tag) # 0
       PROVE  Find(t, tag) \in 1 .. Len(t) /\ Nth(V, Find(t, tag)) = Find(s, tag)
    <2>1. PICK k \in 1 .. Len(t) : Nth(V, k) = Find(s, tag)
        BY <1>5, <1>6, <1>9, <1>11
    <2>2. k \in Hits(t, tag)
        BY <1>6, <1>9, <1>11, <2>1
    <2>3. Find(t, tag) \in 1 .. Len(t) /\ Find(t, tag) \in Hits(t, tag) /\ Find(t, tag) <= k
        BY <1>7, <1>10, <2>2
    <2>4. Nth(V, Find(t, tag)) \in Hits(s, tag)
        BY <1>6, <2>3
    <2>5. Find(s, tag) <= Nth(V, Find(t, tag))
        BY <1>9, <2>4
    <2>6. CASE Find(t, tag) = k
        BY <2>1, <2>3, <2>6
    <2>7. CASE Find(t, tag) # k
        <3>1. Find(t, tag) < k
            BY <1>5, <2>3, <2>7
        <3>2. Nth(V, Find(t, tag)) < Nth(V, k)
            BY <1>5, <2>3, <3>1
        <3>3. V \subseteq 1 .. Len(s) /\ Len(s) \in Nat
            BY <1>1, LenProperties DEF LeavesOut
        <3>4. Nth(V, Find(t, tag)) \in Int /\ Nth(V, k) \in Int
            <4>1. Nth(V, Find(t, tag)) \in V /\ Nth(V, k) \in V
                BY <1>5, <2>3
            <4>2. V \subseteq Int
                BY <3>3
            <4> QED
                BY <4>1, <4>2
        <3> QED
            BY <2>1, <2>5, <3>2, <3>4
    <2> QED
        BY <2>6, <2>7
<1> QED
    BY <1>3, <1>8, <1>9, <1>10, <1>11 DEF V

\* The order of two first tags, too.
LEMMA InkOrder ==
    ASSUME NEW s \in Seq(Pieces), Unbroken(s), NEW a \in Tags, NEW b \in Tags,
           Find(s, a) # 0, Find(s, b) # 0
    PROVE  Find(Ink(s), a) < Find(Ink(s), b) <=> Find(s, a) < Find(s, b)
<1> DEFINE V == Visible(s)
<1>1. LeavesOut(s, V) /\ Ink(s) = Pick(s, V) /\ Ink(s) \in Seq(Pieces)
    BY InkTypes
<1>2. /\ Find(Ink(s), a) \in 1 .. Len(Ink(s)) /\ Nth(V, Find(Ink(s), a)) = Find(s, a)
      /\ Find(Ink(s), b) \in 1 .. Len(Ink(s)) /\ Nth(V, Find(Ink(s), b)) = Find(s, b)
    BY InkFirst
<1> HIDE DEF V
<1>3. PICK t \in Seq(Pieces) : t = Ink(s)
    BY <1>1
<1>4. Picked(Pieces, s, V, t)
    <2>1. V \subseteq 1 .. Len(s)
        BY <1>1 DEF LeavesOut
    <2>2. Picked(Pieces, s, V, Pick(s, V))
        BY <2>1, PickedFacts
    <2> QED
        BY <1>1, <1>3, <2>2
<1>5. Len(t) \in Nat /\ \A k, l \in 1 .. Len(t) : k < l => Nth(V, k) < Nth(V, l)
    BY <1>4 DEF Picked
<1>6. Find(s, a) \in Nat /\ Find(s, b) \in Nat
    BY FirstFacts, LenProperties
<1>7. PICK x \in 1 .. Len(t) : x = Find(Ink(s), a)
    BY <1>2, <1>3
<1>8. PICK y \in 1 .. Len(t) : y = Find(Ink(s), b)
    BY <1>2, <1>3
<1>9. Nth(V, x) = Find(s, a) /\ Nth(V, y) = Find(s, b)
    BY <1>2, <1>7, <1>8
<1>10. x < y <=> Find(s, a) < Find(s, b)
    <2>1. ASSUME x < y PROVE Find(s, a) < Find(s, b)
        BY <1>5, <1>9, <2>1
    <2>2. ASSUME y < x PROVE Find(s, b) < Find(s, a)
        BY <1>5, <1>9, <2>2
    <2>3. x = y => Find(s, a) = Find(s, b)
        BY <1>9
    <2>4. x \in Int /\ y \in Int
        BY <1>5
    <2> QED
        BY <1>6, <2>1, <2>2, <2>3, <2>4
<1> QED
    BY <1>7, <1>8, <1>10

\* Cutting a text at its first tag is cutting what it says.
LEMMA InkCut ==
    ASSUME NEW s \in Seq(Pieces), Unbroken(s), NEW tag \in Tags, Find(s, tag) # 0
    PROVE  LET h == Find(s, tag)
               k == Find(Ink(s), tag)
           IN  /\ Ink(Upto(s, h)) = Upto(Ink(s), k)
               /\ Ink(From(s, h)) = From(Ink(s), k)
               /\ Ink(From(s, h + Len(tag))) = From(Ink(s), k + Len(tag))
<1> DEFINE h == Find(s, tag)
<1>1. h \in Hits(s, tag) /\ \A i \in Hits(s, tag) : h <= i
    BY FirstFacts
<1> HIDE DEF h
<1>2. /\ h \in 1 .. Len(s) + 1 /\ h + Len(tag) \in 1 .. Len(s) + 1
      /\ Upto(s, h) \in Seq(Pieces) /\ Unbroken(Upto(s, h)) /\ Len(Upto(s, h)) = h - 1
      /\ From(s, h) \in Seq(Pieces) /\ Unbroken(From(s, h))
      /\ From(s, h + Len(tag)) \in Seq(Pieces) /\ Unbroken(From(s, h + Len(tag)))
      /\ s = Upto(s, h) \o From(s, h)
      /\ From(s, h) = tag \o From(s, h + Len(tag))
    BY <1>1, CutUnbroken
<1>3. PICK p \in Seq(Pieces) : p = Upto(s, h)
    BY <1>2
<1>4. PICK t \in Seq(Pieces) : t = From(s, h)
    BY <1>2
<1>5. PICK q \in Seq(Pieces) : q = From(s, h + Len(tag))
    BY <1>2
<1>6. Unbroken(p) /\ Unbroken(t) /\ Unbroken(q) /\ s = p \o t /\ t = tag \o q
    BY <1>2, <1>3, <1>4, <1>5
<1>7. tag \in Seq(Pieces) /\ Unbroken(tag) /\ Ink(tag) = tag
    BY TagShapes, InkTag DEF TagShape
<1>8. Ink(t) = tag \o Ink(q)
    <2>1. Ink(tag \o q) = Ink(tag) \o Ink(q)
        BY <1>6, <1>7, InkConcat
    <2> QED
        BY <1>6, <1>7, <2>1
<1>9. Ink(s) = Ink(p) \o (tag \o Ink(q))
    <2>1. Ink(p \o t) = Ink(p) \o Ink(t)
        BY <1>6, InkConcat
    <2> QED
        BY <1>6, <1>8, <2>1
<1>10. Hits(p, tag) = {}
    <2>1. SUFFICES ASSUME NEW i \in Hits(p, tag)
                   PROVE  FALSE
        OBVIOUS
    <2>2. i \in Hits(p \o t, tag)
        BY <1>6, UnbrokenBegins, HitsJoin
    <2>3. h <= i
        BY <1>1, <1>6, <2>2
    <2>4. i <= Len(p) /\ i \in Int /\ Len(p) \in Nat
        BY TagPlace, LenProperties
    <2> QED
        BY <1>2, <1>3, <2>3, <2>4, LenProperties
<1>11. PICK ip \in Seq(Pieces) : ip = Ink(p) /\ Hits(ip, tag) = {}
    BY <1>6, <1>10, InkTypes, InkFirst
<1>12. PICK iq \in Seq(Pieces) : iq = Ink(q)
    BY <1>6, InkTypes
<1>13. CutFirst(ip \o (tag \o iq), tag, ip, iq)
    BY <1>11, FirstAt
<1>14. Ink(s) = ip \o (tag \o iq)
    BY <1>9, <1>11, <1>12
<1> QED
    BY <1>3, <1>4, <1>5, <1>8, <1>11, <1>12, <1>13, <1>14 DEF h, CutFirst

-----------------------------------------------------------------------------
(* Two texts that say the same are taken apart in the same way.            *)

Alike(s, t) == /\ s \in Seq(Pieces) /\ Unbroken(s)
               /\ t \in Seq(Pieces) /\ Unbroken(t)
               /\ Ink(s) = Ink(t)

LEMMA AlikeTurned ==
    ASSUME NEW s, NEW t, Alike(s, t)
    PROVE  Alike(t, s)
BY DEF Alike

LEMMA AlikeAgain ==
    ASSUME NEW r, NEW s, NEW t, Alike(r, s), Alike(s, t)
    PROVE  Alike(r, t)
BY DEF Alike

LEMMA AlikeItself ==
    ASSUME NEW s \in Seq(Pieces), Unbroken(s)
    PROVE  Alike(s, s)
BY DEF Alike

LEMMA AlikeStands ==
    ASSUME NEW s, NEW t, StandsFor(t, s), Unbroken(s)
    PROVE  Alike(t, s)
BY StandsFacts DEF Alike

LEMMA NothingUnbroken == <<>> \in Seq(Pieces) /\ Unbroken(<<>>) /\ Alike(<<>>, <<>>)
<1>1. <<>> \in Seq(Pieces) /\ Len(<<>>) = 0
    BY EmptySeq
<1>2. Unbroken(<<>>)
    BY <1>1 DEF Unbroken
<1> QED
    BY <1>1, <1>2, AlikeItself

\* Cutting at the first tag.
LEMMA AlikeCut ==
    ASSUME NEW s, NEW t, Alike(s, t), NEW tag \in Tags
    PROVE  /\ Find(s, tag) = 0 <=> Find(t, tag) = 0
           /\ Find(s, tag) # 0 =>
                 /\ Alike(Upto(s, Find(s, tag)), Upto(t, Find(t, tag)))
                 /\ Alike(From(s, Find(s, tag)), From(t, Find(t, tag)))
                 /\ Alike(From(s, Find(s, tag) + Len(tag)), From(t, Find(t, tag) + Len(tag)))
<1>1. /\ s \in Seq(Pieces) /\ Unbroken(s) /\ t \in Seq(Pieces) /\ Unbroken(t)
      /\ Ink(s) = Ink(t)
    BY DEF Alike
<1>2. Find(s, tag) = 0 <=> Find(t, tag) = 0
    <2>1. Find(Ink(s), tag) = 0 <=> Find(s, tag) = 0
        BY <1>1, InkFirst
    <2>2. Find(Ink(t), tag) = 0 <=> Find(t, tag) = 0
        BY <1>1, InkFirst
    <2> QED
        BY <1>1, <2>1, <2>2
<1>3. ASSUME NEW r \in Seq(Pieces), Unbroken(r), Find(r, tag) # 0
      PROVE  LET h == Find(r, tag)
                 k == Find(Ink(r), tag)
             IN  /\ Upto(r, h) \in Seq(Pieces) /\ Unbroken(Upto(r, h))
                 /\ From(r, h) \in Seq(Pieces) /\ Unbroken(From(r, h))
                 /\ From(r, h + Len(tag)) \in Seq(Pieces) /\ Unbroken(From(r, h + Len(tag)))
                 /\ Ink(Upto(r, h)) = Upto(Ink(r), k)
                 /\ Ink(From(r, h)) = From(Ink(r), k)
                 /\ Ink(From(r, h + Len(tag))) = From(Ink(r), k + Len(tag))
    <2>1. Find(r, tag) \in Hits(r, tag)
        BY <1>3, FirstFacts
    <2> QED
        BY <1>3, <2>1, CutUnbroken, InkCut
<1>4. ASSUME Find(s, tag) # 0
      PROVE  /\ Alike(Upto(s, Find(s, tag)), Upto(t, Find(t, tag)))
             /\ Alike(From(s, Find(s, tag)), From(t, Find(t, tag)))
             /\ Alike(From(s, Find(s, tag) + Len(tag)), From(t, Find(t, tag) + Len(tag)))
    BY <1>1, <1>2, <1>3, <1>4 DEF Alike
<1> QED
    BY <1>2, <1>4

\* Which of two tags comes first.
LEMMA AlikeOrder ==
    ASSUME NEW s, NEW t, Alike(s, t), NEW a \in Tags, NEW b \in Tags
    PROVE  ToolFirst(Find(s, a), Find(s, b)) <=> ToolFirst(Find(t, a), Find(t, b))
<1>1. /\ s \in Seq(Pieces) /\ Unbroken(s) /\ t \in Seq(Pieces) /\ Unbroken(t)
      /\ Ink(s) = Ink(t)
    BY DEF Alike
<1>2. /\ Find(s, a) = 0 <=> Find(t, a) = 0
      /\ Find(s, b) = 0 <=> Find(t, b) = 0
    BY AlikeCut
<1>3. ASSUME Find(s, a) # 0, Find(s, b) # 0
      PROVE  Find(s, a) < Find(s, b) <=> Find(t, a) < Find(t, b)
    BY <1>1, <1>2, <1>3, InkOrder
<1>4. /\ Find(s, a) \in Nat /\ Find(s, b) \in Nat
      /\ Find(t, a) \in Nat /\ Find(t, b) \in Nat
    BY <1>1, FirstFacts, LenProperties
<1> QED
    BY <1>2, <1>3, <1>4 DEF ToolFirst

\* The finished reply.
LEMMA AlikeSplit ==
    ASSUME NEW s, NEW t, Alike(s, t), NEW thinking \in BOOLEAN, NEW tools \in BOOLEAN
    PROVE  /\ Alike(SplitFinished(s, thinking, tools).reason, SplitFinished(t, thinking, tools).reason)
           /\ Alike(SplitFinished(s, thinking, tools).rest, SplitFinished(t, thinking, tools).rest)
<1>1. OpenCall \in Tags /\ CloseThink \in Tags
    BY DEF Tags
<1> DEFINE Tool(r) == IF tools THEN Find(r, OpenCall) ELSE 0
           Think(r) == Find(r, CloseThink)
<1>2. /\ ToolFirst(Tool(s), Think(s)) <=> ToolFirst(Tool(t), Think(t))
      /\ Think(s) = 0 <=> Think(t) = 0
    <2>1. ToolFirst(Find(s, OpenCall), Think(s)) <=> ToolFirst(Find(t, OpenCall), Think(t))
        BY <1>1, AlikeOrder
    <2>2. Think(s) = 0 <=> Think(t) = 0
        BY <1>1, AlikeCut
    <2>3. ~ToolFirst(0, Think(s)) /\ ~ToolFirst(0, Think(t))
        BY DEF ToolFirst
    <2> QED
        BY <2>1, <2>2, <2>3
<1>3. /\ s \in Seq(Pieces) /\ t \in Seq(Pieces)
    BY DEF Alike
<1>4. Think(s) \in Nat /\ Think(t) \in Nat /\ Tool(s) \in Nat /\ Tool(t) \in Nat
    BY <1>1, <1>3, FirstFacts, LenProperties
<1>5. CASE ~thinking
    <2>1. /\ SplitFinished(s, thinking, tools) = [reason |-> <<>>, rest |-> s]
          /\ SplitFinished(t, thinking, tools) = [reason |-> <<>>, rest |-> t]
        BY <1>5 DEF SplitFinished
    <2> QED
        BY <2>1, NothingUnbroken
<1>6. CASE thinking /\ ToolFirst(Tool(s), Think(s))
    <2>1. tools /\ Find(s, OpenCall) # 0
        BY <1>4, <1>6 DEF ToolFirst
    <2>2. /\ Tool(s) = Find(s, OpenCall) /\ Tool(t) = Find(t, OpenCall)
        BY <2>1
    <2>3. /\ SplitFinished(s, thinking, tools) =
                 [reason |-> StripNoise(Upto(s, Tool(s))), rest |-> From(s, Tool(s))]
          /\ SplitFinished(t, thinking, tools) =
                 [reason |-> StripNoise(Upto(t, Tool(t))), rest |-> From(t, Tool(t))]
        BY <1>2, <1>6 DEF SplitFinished
    <2>4. /\ Alike(Upto(s, Tool(s)), Upto(t, Tool(t)))
          /\ Alike(From(s, Tool(s)), From(t, Tool(t)))
        BY <1>1, <2>1, <2>2, AlikeCut
    <2> HIDE DEF Tool, Think
    <2>5. ASSUME NEW p, NEW q, Alike(p, q)
          PROVE  Alike(StripNoise(p), StripNoise(q))
        <3>1. p \in Seq(Pieces) /\ Unbroken(p) /\ q \in Seq(Pieces) /\ Unbroken(q)
            BY <2>5 DEF Alike
        <3>2. Alike(StripNoise(p), p) /\ Alike(StripNoise(q), q)
            BY <3>1, StripNoiseStands, AlikeStands
        <3> QED
            BY <2>5, <3>2 DEF Alike
    <2> QED
        BY <2>3, <2>4, <2>5
<1>7. CASE thinking /\ ~ToolFirst(Tool(s), Think(s)) /\ Think(s) # 0
    <2>1. Think(s) > 0 /\ Think(t) > 0
        BY <1>2, <1>4, <1>7
    <2>2. /\ SplitFinished(s, thinking, tools) =
                 [reason |-> Upto(s, Think(s)), rest |-> LStrip(From(s, Think(s) + Len(CloseThink)))]
          /\ SplitFinished(t, thinking, tools) =
                 [reason |-> Upto(t, Think(t)), rest |-> LStrip(From(t, Think(t) + Len(CloseThink)))]
        BY <1>2, <1>7, <2>1 DEF SplitFinished
    <2>3. /\ Alike(Upto(s, Think(s)), Upto(t, Think(t)))
          /\ Alike(From(s, Think(s) + Len(CloseThink)), From(t, Think(t) + Len(CloseThink)))
        BY <1>1, <1>7, AlikeCut
    <2> HIDE DEF Tool, Think
    <2>5. ASSUME NEW p, NEW q, Alike(p, q)
          PROVE  Alike(LStrip(p), LStrip(q))
        <3>1. p \in Seq(Pieces) /\ Unbroken(p) /\ q \in Seq(Pieces) /\ Unbroken(q)
            BY <2>5 DEF Alike
        <3>2. Alike(LStrip(p), p) /\ Alike(LStrip(q), q)
            BY <3>1, LStripStands, AlikeStands
        <3> QED
            BY <2>5, <3>2 DEF Alike
    <2> QED
        BY <2>2, <2>3, <2>5
<1>8. CASE thinking /\ ~ToolFirst(Tool(s), Think(s)) /\ Think(s) = 0
    <2>1. ~(Think(s) > 0) /\ ~(Think(t) > 0)
        BY <1>2, <1>8
    <2>2. /\ SplitFinished(s, thinking, tools) = [reason |-> s, rest |-> <<>>]
          /\ SplitFinished(t, thinking, tools) = [reason |-> t, rest |-> <<>>]
        BY <1>2, <1>8, <2>1 DEF SplitFinished
    <2> QED
        BY <2>2, NothingUnbroken
<1> QED
    BY <1>5, <1>6, <1>7, <1>8

\* What was shown, up to a tag or to the end.
LEMMA Leads ==
    ASSUME NEW st \in Seq(Pieces), Unbroken(st), NEW v \in Seq(Pieces), Unbroken(v),
           NEW t, Alike(st \o v, t)
    PROVE  /\ IsPrefix(Ink(st), Ink(t))
           /\ \A tag \in Tags : Hits(st, tag) = {} /\ Find(t, tag) # 0 =>
                                    IsPrefix(Ink(st), Ink(Upto(t, Find(t, tag))))
<1>1. Unbroken(st \o v) /\ Ink(st \o v) = Ink(st) \o Ink(v)
    BY InkConcat
<1>2. Ink(t) = Ink(st) \o Ink(v)
    BY <1>1 DEF Alike
<1>3. Ink(st) \in Seq(Pieces) /\ Ink(v) \in Seq(Pieces)
    BY InkTypes
<1>4. IsPrefix(Ink(st), Ink(t))
    BY <1>2, <1>3, LeadsConcat
<1>5. ASSUME NEW tag \in Tags, Hits(st, tag) = {}, Find(t, tag) # 0
      PROVE  IsPrefix(Ink(st), Ink(Upto(t, Find(t, tag))))
    <2>1. Find(st \o v, tag) # 0
        BY <1>5, AlikeCut
    <2>w. st \o v \in Seq(Pieces)
        BY DEF Alike
    <2>2. PICK h \in Hits(st \o v, tag) : h = Find(st \o v, tag) /\ \A i \in Hits(st \o v, tag) : h <= i
        BY <2>1, <2>w, FirstFacts
    <2>b. Begins(v)
        BY UnbrokenBegins
    <2>3. h - Len(st) \in Hits(v, tag)
        BY <1>5, <2>2, <2>b, HitsJoin
    <2>4. PICK g \in Hits(v, tag) : g = h - Len(st)
        BY <2>3
    <2>5. /\ \A i \in Hits(v, tag) : g <= i
        <3>1. \A i \in Hits(v, tag) : Len(st) + i \in Hits(st \o v, tag)
            BY <2>b, HitsJoin
        <3>2. \A i \in Hits(v, tag) : i \in Int
            BY TagPlace
        <3>3. Len(st) \in Nat /\ h \in Int
            <4>1. h \in 1 .. Len(st \o v)
                BY <2>w, TagPlace
            <4> QED
                BY ONLY <4>1, st \in Seq(Pieces), LenProperties
        <3> QED
            BY <2>2, <2>4, <3>1, <3>2, <3>3
    <2>6. /\ g \in 1 .. Len(v) + 1 /\ g + Len(tag) \in 1 .. Len(v) + 1
          /\ Upto(v, g) \in Seq(Pieces) /\ Unbroken(Upto(v, g)) /\ Len(Upto(v, g)) = g - 1
          /\ From(v, g) \in Seq(Pieces)
          /\ v = Upto(v, g) \o From(v, g)
        BY CutUnbroken
    <2>7. PICK x \in Seq(Pieces) : x = Upto(v, g) /\ Unbroken(x)
        BY <2>6
    <2>8. PICK y \in Seq(Pieces) : y = From(v, g)
        BY <2>6
    <2>9. PICK sx \in Seq(Pieces) : sx = st \o x
        BY ConcatProperties
    <2>10. st \o v = sx \o y
        <3>1. Associates(st, x, y)
            BY ThreeTexts
        <3> QED
            BY <2>6, <2>7, <2>8, <2>9, <3>1 DEF Associates
    <2>11. Upto(st \o v, h) = sx
        <3>1. Len(sx) + 1 = h
            <4>1. Len(sx) = Len(st) + Len(x) /\ Len(st) \in Nat
                BY <2>9, ConcatProperties, LenProperties
            <4>2. Len(x) = g - 1 /\ h \in Int
                BY <2>6, <2>7, <2>w, TagPlace
            <4> QED
                BY <2>4, <4>1, <4>2
        <3>2. Upto(sx \o y, Len(sx) + 1) = sx
            BY CutJoin
        <3> QED
            BY <2>10, <3>1, <3>2
    <2>12. Alike(sx, Upto(t, Find(t, tag)))
        BY <2>1, <2>2, <2>11, AlikeCut
    <2>13. Ink(sx) = Ink(st) \o Ink(x) /\ Ink(x) \in Seq(Pieces)
        BY <2>7, <2>9, InkConcat, InkTypes
    <2>14. IsPrefix(Ink(st), Ink(st) \o Ink(x))
        BY <1>3, <2>13, LeadsConcat
    <2> QED
        BY <2>12, <2>13, <2>14 DEF Alike
<1> QED
    BY <1>4, <1>5

-----------------------------------------------------------------------------
(* The calls of a text are those of what it says.                          *)

InCalls(s, table) == {i \in DOMAIN s : s[i] \in table /\ InCall(s, i)}

LEMMA InkCalls ==
    ASSUME NEW s \in Seq(Pieces), Unbroken(s), NEW table, table \subseteq {"f", "n"}
    PROVE  ParseCalls(s, table).calls = ParseCalls(Ink(s), table).calls
<1> DEFINE V == Visible(s)
<1>1. LeavesOut(s, V) /\ Ink(s) = Pick(s, V) /\ Ink(s) \in Seq(Pieces)
    BY InkTypes
<1>2. PICK t \in Seq(Pieces) : t = Pick(s, V)
    BY <1>1
<1>3. /\ OpenCall \in Tags /\ CloseCall \in Tags
    BY DEF Tags
<1>4. ASSUME NEW tag \in Tags
      PROVE  /\ Hits(s, tag) \subseteq V
             /\ \A k \in 1 .. Len(t) : k \in Hits(t, tag) <=> Nth(V, k) \in Hits(s, tag)
             /\ Hits(t, tag) \subseteq 1 .. Len(t)
    <2>1. /\ Hits(s, tag) \subseteq Visible(s)
          /\ \A k \in 1 .. Len(Pick(s, V)) :
                k \in Hits(Pick(s, V), tag) <=> Nth(V, k) \in Hits(s, tag)
        BY <1>1, HitsKept
    <2>2. Hits(t, tag) \subseteq 1 .. Len(t)
        BY TagPlace
    <2> QED
        BY <1>2, <2>1, <2>2
<1>d. DOMAIN s = 1 .. Len(s) /\ DOMAIN t = 1 .. Len(t) /\ Len(s) \in Nat
    BY LenProperties
<1>5. V \subseteq 1 .. Len(s)
    BY <1>1 DEF LeavesOut
<1>6. ASSUME NEW i \in 1 .. Len(s), s[i] \in table
      PROVE  i \in V
    <2>1. s[i] \in {"f", "n"}
        BY <1>6
    <2>2. ~Covered(s, i)
        BY <2>1, InsideFacts DEF Covered
    <2> QED
        BY <1>d, <2>1, <2>2 DEF Visible, Inked, Covered
<1> HIDE DEF V
<1>7. Picked(Pieces, s, V, t)
    <2>1. Picked(Pieces, s, V, Pick(s, V))
        BY <1>5, PickedFacts
    <2> QED
        BY <1>2, <2>1
<1>8. /\ Len(t) \in Nat
      /\ \A k \in 1 .. Len(t) : Nth(V, k) \in V /\ t[k] = s[Nth(V, k)]
      /\ \A k, l \in 1 .. Len(t) : k < l => Nth(V, k) < Nth(V, l)
      /\ \A i \in V : \E k \in 1 .. Len(t) : Nth(V, k) = i
    BY <1>7 DEF Picked
<1>9. ASSUME NEW k \in 1 .. Len(t), NEW l \in 1 .. Len(t)
      PROVE  k < l <=> Nth(V, k) < Nth(V, l)
    <2>1. Nth(V, k) \in 1 .. Len(s) /\ Nth(V, l) \in 1 .. Len(s)
        BY <1>5, <1>8
    <2>2. ASSUME k < l PROVE Nth(V, k) < Nth(V, l)
        BY <1>8, <2>2
    <2>3. ASSUME l < k PROVE Nth(V, l) < Nth(V, k)
        BY <1>8, <2>3
    <2>4. CASE k = l
        BY <1>8, <2>1, <2>4
    <2> QED
        BY <1>8, <2>1, <2>2, <2>3, <2>4
<1>10. ASSUME NEW o \in 1 .. Len(t), NEW k \in 1 .. Len(t), NEW tag \in Tags
       PROVE  (\E h \in Hits(t, tag) : o < h /\ h < k) <=>
              (\E h \in Hits(s, tag) : Nth(V, o) < h /\ h < Nth(V, k))
    <2>1. ASSUME NEW h \in Hits(t, tag), o < h, h < k
          PROVE  \E g \in Hits(s, tag) : Nth(V, o) < g /\ g < Nth(V, k)
        <3>1. h \in 1 .. Len(t) /\ Nth(V, h) \in Hits(s, tag)
            BY <1>4, <2>1
        <3>2. Nth(V, o) < Nth(V, h) /\ Nth(V, h) < Nth(V, k)
            BY <1>9, <2>1, <3>1
        <3> QED
            BY <3>1, <3>2
    <2>2. ASSUME NEW g \in Hits(s, tag), Nth(V, o) < g, g < Nth(V, k)
          PROVE  \E h \in Hits(t, tag) : o < h /\ h < k
        <3>1. PICK h \in 1 .. Len(t) : Nth(V, h) = g
            BY <1>4, <1>8
        <3>2. h \in Hits(t, tag)
            BY <1>4, <3>1
        <3>3. o < h /\ h < k
            BY <1>9, <2>2, <3>1
        <3> QED
            BY <3>2, <3>3
    <2> QED
        BY <2>1, <2>2
<1>11. ASSUME NEW k \in 1 .. Len(t)
       PROVE  InCall(t, k) <=> InCall(s, Nth(V, k))
    <2>1. ASSUME NEW o \in Hits(t, OpenCall), o < k,
                 \A h \in Hits(t, OpenCall) : ~(o < h /\ h < k),
                 \A h \in Hits(t, CloseCall) : ~(o < h /\ h < k)
          PROVE  InCall(s, Nth(V, k))
        <3>1. o \in 1 .. Len(t) /\ Nth(V, o) \in Hits(s, OpenCall)
            BY <1>3, <1>4
        <3>2. Nth(V, o) < Nth(V, k)
            BY <1>9, <2>1, <3>1
        <3>3. /\ ~\E h \in Hits(s, OpenCall) : Nth(V, o) < h /\ h < Nth(V, k)
              /\ ~\E h \in Hits(s, CloseCall) : Nth(V, o) < h /\ h < Nth(V, k)
            BY <1>3, <1>10, <2>1, <3>1
        <3> QED
            BY <3>1, <3>2, <3>3 DEF InCall
    <2>2. ASSUME NEW p \in Hits(s, OpenCall), p < Nth(V, k),
                 \A h \in Hits(s, OpenCall) : ~(p < h /\ h < Nth(V, k)),
                 \A h \in Hits(s, CloseCall) : ~(p < h /\ h < Nth(V, k))
          PROVE  InCall(t, k)
        <3>1. PICK o \in 1 .. Len(t) : Nth(V, o) = p
            BY <1>3, <1>4, <1>8
        <3>2. o \in Hits(t, OpenCall) /\ o < k
            BY <1>3, <1>4, <1>9, <2>2, <3>1
        <3>3. /\ ~\E h \in Hits(t, OpenCall) : o < h /\ h < k
              /\ ~\E h \in Hits(t, CloseCall) : o < h /\ h < k
            BY <1>3, <1>10, <2>2, <3>1
        <3> QED
            BY <3>2, <3>3 DEF InCall
    <2>3. InCall(t, k) => InCall(s, Nth(V, k))
        BY <2>1 DEF InCall
    <2>4. InCall(s, Nth(V, k)) => InCall(t, k)
        BY <2>2 DEF InCall
    <2> QED
        BY <2>3, <2>4
<1>12. Chooses(InCalls(t, table), s, V, InCalls(s, table))
    <2>1. InCalls(s, table) \subseteq V
        BY <1>d, <1>6 DEF InCalls
    <2>2. InCalls(t, table) \subseteq 1 .. Len(t)
        BY <1>d DEF InCalls
    <2>3. ASSUME NEW k \in 1 .. Len(t)
          PROVE  k \in InCalls(t, table) <=> Nth(V, k) \in InCalls(s, table)
        <3>1. Nth(V, k) \in 1 .. Len(s) /\ t[k] = s[Nth(V, k)]
            BY <1>5, <1>8
        <3> QED
            BY <1>d, <1>11, <3>1 DEF InCalls
    <2> QED
        BY <1>2, <1>5, <2>1, <2>2, <2>3 DEF Chooses
<1>13. Pick(Pick(s, V), InCalls(t, table)) = Pick(s, InCalls(s, table))
    BY ONLY s \in Seq(Pieces), <1>12, PickPick
<1>14. /\ ParseCalls(s, table).calls = Pick(s, InCalls(s, table))
       /\ ParseCalls(t, table).calls = Pick(t, InCalls(t, table))
    BY DEF ParseCalls, InCalls
<1> QED
    BY <1>1, <1>2, <1>13, <1>14

LEMMA AlikeCalls ==
    ASSUME NEW s, NEW t, Alike(s, t), NEW table, table \subseteq {"f", "n"}
    PROVE  ParseCalls(s, table).calls = ParseCalls(t, table).calls
BY InkCalls DEF Alike

\* The text before the calls, too.
LEMMA AlikeLeading ==
    ASSUME NEW s \in Seq(Pieces), Unbroken(s), NEW table
    PROVE  LET tool == Find(s, OpenCall)
               lead == ParseCalls(s, table).leading
           IN  /\ Alike(lead, IF tool = 0 THEN s ELSE Upto(s, tool))
               /\ Find(lead, OpenCall) = 0
<1> DEFINE tool == Find(s, OpenCall)
           lead == ParseCalls(s, table).leading
           part == IF tool = 0 THEN s ELSE Upto(s, tool)
<1>0. OpenCall \in Tags
    BY DEF Tags
<1>1. part \in Seq(Pieces) /\ Unbroken(part) /\ Find(part, OpenCall) = 0
    <2>1. CASE tool = 0
        BY <2>1
    <2>2. CASE tool # 0
        <3>1. tool \in Hits(s, OpenCall) /\ \A h \in Hits(s, OpenCall) : tool <= h
            BY <1>0, <2>2, FirstFacts
        <3> HIDE DEF tool
        <3>2. /\ Upto(s, tool) \in Seq(Pieces) /\ Unbroken(Upto(s, tool))
              /\ Len(Upto(s, tool)) = tool - 1
              /\ From(s, tool) \in Seq(Pieces) /\ Unbroken(From(s, tool))
              /\ s = Upto(s, tool) \o From(s, tool)
            BY <1>0, <3>1, CutUnbroken
        <3>3. PICK p \in Seq(Pieces) : p = Upto(s, tool)
            BY <3>2
        <3>4. PICK q \in Seq(Pieces) : q = From(s, tool)
            BY <3>2
        <3>5. Hits(p, OpenCall) = {}
            <4>1. SUFFICES ASSUME NEW h \in Hits(p, OpenCall)
                           PROVE  FALSE
                OBVIOUS
            <4>2. Begins(q)
                BY <3>2, <3>4, UnbrokenBegins
            <4>3. h \in Hits(p \o q, OpenCall)
                BY <1>0, <4>2, HitsJoin
            <4>4. tool <= h
                BY <3>1, <3>2, <3>3, <3>4, <4>3
            <4>5. h \in 1 .. Len(p) /\ tool \in 1 .. Len(s)
                BY <1>0, <3>1, TagPlace
            <4> QED
                BY <3>2, <3>3, <4>4, <4>5, LenProperties
        <3> QED
            BY <1>0, <2>2, <3>2, <3>3, <3>5, FirstFacts
    <2> QED
        BY <2>1, <2>2
<1>2. lead = Strip(StripNoise(part))
    BY DEF ParseCalls
<1> HIDE DEF lead, part, tool
<1>3. Alike(lead, part)
    <2>1. StandsFor(StripNoise(part), part)
        BY <1>1, StripNoiseStands
    <2>2. StripNoise(part) \in Seq(Pieces)
        BY <2>1 DEF StandsFor
    <2>3. StandsFor(Strip(StripNoise(part)), StripNoise(part))
        BY <2>2, StripStands
    <2>4. StandsFor(lead, part)
        BY <1>2, <2>1, <2>3, StandsAgain
    <2> QED
        BY <1>1, <2>4, AlikeStands
<1>4. Find(lead, OpenCall) = 0
    BY <1>0, <1>1, <1>3, AlikeCut
<1> QED
    BY <1>3, <1>4 DEF lead, part, tool

-----------------------------------------------------------------------------
(* A chunk through the splitters, compared with the whole reply.           *)

\* What the splitters keep back is not torn from what follows it.
KeptBack(s, v) ==
    LET cut == Len(s) - Opener(s) + 1
    IN  /\ Upto(s, cut) \in Seq(Pieces) /\ From(s, cut) \in Seq(Pieces)
        /\ s = Upto(s, cut) \o From(s, cut)
        /\ s \o v = Upto(s, cut) \o (From(s, cut) \o v)
        /\ Unbroken(Upto(s, cut)) /\ From(s, cut) \o v \in Seq(Pieces)
        /\ Unbroken(From(s, cut) \o v)

LEMMA KeptUnbroken ==
    ASSUME NEW s \in Seq(Pieces), NEW v \in Seq(Pieces), Unbroken(s \o v)
    PROVE  KeptBack(s, v)
<1>1. Opener(s) \in 0 .. Len(s)
    BY HeldWrapper
<1>2. PICK n \in 0 .. Len(s) : n = Opener(s)
    BY <1>1
<1>3. LET i == Len(s) - n + 1
      IN  /\ Upto(s, i) \in Seq(Pieces) /\ Len(Upto(s, i)) = Len(s) - n
          /\ From(s, i) \in Seq(Pieces) /\ Len(From(s, i)) = n
          /\ \A k \in 1 .. n : From(s, i)[k] = s[Len(s) - n + k]
          /\ Upto(s, i) \o From(s, i) = s
    BY KeptFacts
<1>4. PICK p \in Seq(Pieces) : p = Upto(s, Len(s) - n + 1)
    BY <1>3
<1>5. PICK q \in Seq(Pieces) : q = From(s, Len(s) - n + 1)
    BY <1>3
<1>6. p \o q = s /\ Len(q) = n /\ \A k \in 1 .. n : q[k] = s[Len(s) - n + k]
    BY <1>3, <1>4, <1>5
<1>7. PICK qv \in Seq(Pieces) : qv = q \o v
    BY ConcatProperties
<1>8. s \o v = p \o qv
    <2>1. Associates(p, q, v)
        BY ThreeTexts
    <2> QED
        BY <1>6, <1>7, <2>1 DEF Associates
<1>9. PICK w \in Seq(Pieces) : w = s \o v
    BY ConcatProperties
<1>l. Len(s) \in Nat
    BY LenProperties
<1>10. Begins(qv)
    <2>1. Joins(q, v, qv)
        BY <1>7, JoinsFacts
    <2>2. /\ Len(qv) = n + Len(v) /\ Len(v) \in Nat
          /\ \A i \in 1 .. n : qv[i] = q[i]
          /\ \A i \in 1 .. Len(v) : qv[n + i] = v[i]
        BY <1>6, <2>1 DEF Joins
    <2>3. CASE n # 0
        <3>1. 1 \in 1 .. n /\ qv[1] = s[Len(s) - n + 1]
            BY <1>6, <1>l, <2>2, <2>3
        <3>2. s[Len(s) - n + 1] = "<"
            <4>1. \/ n = 1 /\ s[Len(s)] = "<" /\ Len(s) - n + 1 = Len(s)
                  \/ n = 2 /\ s[Len(s) - 1] = "<" /\ Len(s) - n + 1 = Len(s) - 1
                BY <1>2, <1>l, <2>3 DEF Opener
            <4> QED
                BY <4>1
        <3> QED
            BY <3>1, <3>2 DEF Begins, Inner
    <2>4. CASE n = 0
        <3> SUFFICES ASSUME Len(qv) > 0, qv[1] \in Inner
                     PROVE  FALSE
            BY DEF Begins
        <3>1. 1 \in 1 .. Len(v) /\ v[1] \in Inner
            BY <2>2, <2>4
        <3>2. Joins(s, v, w)
            BY <1>9, JoinsFacts
        <3>3. /\ Len(s) + 1 \in 1 .. Len(w) /\ w[Len(s) + 1] = v[1]
              /\ \A i \in 1 .. Len(s) : i \in 1 .. Len(w) /\ w[i] = s[i]
            BY <3>1, <3>2 DEF Joins
        <3>4. Unbroken(w)
            BY <1>9
        <3>5. /\ Len(s) + 1 > 1 /\ w[Len(s) + 1 - 1] \in {"<", "/"}
            BY <3>1, <3>3, <3>4, UnbrokenFacts
        <3>6. Len(s) \in 1 .. Len(s) /\ s[Len(s)] \in {"<", "/"} /\ Len(s) + 1 - 1 = Len(s)
            BY <1>l, <3>3, <3>5
        <3>7. s[Len(s)] = "/"
            BY <1>2, <1>l, <2>4, <3>6 DEF Opener
        <3>8. w[Len(s)] = "/" /\ Len(s) \in 1 .. Len(w)
            BY <3>3, <3>6, <3>7
        <3>9. Len(s) > 1 /\ Len(s) - 1 \in 1 .. Len(w) /\ w[Len(s) - 1] = "<"
            BY <3>4, <3>8, UnbrokenFacts DEF Inner
        <3>10. Len(s) - 1 \in 1 .. Len(s)
            BY <1>l, <3>9
        <3>11. s[Len(s) - 1] = "<"
            BY <3>3, <3>9, <3>10
        <3> QED
            BY <1>2, <2>4, <3>7, <3>9, <3>11 DEF Opener
    <2> QED
        BY <2>3, <2>4
<1>11. Unbroken(p) /\ Unbroken(qv)
    <2>1. Unbroken(p \o qv)
        BY <1>8
    <2> QED
        BY <1>10, <2>1, UnbrokenParts
<1> QED
    BY <1>2, <1>4, <1>5, <1>6, <1>7, <1>8, <1>11 DEF KeptBack

\* No tag before the first one of two.
LEMMA UptoQuiet ==
    ASSUME NEW s \in Seq(Pieces), Unbroken(s), NEW tag \in Tags, NEW h \in Hits(s, tag),
           NEW other \in Tags, \A i \in Hits(s, other) : h <= i
    PROVE  Hits(Upto(s, h), other) = {}
<1>1. /\ Upto(s, h) \in Seq(Pieces) /\ Unbroken(Upto(s, h)) /\ Len(Upto(s, h)) = h - 1
      /\ From(s, h) \in Seq(Pieces) /\ Unbroken(From(s, h))
      /\ s = Upto(s, h) \o From(s, h)
    BY CutUnbroken
<1>2. PICK p \in Seq(Pieces) : p = Upto(s, h)
    BY <1>1
<1>3. PICK q \in Seq(Pieces) : q = From(s, h)
    BY <1>1
<1> SUFFICES ASSUME NEW i \in Hits(p, other)
             PROVE  FALSE
    BY <1>2
<1>4. Begins(q)
    BY <1>1, <1>3, UnbrokenBegins
<1>5. i \in Hits(p \o q, other)
    BY <1>4, HitsJoin
<1>6. h <= i
    BY <1>1, <1>2, <1>3, <1>5
<1>7. i \in 1 .. Len(p) /\ h \in 1 .. Len(s) /\ Len(p) = h - 1
    BY <1>1, <1>2, TagPlace
<1> QED
    BY <1>6, <1>7, LenProperties

LEMMA QuietJoin ==
    ASSUME NEW a \in Seq(Pieces), NEW b \in Seq(Pieces), Begins(b), NEW tag \in Tags
    PROVE  Hits(a \o b, tag) = {} <=> Hits(a, tag) = {} /\ Hits(b, tag) = {}
BY HitsJoin

\* The two tags do not stand at one place.
LEMMA OneTag ==
    ASSUME NEW s \in Seq(Pieces), NEW h \in Hits(s, OpenCall)
    PROVE  h \notin Hits(s, CloseThink)
BY OpenCallHits, CloseThinkHits

\* While the reasoning lasts: what was shown of it, held back and is yet to
\* come says what the reply says, and holds no tag so far.
ReasonFlow(reason, b, rest, tools, t) ==
    /\ reason \in Seq(Pieces) /\ b \in Seq(Pieces) /\ rest \in Seq(Pieces)
    /\ Unbroken(reason) /\ Unbroken(b \o rest)
    /\ Alike(reason \o (b \o rest), t)
    /\ Hits(reason \o b, CloseThink) = {}
    /\ tools => Hits(reason \o b, OpenCall) = {}

\* Afterwards: the reasoning and the answer say what the finished reply does.
EndFlow(reason, ans, rest, thinking, tools, t) ==
    /\ Alike(reason, SplitFinished(t, thinking, tools).reason)
    /\ Alike(ans \o rest, SplitFinished(t, thinking, tools).rest)

\* The finished reply, cut at a tag behind p.
LEMMA SplitCut ==
    ASSUME NEW p \in Seq(Pieces), NEW q \in Seq(Pieces), NEW tools \in BOOLEAN,
           NEW thinking \in BOOLEAN, thinking,
           Unbroken(p), Unbroken(q), Hits(p, CloseThink) = {},
           tools => Hits(p, OpenCall) = {}
    PROVE  /\ tools => LET w == p \o (OpenCall \o q)
                       IN  SplitFinished(w, thinking, tools) =
                               [reason |-> StripNoise(p), rest |-> OpenCall \o q]
           /\ LET w == p \o (CloseThink \o q)
              IN  SplitFinished(w, thinking, tools) = [reason |-> p, rest |-> LStrip(q)]
           /\ SplitFinished(p, thinking, tools) = [reason |-> p, rest |-> <<>>]
<1>1. OpenCall \in Tags /\ CloseThink \in Tags
    BY DEF Tags
<1>2. /\ OpenCall \in Seq(Pieces) /\ Unbroken(OpenCall)
      /\ CloseThink \in Seq(Pieces) /\ Unbroken(CloseThink)
    BY <1>1, TagShapes DEF TagShape
<1>3. ASSUME NEW tag \in Tags, NEW other \in Tags, Hits(p, tag) = {}, Hits(p, other) = {}
      PROVE  LET w == p \o (tag \o q)
             IN  /\ w \in Seq(Pieces) /\ CutFirst(w, tag, p, q)
                 /\ Find(w, tag) \in Hits(w, tag) /\ Find(w, tag) \in Nat \ {0}
                 /\ Find(w, other) \in Nat
                 /\ Find(w, other) # 0 =>
                        Find(w, other) \in Hits(w, other) /\ Find(w, tag) <= Find(w, other)
    <2>1. tag \in Seq(Pieces) /\ Unbroken(tag)
        BY TagShapes DEF TagShape
    <2>2. PICK r \in Seq(Pieces) : r = tag \o q /\ Unbroken(r)
        BY <2>1, UnbrokenParts, ConcatProperties
    <2>3. PICK w \in Seq(Pieces) : w = p \o r
        BY ConcatProperties
    <2>4. CutFirst(w, tag, p, q)
        BY <1>3, <2>2, <2>3, FirstAt
    <2>5. Find(w, tag) = Len(p) + 1 /\ Len(p) \in Nat
        BY <2>4, LenProperties DEF CutFirst
    <2>6. Find(w, tag) \in Hits(w, tag)
        BY <2>5, FirstFacts
    <2>7. Find(w, other) \in Nat /\ (Find(w, other) # 0 => Find(w, other) \in Hits(w, other))
        BY FirstFacts, LenProperties
    <2>8. ASSUME Find(w, other) # 0
          PROVE  Find(w, tag) <= Find(w, other)
        <3>1. Begins(r)
            BY <2>2, UnbrokenBegins
        <3>2. Find(w, other) \in Hits(p \o r, other)
            BY <2>3, <2>7, <2>8
        <3>3. Find(w, other) - Len(p) \in Hits(r, other)
            BY <1>3, <3>1, <3>2, HitsJoin
        <3>4. Find(w, other) - Len(p) \in 1 .. Len(r)
            BY <3>3, TagPlace
        <3> QED
            BY <2>5, <2>7, <3>4
    <2> QED
        BY <2>2, <2>3, <2>4, <2>5, <2>6, <2>7, <2>8
<1>4. ASSUME tools
      PROVE  LET w == p \o (OpenCall \o q)
             IN  SplitFinished(w, thinking, tools) =
                     [reason |-> StripNoise(p), rest |-> OpenCall \o q]
    <2> DEFINE w == p \o (OpenCall \o q)
    <2>1. /\ w \in Seq(Pieces) /\ CutFirst(w, OpenCall, p, q)
          /\ Find(w, OpenCall) \in Hits(w, OpenCall) /\ Find(w, OpenCall) \in Nat \ {0}
          /\ Find(w, CloseThink) \in Nat
          /\ Find(w, CloseThink) # 0 => /\ Find(w, CloseThink) \in Hits(w, CloseThink)
                                        /\ Find(w, OpenCall) <= Find(w, CloseThink)
        BY <1>1, <1>3, <1>4
    <2> HIDE DEF w
    <2>2. Find(w, CloseThink) # 0 => Find(w, OpenCall) # Find(w, CloseThink)
        BY <2>1, OneTag
    <2>3. ToolFirst(Find(w, OpenCall), Find(w, CloseThink))
        BY <2>1, <2>2 DEF ToolFirst
    <2>4. SplitFinished(w, thinking, tools) = [reason |-> StripNoise(Upto(w, Find(w, OpenCall))),
                                           rest |-> From(w, Find(w, OpenCall))]
        BY <1>4, <2>3 DEF SplitFinished
    <2>5. Upto(w, Find(w, OpenCall)) = p /\ From(w, Find(w, OpenCall)) = OpenCall \o q
        BY <2>1 DEF CutFirst
    <2> QED
        BY <2>4, <2>5 DEF w
<1>5. LET w == p \o (CloseThink \o q)
      IN  SplitFinished(w, thinking, tools) = [reason |-> p, rest |-> LStrip(q)]
    <2> DEFINE w == p \o (CloseThink \o q)
    <2>1. /\ w \in Seq(Pieces) /\ CutFirst(w, CloseThink, p, q)
          /\ Find(w, CloseThink) \in Nat \ {0}
        BY <1>1, <1>3
    <2>2. tools => /\ Find(w, OpenCall) \in Nat
                   /\ Find(w, OpenCall) # 0 => Find(w, CloseThink) <= Find(w, OpenCall)
        BY <1>1, <1>3
    <2> HIDE DEF w
    <2>3. ~ToolFirst(IF tools THEN Find(w, OpenCall) ELSE 0, Find(w, CloseThink))
        BY <2>1, <2>2 DEF ToolFirst
    <2>4. SplitFinished(w, thinking, tools) =
              [reason |-> Upto(w, Find(w, CloseThink)),
               rest |-> LStrip(From(w, Find(w, CloseThink) + Len(CloseThink)))]
        BY <2>1, <2>3 DEF SplitFinished
    <2>5. /\ Upto(w, Find(w, CloseThink)) = p
          /\ From(w, Find(w, CloseThink) + Len(CloseThink)) = q
        BY <2>1 DEF CutFirst
    <2> QED
        BY <2>4, <2>5 DEF w
<1>6. SplitFinished(p, thinking, tools) = [reason |-> p, rest |-> <<>>]
    <2>1. Find(p, CloseThink) = 0 /\ (tools => Find(p, OpenCall) = 0)
        BY <1>1, FirstFacts
    <2> QED
        BY <2>1 DEF SplitFinished, ToolFirst
<1> QED
    BY <1>4, <1>5, <1>6

\* Cutting at a tag of a part that more text follows.
CutBehind(s, r, tag, h) ==
    /\ Upto(s, h) \in Seq(Pieces) /\ Unbroken(Upto(s, h))
    /\ From(s, h + Len(tag)) \in Seq(Pieces) /\ From(s, h + Len(tag)) \o r \in Seq(Pieces)
    /\ Unbroken(From(s, h + Len(tag)) \o r)
    /\ s \o r = Upto(s, h) \o (tag \o (From(s, h + Len(tag)) \o r))
    /\ From(s, h) = tag \o From(s, h + Len(tag))
    /\ From(s, h) \o r = tag \o (From(s, h + Len(tag)) \o r)

LEMMA CutBehindFacts ==
    ASSUME NEW s \in Seq(Pieces), NEW r \in Seq(Pieces), Unbroken(s \o r),
           NEW tag \in Tags, NEW h \in Hits(s, tag)
    PROVE  CutBehind(s, r, tag, h)
<1>1. Unbroken(s)
    BY UnbrokenParts
<1>2. /\ h \in 1 .. Len(s) + 1 /\ h + Len(tag) \in 1 .. Len(s) + 1
      /\ Upto(s, h) \in Seq(Pieces) /\ Unbroken(Upto(s, h)) /\ Len(Upto(s, h)) = h - 1
      /\ From(s, h + Len(tag)) \in Seq(Pieces)
      /\ s = Upto(s, h) \o From(s, h)
      /\ From(s, h) = tag \o From(s, h + Len(tag))
    BY <1>1, CutUnbroken
<1>3. PICK p \in Seq(Pieces) : p = Upto(s, h)
    BY <1>2
<1>4. PICK q \in Seq(Pieces) : q = From(s, h + Len(tag))
    BY <1>2
<1>5. tag \in Seq(Pieces) /\ TagShape(tag)
    BY TagShapes DEF TagShape
<1>6. s = p \o (tag \o q)
    BY <1>2, <1>3, <1>4
<1>7. PICK qr \in Seq(Pieces) : qr = q \o r
    BY ConcatProperties
<1>8. (tag \o q) \o r = tag \o qr
    <2>1. Associates(tag, q, r)
        BY <1>5, ThreeTexts
    <2> QED
        BY <1>7, <2>1 DEF Associates
<1>9. PICK tq \in Seq(Pieces) : tq = tag \o q
    BY <1>5, ConcatProperties
<1>10. PICK tqr \in Seq(Pieces) : tqr = tag \o qr
    BY <1>5, ConcatProperties
<1>11. s \o r = p \o tqr
    <2>1. Associates(p, tq, r)
        BY ThreeTexts
    <2> QED
        BY <1>6, <1>8, <1>9, <1>10, <2>1 DEF Associates
<1>12. PICK w \in Seq(Pieces) : w = s \o r
    BY ConcatProperties
<1>13. Unbroken(w) /\ w = p \o tqr
    BY <1>11, <1>12
<1>14. Begins(tqr)
    <2>1. Joins(tag, qr, tqr)
        BY <1>5, <1>10, JoinsFacts
    <2>2. 1 \in 1 .. Len(tag) /\ tag[1] = "<"
        BY <1>5 DEF TagShape
    <2>3. tqr[1] = "<"
        BY <2>1, <2>2 DEF Joins
    <2> QED
        BY <2>3 DEF Begins, Inner
<1>15. Unbroken(tqr)
    BY <1>13, <1>14, UnbrokenParts
<1>16. Begins(qr)
    <2> SUFFICES ASSUME Len(qr) > 0, qr[1] \in Inner
                 PROVE  FALSE
        BY DEF Begins
    <2>1. Joins(tag, qr, tqr)
        BY <1>5, <1>10, JoinsFacts
    <2>2. 1 \in 1 .. Len(qr) /\ Len(tag) \in 1 .. Len(tag) /\ Len(tag) \in Nat
        BY <1>5, LenProperties DEF TagShape
    <2>3. /\ Len(tag) + 1 \in 1 .. Len(tqr) /\ tqr[Len(tag) + 1] = qr[1]
          /\ tqr[Len(tag)] = tag[Len(tag)]
        BY <2>1, <2>2 DEF Joins
    <2>4. tqr[Len(tag) + 1 - 1] \in {"<", "/"} /\ Len(tag) + 1 - 1 = Len(tag)
        BY <1>15, <2>2, <2>3, UnbrokenFacts
    <2> QED
        BY <1>5, <2>3, <2>4 DEF TagShape
<1>17. Unbroken(qr)
    <2>1. Unbroken(tag \o qr)
        BY <1>10, <1>15
    <2> QED
        BY <1>5, <1>16, <2>1, UnbrokenParts
<1> QED
    BY <1>2, <1>3, <1>4, <1>7, <1>8, <1>10, <1>11, <1>17 DEF CutBehind

\* The same of the chunk the splitter sees, without the wrappers.
SeenFlow(reason, seen, rest, tools, t) ==
    /\ reason \in Seq(Pieces) /\ seen \in Seq(Pieces) /\ rest \in Seq(Pieces)
    /\ Unbroken(reason) /\ Unbroken(seen \o rest)
    /\ Alike(reason \o (seen \o rest), t)
    /\ Hits(reason, CloseThink) = {}
    /\ tools => Hits(reason, OpenCall) = {}

LEMMA ReasonSeen ==
    ASSUME NEW reason, NEW b, NEW u \in Seq(Pieces), NEW rest \in Seq(Pieces),
           NEW tools \in BOOLEAN, NEW t, ReasonFlow(reason, b, u \o rest, tools, t)
    PROVE  SeenFlow(reason, Seen(b, u, tools), rest, tools, t)
<1>1. /\ reason \in Seq(Pieces) /\ b \in Seq(Pieces)
      /\ Unbroken(reason) /\ Unbroken(b \o (u \o rest))
      /\ Alike(reason \o (b \o (u \o rest)), t)
      /\ Hits(reason \o b, CloseThink) = {}
      /\ tools => Hits(reason \o b, OpenCall) = {}
    BY DEF ReasonFlow
<1>2. PICK all \in Seq(Pieces) : all = b \o u
    BY <1>1, ConcatProperties
<1>3. PICK ar \in Seq(Pieces) : ar = all \o rest
    BY ConcatProperties
<1>4. b \o (u \o rest) = ar
    <2>1. Associates(b, u, rest)
        BY <1>1, ThreeTexts
    <2> QED
        BY <1>2, <1>3, <2>1 DEF Associates
<1>5. Unbroken(ar) /\ Alike(reason \o ar, t)
    BY <1>1, <1>4
<1>6. StandsFor(Seen(b, u, tools), all)
    <2>1. CASE tools
        BY <1>2, <2>1, DropStands DEF Seen
    <2>2. CASE ~tools
        BY <1>2, <2>2, StandsItself DEF Seen
    <2> QED
        BY <2>1, <2>2
<1>7. PICK seen : seen = Seen(b, u, tools)
    OBVIOUS
<1>8. StandsFor(seen, all)
    BY <1>6, <1>7
<1>9. seen \in Seq(Pieces) /\ Unbroken(seen \o rest)
    <2>1. Unbroken(all \o rest)
        BY <1>3, <1>5
    <2> QED
        BY <1>8, <2>1, StandsFacts
<1>10. Alike(reason \o (seen \o rest), reason \o ar)
    <2>1. Unbroken(reason \o ar)
        BY <1>5 DEF Alike
    <2>2. Unbroken(reason \o (all \o rest))
        BY <1>3, <2>1
    <2>3. /\ Unbroken(reason \o (seen \o rest))
          /\ Ink(reason \o (seen \o rest)) = Ink(reason \o (all \o rest))
        BY <1>1, <1>8, <2>2 DEF StandsFor
    <2>4. PICK sr \in Seq(Pieces) : sr = seen \o rest
        BY <1>9, ConcatProperties
    <2>5. reason \o sr \in Seq(Pieces) /\ reason \o ar \in Seq(Pieces)
        BY <1>1, ConcatProperties
    <2> QED
        BY <1>3, <2>1, <2>3, <2>4, <2>5 DEF Alike
<1>11. Alike(reason \o (seen \o rest), t)
    BY <1>5, <1>10, AlikeAgain
<1>12. Hits(reason, CloseThink) = {} /\ (tools => Hits(reason, OpenCall) = {})
    <2>1. Begins(b)
        <3>1. PICK ur \in Seq(Pieces) : ur = u \o rest
            BY ConcatProperties
        <3>2. Unbroken(b \o ur)
            BY <1>1, <3>1
        <3>3. Unbroken(b)
            BY <1>1, <3>2, UnbrokenParts
        <3> QED
            BY <1>1, <3>3, UnbrokenBegins
    <2>2. CloseThink \in Tags /\ OpenCall \in Tags
        BY DEF Tags
    <2> QED
        BY <1>1, <2>1, <2>2, QuietJoin
<1> QED
    BY <1>1, <1>7, <1>9, <1>11, <1>12 DEF SeenFlow

\* Cutting what is seen at its first tag.
FlowCut(reason, seen, rest, tools, tag, h) ==
    LET p == Upto(seen, h)
        q == From(seen, h + Len(tag))
    IN  /\ p \in Seq(Pieces) /\ q \in Seq(Pieces) /\ q \o rest \in Seq(Pieces)
        /\ reason \o p \in Seq(Pieces) /\ Unbroken(reason \o p) /\ Unbroken(q \o rest)
        /\ reason \o (seen \o rest) = (reason \o p) \o (tag \o (q \o rest))
        /\ From(seen, h) \o rest = tag \o (q \o rest)
        /\ Hits(reason \o p, CloseThink) = {}
        /\ tools => Hits(reason \o p, OpenCall) = {}

LEMMA FlowCutFacts ==
    ASSUME NEW reason, NEW seen, NEW rest, NEW tools \in BOOLEAN, NEW t,
           SeenFlow(reason, seen, rest, tools, t), NEW tag \in Tags, NEW h \in Hits(seen, tag),
           \A i \in Hits(seen, CloseThink) : h <= i,
           tools => \A i \in Hits(seen, OpenCall) : h <= i
    PROVE  FlowCut(reason, seen, rest, tools, tag, h)
<1>1. /\ reason \in Seq(Pieces) /\ seen \in Seq(Pieces) /\ rest \in Seq(Pieces)
      /\ Unbroken(reason) /\ Unbroken(seen \o rest)
      /\ Hits(reason, CloseThink) = {} /\ (tools => Hits(reason, OpenCall) = {})
    BY DEF SeenFlow
<1>2. Unbroken(seen)
    BY <1>1, UnbrokenParts
<1>3. CutBehind(seen, rest, tag, h)
    BY <1>1, CutBehindFacts
<1>4. PICK p : p = Upto(seen, h)
    OBVIOUS
<1>5. PICK q : q = From(seen, h + Len(tag))
    OBVIOUS
<1>6. /\ p \in Seq(Pieces) /\ Unbroken(p) /\ q \in Seq(Pieces) /\ q \o rest \in Seq(Pieces)
      /\ Unbroken(q \o rest) /\ seen \o rest = p \o (tag \o (q \o rest))
      /\ From(seen, h) \o rest = tag \o (q \o rest)
    BY <1>3, <1>4, <1>5 DEF CutBehind
<1>7. tag \in Seq(Pieces)
    BY TagShapes DEF TagShape
<1>8. reason \o p \in Seq(Pieces) /\ Unbroken(reason \o p)
    BY <1>1, <1>6, UnbrokenParts, ConcatProperties
<1>9. reason \o (p \o (tag \o (q \o rest))) = (reason \o p) \o (tag \o (q \o rest))
    <2>1. PICK x \in Seq(Pieces) : x = q \o rest
        BY <1>6
    <2>2. PICK y \in Seq(Pieces) : y = tag \o x
        BY <1>7, ConcatProperties
    <2>3. Associates(reason, p, y)
        BY <1>1, <1>6, ThreeTexts
    <2> QED
        BY <2>1, <2>2, <2>3 DEF Associates
<1>10. CloseThink \in Tags /\ OpenCall \in Tags
    BY DEF Tags
<1>11. Hits(p, CloseThink) = {} /\ (tools => Hits(p, OpenCall) = {})
    BY <1>1, <1>2, <1>4, <1>10, UptoQuiet
<1>12. Begins(p)
    BY <1>6, UnbrokenBegins
<1>13. Hits(reason \o p, CloseThink) = {} /\ (tools => Hits(reason \o p, OpenCall) = {})
    BY <1>1, <1>6, <1>10, <1>11, <1>12, QuietJoin
<1> QED
    BY <1>4, <1>5, <1>6, <1>8, <1>9, <1>13 DEF FlowCut

\* The first tag is a call.
LEMMA FlowCall ==
    ASSUME NEW reason, NEW seen, NEW rest, NEW t, NEW thinking \in BOOLEAN, thinking,
           NEW tools \in BOOLEAN, tools, SeenFlow(reason, seen, rest, tools, t),
           Find(seen, OpenCall) # 0,
           Find(seen, CloseThink) = 0 \/ Find(seen, OpenCall) < Find(seen, CloseThink)
    PROVE  EndFlow(reason \o RStrip(Upto(seen, Find(seen, OpenCall))),
                   From(seen, Find(seen, OpenCall)), rest, thinking, tools, t)
<1>1. /\ reason \in Seq(Pieces) /\ seen \in Seq(Pieces) /\ rest \in Seq(Pieces)
      /\ Alike(reason \o (seen \o rest), t)
    BY DEF SeenFlow
<1>2. CloseThink \in Tags /\ OpenCall \in Tags
    BY DEF Tags
<1>3. PICK h : h = Find(seen, OpenCall)
    OBVIOUS
<1>4. /\ h \in Hits(seen, OpenCall) /\ \A i \in Hits(seen, OpenCall) : h <= i
    BY <1>1, <1>2, <1>3, FirstFacts
<1>5. \A i \in Hits(seen, CloseThink) : h <= i
    <2> SUFFICES ASSUME NEW i \in Hits(seen, CloseThink)
                 PROVE  h <= i
        OBVIOUS
    <2>1. /\ Find(seen, CloseThink) # 0 /\ Find(seen, CloseThink) <= i
          /\ Find(seen, CloseThink) \in 0 .. Len(seen)
        BY <1>1, <1>2, FirstFacts
    <2>2. i \in 1 .. Len(seen) /\ h \in 1 .. Len(seen)
        BY <1>1, <1>2, <1>4, TagPlace
    <2>3. h < Find(seen, CloseThink)
        BY <1>3, <2>1
    <2> QED
        BY <2>1, <2>2, <2>3
<1>6. FlowCut(reason, seen, rest, tools, OpenCall, h)
    BY <1>2, <1>4, <1>5, FlowCutFacts
<1>7. PICK p : p = Upto(seen, h)
    OBVIOUS
<1>8. PICK z : z = From(seen, h + Len(OpenCall)) \o rest
    OBVIOUS
<1>9. PICK rp : rp = reason \o p
    OBVIOUS
<1>10. /\ p \in Seq(Pieces) /\ z \in Seq(Pieces) /\ rp \in Seq(Pieces)
       /\ Unbroken(rp) /\ Unbroken(z)
       /\ reason \o (seen \o rest) = rp \o (OpenCall \o z)
       /\ From(seen, h) \o rest = OpenCall \o z
       /\ Hits(rp, CloseThink) = {} /\ Hits(rp, OpenCall) = {}
    BY <1>6, <1>7, <1>8, <1>9 DEF FlowCut
<1>11. SplitFinished(rp \o (OpenCall \o z), thinking, tools)
           = [reason |-> StripNoise(rp), rest |-> OpenCall \o z]
    BY <1>10, SplitCut
<1>12. Alike(rp \o (OpenCall \o z), t)
    BY <1>1, <1>10
<1>13. /\ Alike(StripNoise(rp), SplitFinished(t, thinking, tools).reason)
       /\ Alike(OpenCall \o z, SplitFinished(t, thinking, tools).rest)
    <2>1. PICK w : w = rp \o (OpenCall \o z)
        OBVIOUS
    <2>2. SplitFinished(w, thinking, tools) = [reason |-> StripNoise(rp), rest |-> OpenCall \o z]
        BY ONLY <1>11, <2>1
    <2>s. /\ SplitFinished(w, thinking, tools).reason = StripNoise(rp)
          /\ SplitFinished(w, thinking, tools).rest = OpenCall \o z
        BY ONLY <2>2
    <2>3. Alike(w, t)
        BY <1>12, <2>1
    <2>4. /\ Alike(SplitFinished(w, thinking, tools).reason, SplitFinished(t, thinking, tools).reason)
          /\ Alike(SplitFinished(w, thinking, tools).rest, SplitFinished(t, thinking, tools).rest)
        BY <2>3, AlikeSplit
    <2> QED
        BY <2>s, <2>4
<1>14. Alike(reason \o RStrip(p), StripNoise(rp))
    <2>1. StandsFor(RStrip(p), p)
        BY <1>10, RStripStands
    <2>2. /\ RStrip(p) \in Seq(Pieces) /\ Unbroken(reason \o RStrip(p))
          /\ Ink(reason \o RStrip(p)) = Ink(reason \o p)
        BY <1>1, <1>9, <1>10, <2>1, StandsFacts
    <2>3. reason \o RStrip(p) \in Seq(Pieces)
        BY <1>1, <2>2, ConcatProperties
    <2>4. Alike(reason \o RStrip(p), rp)
        BY <1>9, <1>10, <2>2, <2>3 DEF Alike
    <2>5. StandsFor(StripNoise(rp), rp)
        BY <1>10, StripNoiseStands
    <2>6. Alike(rp, StripNoise(rp))
        BY <1>10, <2>5, AlikeStands, AlikeTurned
    <2> QED
        BY <2>4, <2>6, AlikeAgain
<1>15. Alike(reason \o RStrip(p), SplitFinished(t, thinking, tools).reason)
    BY <1>13, <1>14, AlikeAgain
<1> QED
    BY <1>3, <1>7, <1>10, <1>13, <1>15 DEF EndFlow

\* The first tag ends the reasoning.
LEMMA FlowStop ==
    ASSUME NEW reason, NEW seen, NEW rest, NEW tools \in BOOLEAN, NEW t,
           NEW thinking \in BOOLEAN, thinking,
           SeenFlow(reason, seen, rest, tools, t), Find(seen, CloseThink) # 0,
           tools => Find(seen, OpenCall) = 0 \/ Find(seen, CloseThink) <= Find(seen, OpenCall)
    PROVE  EndFlow(reason \o Upto(seen, Find(seen, CloseThink)),
                   LStrip(From(seen, Find(seen, CloseThink) + Len(CloseThink))), rest,
                   thinking, tools, t)
<1>1. /\ reason \in Seq(Pieces) /\ seen \in Seq(Pieces) /\ rest \in Seq(Pieces)
      /\ Alike(reason \o (seen \o rest), t)
    BY DEF SeenFlow
<1>2. CloseThink \in Tags /\ OpenCall \in Tags
    BY DEF Tags
<1>3. PICK h : h = Find(seen, CloseThink)
    OBVIOUS
<1>4. /\ h \in Hits(seen, CloseThink) /\ \A i \in Hits(seen, CloseThink) : h <= i
    BY <1>1, <1>2, <1>3, FirstFacts
<1>5. tools => \A i \in Hits(seen, OpenCall) : h <= i
    <2> SUFFICES ASSUME tools, NEW i \in Hits(seen, OpenCall)
                 PROVE  h <= i
        OBVIOUS
    <2>1. /\ Find(seen, OpenCall) # 0 /\ Find(seen, OpenCall) <= i
          /\ Find(seen, OpenCall) \in 0 .. Len(seen)
        BY <1>1, <1>2, FirstFacts
    <2>2. i \in 1 .. Len(seen) /\ h \in 1 .. Len(seen)
        BY <1>1, <1>2, <1>4, TagPlace
    <2>3. h <= Find(seen, OpenCall)
        BY <1>3, <2>1
    <2> QED
        BY <2>1, <2>2, <2>3
<1>6. FlowCut(reason, seen, rest, tools, CloseThink, h)
    BY <1>2, <1>4, <1>5, FlowCutFacts
<1>7. PICK q : q = From(seen, h + Len(CloseThink))
    OBVIOUS
<1>8. PICK z : z = q \o rest
    OBVIOUS
<1>9. PICK rp : rp = reason \o Upto(seen, h)
    OBVIOUS
<1>10. /\ q \in Seq(Pieces) /\ z \in Seq(Pieces) /\ rp \in Seq(Pieces)
       /\ Unbroken(rp) /\ Unbroken(z)
       /\ reason \o (seen \o rest) = rp \o (CloseThink \o z)
       /\ Hits(rp, CloseThink) = {} /\ (tools => Hits(rp, OpenCall) = {})
    BY <1>6, <1>7, <1>8, <1>9 DEF FlowCut
<1>11. SplitFinished(rp \o (CloseThink \o z), thinking, tools) = [reason |-> rp, rest |-> LStrip(z)]
    BY <1>10, SplitCut
<1>12. Alike(rp \o (CloseThink \o z), t)
    BY <1>1, <1>10
<1>13. /\ Alike(rp, SplitFinished(t, thinking, tools).reason)
       /\ Alike(LStrip(z), SplitFinished(t, thinking, tools).rest)
    <2>1. PICK w : w = rp \o (CloseThink \o z)
        OBVIOUS
    <2>2. SplitFinished(w, thinking, tools) = [reason |-> rp, rest |-> LStrip(z)]
        BY ONLY <1>11, <2>1
    <2>s. /\ SplitFinished(w, thinking, tools).reason = rp
          /\ SplitFinished(w, thinking, tools).rest = LStrip(z)
        BY ONLY <2>2
    <2>3. Alike(w, t)
        BY <1>12, <2>1
    <2>4. /\ Alike(SplitFinished(w, thinking, tools).reason, SplitFinished(t, thinking, tools).reason)
          /\ Alike(SplitFinished(w, thinking, tools).rest, SplitFinished(t, thinking, tools).rest)
        BY <2>3, AlikeSplit
    <2> QED
        BY <2>s, <2>4
<1>14. Alike(LStrip(q) \o rest, LStrip(z))
    <2>1. StandsFor(LStrip(q), q) /\ StandsFor(LStrip(z), z)
        BY <1>10, LStripStands
    <2>2. /\ LStrip(q) \in Seq(Pieces) /\ Unbroken(LStrip(q) \o rest)
          /\ Ink(LStrip(q) \o rest) = Ink(q \o rest)
        BY <1>1, <1>8, <1>10, <2>1, StandsFacts
    <2>3. LStrip(q) \o rest \in Seq(Pieces)
        BY <1>1, <2>2, ConcatProperties
    <2>4. Alike(LStrip(q) \o rest, z)
        BY <1>8, <1>10, <2>2, <2>3 DEF Alike
    <2>5. Alike(z, LStrip(z))
        BY <1>10, <2>1, AlikeStands, AlikeTurned
    <2> QED
        BY <2>4, <2>5, AlikeAgain
<1>15. Alike(LStrip(q) \o rest, SplitFinished(t, thinking, tools).rest)
    BY <1>13, <1>14, AlikeAgain
<1> QED
    BY <1>3, <1>7, <1>9, <1>13, <1>15 DEF EndFlow

\* There is none yet.
LEMMA FlowOn ==
    ASSUME NEW reason, NEW seen, NEW rest, NEW tools \in BOOLEAN, NEW t,
           SeenFlow(reason, seen, rest, tools, t), Find(seen, CloseThink) = 0,
           tools => Find(seen, OpenCall) = 0
    PROVE  LET cut == Len(seen) - Opener(seen) + 1
           IN  ReasonFlow(reason \o Upto(seen, cut), From(seen, cut), rest, tools, t)
<1>1. /\ reason \in Seq(Pieces) /\ seen \in Seq(Pieces) /\ rest \in Seq(Pieces)
      /\ Unbroken(reason) /\ Unbroken(seen \o rest)
      /\ Alike(reason \o (seen \o rest), t)
      /\ Hits(reason, CloseThink) = {} /\ (tools => Hits(reason, OpenCall) = {})
    BY DEF SeenFlow
<1>2. CloseThink \in Tags /\ OpenCall \in Tags
    BY DEF Tags
<1>3. PICK cut : cut = Len(seen) - Opener(seen) + 1
    OBVIOUS
<1>4. KeptBack(seen, rest)
    BY <1>1, KeptUnbroken
<1>5. PICK p : p = Upto(seen, cut)
    OBVIOUS
<1>6. PICK b : b = From(seen, cut)
    OBVIOUS
<1>7. /\ p \in Seq(Pieces) /\ b \in Seq(Pieces) /\ seen = p \o b
      /\ seen \o rest = p \o (b \o rest) /\ Unbroken(p)
      /\ b \o rest \in Seq(Pieces) /\ Unbroken(b \o rest)
    BY <1>3, <1>4, <1>5, <1>6 DEF KeptBack
<1>8. PICK rp : rp = reason \o p
    OBVIOUS
<1>9. rp \in Seq(Pieces) /\ Unbroken(rp)
    BY <1>1, <1>7, <1>8, UnbrokenParts, ConcatProperties
<1>10. rp \o b = reason \o seen
    <2>1. Associates(reason, p, b)
        BY <1>1, <1>7, ThreeTexts
    <2> QED
        BY <1>7, <1>8, <2>1 DEF Associates
<1>11. rp \o (b \o rest) = reason \o (seen \o rest)
    <2>1. PICK br \in Seq(Pieces) : br = b \o rest
        BY <1>7
    <2>2. Associates(reason, p, br)
        BY <1>1, <1>7, ThreeTexts
    <2> QED
        BY <1>7, <1>8, <2>1, <2>2 DEF Associates
<1>12. Begins(seen)
    <2>1. Unbroken(seen)
        BY <1>1, UnbrokenParts
    <2> QED
        BY <1>1, <2>1, UnbrokenBegins
<1>13. Hits(seen, CloseThink) = {} /\ (tools => Hits(seen, OpenCall) = {})
    BY <1>1, <1>2, FirstFacts
<1>14. Hits(reason \o seen, CloseThink) = {} /\ (tools => Hits(reason \o seen, OpenCall) = {})
    BY <1>1, <1>2, <1>12, <1>13, QuietJoin
<1>15. ReasonFlow(rp, b, rest, tools, t)
    BY <1>1, <1>7, <1>9, <1>10, <1>11, <1>14 DEF ReasonFlow
<1> QED
    BY <1>3, <1>5, <1>6, <1>8, <1>15

\* A chunk through the reasoning splitter.
LEMMA ThinkFed ==
    ASSUME NEW k \in ThinkStates, ~k.done, NEW u \in Seq(Pieces), NEW rest \in Seq(Pieces),
           NEW thinking \in BOOLEAN, thinking, NEW tools \in BOOLEAN, NEW t, NEW reason,
           ReasonFlow(reason, k.buffer, u \o rest, tools, t)
    PROVE  LET fed == ThinkFeed(k, u, tools)
           IN  /\ ~fed.next.done =>
                     /\ fed.rest = <<>>
                     /\ ReasonFlow(reason \o fed.reason, fed.next.buffer, rest, tools, t)
               /\ fed.next.done =>
                     EndFlow(reason \o fed.reason, fed.rest, rest, thinking, tools, t)
<1> DEFINE fed == ThinkFeed(k, u, tools)
<1>1. PICK seen : seen = Seen(k.buffer, u, tools)
    OBVIOUS
<1>2. SeenFlow(reason, seen, rest, tools, t)
    BY <1>1, ReasonSeen
<1>3. \/ /\ tools /\ Find(seen, OpenCall) # 0
         /\ Find(seen, CloseThink) = 0 \/ Find(seen, OpenCall) < Find(seen, CloseThink)
         /\ fed.next = [buffer |-> <<>>, done |-> TRUE]
         /\ fed.reason = RStrip(Upto(seen, Find(seen, OpenCall)))
         /\ fed.rest = From(seen, Find(seen, OpenCall))
      \/ /\ Find(seen, CloseThink) # 0
         /\ tools => Find(seen, OpenCall) = 0 \/ Find(seen, CloseThink) <= Find(seen, OpenCall)
         /\ fed.next = [buffer |-> <<>>, done |-> TRUE]
         /\ fed.reason = Upto(seen, Find(seen, CloseThink))
         /\ fed.rest = LStrip(From(seen, Find(seen, CloseThink) + Len(CloseThink)))
      \/ /\ Find(seen, CloseThink) = 0 /\ (tools => Find(seen, OpenCall) = 0)
         /\ fed.next = [buffer |-> From(seen, Len(seen) - Opener(seen) + 1), done |-> k.done]
         /\ fed.reason = Upto(seen, Len(seen) - Opener(seen) + 1)
         /\ fed.rest = <<>>
    BY <1>1, ThinkCases DEF Seen
<1> HIDE DEF fed
<1>4. CASE /\ tools /\ Find(seen, OpenCall) # 0
           /\ Find(seen, CloseThink) = 0 \/ Find(seen, OpenCall) < Find(seen, CloseThink)
           /\ fed.next = [buffer |-> <<>>, done |-> TRUE]
           /\ fed.reason = RStrip(Upto(seen, Find(seen, OpenCall)))
           /\ fed.rest = From(seen, Find(seen, OpenCall))
    <2>1. EndFlow(reason \o RStrip(Upto(seen, Find(seen, OpenCall))),
                  From(seen, Find(seen, OpenCall)), rest, thinking, tools, t)
        BY <1>2, <1>4, FlowCall
    <2>2. EndFlow(reason \o fed.reason, fed.rest, rest, thinking, tools, t)
        BY <1>4, <2>1
    <2>3. fed.next.done
        BY ONLY <1>4
    <2> QED
        BY <2>2, <2>3 DEF fed
<1>5. CASE /\ Find(seen, CloseThink) # 0
           /\ tools => Find(seen, OpenCall) = 0 \/ Find(seen, CloseThink) <= Find(seen, OpenCall)
           /\ fed.next = [buffer |-> <<>>, done |-> TRUE]
           /\ fed.reason = Upto(seen, Find(seen, CloseThink))
           /\ fed.rest = LStrip(From(seen, Find(seen, CloseThink) + Len(CloseThink)))
    <2>1. EndFlow(reason \o Upto(seen, Find(seen, CloseThink)),
                  LStrip(From(seen, Find(seen, CloseThink) + Len(CloseThink))), rest,
                  thinking, tools, t)
        BY <1>2, <1>5, FlowStop
    <2>2. EndFlow(reason \o fed.reason, fed.rest, rest, thinking, tools, t)
        BY <1>5, <2>1
    <2>3. fed.next.done
        BY ONLY <1>5
    <2> QED
        BY <2>2, <2>3 DEF fed
<1>6. CASE /\ Find(seen, CloseThink) = 0 /\ (tools => Find(seen, OpenCall) = 0)
           /\ fed.next = [buffer |-> From(seen, Len(seen) - Opener(seen) + 1), done |-> k.done]
           /\ fed.reason = Upto(seen, Len(seen) - Opener(seen) + 1)
           /\ fed.rest = <<>>
    <2>1. ReasonFlow(reason \o Upto(seen, Len(seen) - Opener(seen) + 1),
                     From(seen, Len(seen) - Opener(seen) + 1), rest, tools, t)
        BY <1>2, <1>6, FlowOn
    <2>2. /\ ReasonFlow(reason \o fed.reason, fed.next.buffer, rest, tools, t)
          /\ ~fed.next.done /\ fed.rest = <<>>
        BY <1>6, <2>1
    <2> QED
        BY <2>2 DEF fed
<1> QED
    BY <1>3, <1>4, <1>5, <1>6

\* The end of the stream, reasoning all along: what is held back is flushed.
LEMMA ThinkFlushed ==
    ASSUME NEW reason, NEW b, NEW thinking \in BOOLEAN, thinking, NEW tools \in BOOLEAN,
           NEW t, ReasonFlow(reason, b, <<>>, tools, t)
    PROVE  EndFlow(reason \o (IF tools THEN DropWrappers(b) ELSE b), <<>>, <<>>,
                   thinking, tools, t)
<1>1. /\ reason \in Seq(Pieces) /\ b \in Seq(Pieces)
      /\ Alike(reason \o (b \o <<>>), t)
      /\ Hits(reason \o b, CloseThink) = {}
      /\ tools => Hits(reason \o b, OpenCall) = {}
    BY DEF ReasonFlow
<1>2. PICK w \in Seq(Pieces) : w = reason \o b
    BY <1>1, ConcatProperties
<1>3. b \o <<>> = b
    BY <1>1, ConcatEmptySeq
<1>4. Alike(w, t) /\ Unbroken(w)
    BY <1>1, <1>2, <1>3 DEF Alike
<1>5. <<>> \in Seq(Pieces) /\ Unbroken(<<>>) /\ Alike(<<>>, <<>>)
    BY NothingUnbroken
<1>6. SplitFinished(w, thinking, tools) = [reason |-> w, rest |-> <<>>]
    BY <1>1, <1>2, <1>4, <1>5, SplitCut
<1>7. /\ Alike(w, SplitFinished(t, thinking, tools).reason)
      /\ Alike(<<>>, SplitFinished(t, thinking, tools).rest)
    <2>1. /\ SplitFinished(w, thinking, tools).reason = w
          /\ SplitFinished(w, thinking, tools).rest = <<>>
        BY ONLY <1>6
    <2> QED
        BY <1>4, <2>1, AlikeSplit
<1>8. PICK d : d = IF tools THEN DropWrappers(b) ELSE b
    OBVIOUS
<1>9. StandsFor(d, b)
    <2>1. CASE tools
        BY <1>1, <1>8, <2>1, DropStands
    <2>2. CASE ~tools
        BY <1>1, <1>8, <2>2, StandsItself
    <2> QED
        BY <2>1, <2>2
<1>10. Alike(reason \o d, w)
    <2>1. d \in Seq(Pieces) /\ Unbroken(reason \o d) /\ Ink(reason \o d) = Ink(reason \o b)
        <3>1. Unbroken(reason \o b)
            BY <1>2, <1>4
        <3> QED
            BY <1>1, <1>9, <3>1, StandsFacts
    <2>2. reason \o d \in Seq(Pieces)
        BY <1>1, <2>1, ConcatProperties
    <2> QED
        BY <1>2, <1>4, <2>1, <2>2 DEF Alike
<1>11. Alike(reason \o d, SplitFinished(t, thinking, tools).reason)
    BY <1>7, <1>10, AlikeAgain
<1>12. <<>> \o <<>> = <<>>
    OBVIOUS
<1> QED
    BY <1>7, <1>8, <1>11, <1>12 DEF EndFlow

\* Nothing of the text before a call was lost when the call was found.
LEMMA ContentAlike ==
    ASSUME NEW content \in Seq(Pieces), NEW c, NEW ans \in Seq(Pieces), Unbroken(ans),
           CallFlowOf(content, c, ans), c.stopped
    PROVE  Find(ans, OpenCall) # 0 /\ Alike(content, Upto(ans, Find(ans, OpenCall)))
<1>1. /\ Find(ans, OpenCall) # 0
      /\ \E a, b \in Seq(Pieces) : /\ a \o b = Upto(ans, Find(ans, OpenCall))
                                   /\ content = a \o StripNoise(b)
    BY DEF CallFlowOf
<1>2. PICK a \in Seq(Pieces), b \in Seq(Pieces) :
          a \o b = Upto(ans, Find(ans, OpenCall)) /\ content = a \o StripNoise(b)
    BY <1>1
<1>3. OpenCall \in Tags
    BY DEF Tags
<1>4. Find(ans, OpenCall) \in Hits(ans, OpenCall)
    BY <1>1, <1>3, FirstFacts
<1>5. PICK p \in Seq(Pieces) : p = Upto(ans, Find(ans, OpenCall)) /\ Unbroken(p)
    BY <1>3, <1>4, CutUnbroken
<1>6. StandsFor(StripNoise(b), b)
    BY StripNoiseStands
<1>7. Unbroken(a \o b)
    BY <1>2, <1>5
<1>8. Unbroken(a \o StripNoise(b)) /\ Ink(a \o StripNoise(b)) = Ink(a \o b)
    BY <1>6, <1>7, StandsFacts
<1> QED
    BY <1>1, <1>2, <1>5, <1>8 DEF Alike

\* What is settled of a text that goes on leads what the whole text says.
LEMMA SettledLeads ==
    ASSUME NEW s \in Seq(Pieces), NEW v \in Seq(Pieces), NEW t, Alike(s \o v, t)
    PROVE  /\ IsPrefix(Ink(Settled(s)), Ink(t))
           /\ \A tag \in Tags : Hits(s, tag) = {} /\ Find(t, tag) # 0 =>
                                    IsPrefix(Ink(Settled(s)), Ink(Upto(t, Find(t, tag))))
<1>1. PICK cut : cut = Len(s) - Opener(s) + 1
    OBVIOUS
<1>2. PICK st : st = Upto(s, cut)
    OBVIOUS
<1>3. Settled(s) = st
    <2>1. HeldBack(s, Wrappers) = Opener(s)
        BY HeldWrapper
    <2> QED
        BY <1>1, <1>2, <2>1 DEF Settled
<1>4. PICK b : b = From(s, cut)
    OBVIOUS
<1>5. KeptBack(s, v)
    BY KeptUnbroken DEF Alike
<1>6. /\ st \in Seq(Pieces) /\ b \in Seq(Pieces) /\ s = st \o b
      /\ s \o v = st \o (b \o v) /\ Unbroken(st)
      /\ b \o v \in Seq(Pieces) /\ Unbroken(b \o v)
    BY <1>1, <1>2, <1>4, <1>5 DEF KeptBack
<1>7. Alike(st \o (b \o v), t)
    BY <1>6
<1>8. /\ IsPrefix(Ink(st), Ink(t))
      /\ \A tag \in Tags : Hits(st, tag) = {} /\ Find(t, tag) # 0 =>
                               IsPrefix(Ink(st), Ink(Upto(t, Find(t, tag))))
    <2>1. PICK bv \in Seq(Pieces) : bv = b \o v /\ Unbroken(bv)
        BY <1>6
    <2>2. Alike(st \o bv, t)
        BY <1>7, <2>1
    <2> QED
        BY <1>6, <2>1, <2>2, Leads
<1>9. Begins(b)
    <2>1. Unbroken(b)
        BY <1>6, UnbrokenParts
    <2> QED
        BY <1>6, <2>1, UnbrokenBegins
<1>10. \A tag \in Tags : Hits(s, tag) = {} => Hits(st, tag) = {}
    <2> SUFFICES ASSUME NEW tag \in Tags, Hits(s, tag) = {}
                 PROVE  Hits(st, tag) = {}
        OBVIOUS
    <2>1. Hits(st \o b, tag) = {}
        BY <1>6
    <2> QED
        BY <1>6, <1>9, <2>1, QuietJoin
<1> QED
    BY <1>3, <1>8, <1>10

\* The text up to the first call, or all of it.
Before(s) == IF Find(s, OpenCall) # 0 THEN Upto(s, Find(s, OpenCall)) ELSE s

LEMMA AlikeBefore ==
    ASSUME NEW s, NEW t, Alike(s, t)
    PROVE  Alike(Before(s), Before(t))
<1>1. OpenCall \in Tags
    BY DEF Tags
<1> QED
    BY <1>1, AlikeCut DEF Before

\* What the tool-call splitter has shown leads the text before the calls.
LEMMA ContentLeads ==
    ASSUME NEW content \in Seq(Pieces), NEW c, NEW ans \in Seq(Pieces),
           NEW rest \in Seq(Pieces), NEW t, Alike(ans \o rest, t), CallFlowOf(content, c, ans)
    PROVE  IsPrefix(Ink(Settled(content)), Ink(Before(t)))
<1>1. OpenCall \in Tags
    BY DEF Tags
<1>2. PICK w \in Seq(Pieces) : w = ans \o rest
    BY ConcatProperties
<1>3. Alike(w, t) /\ Unbroken(w) /\ Unbroken(ans)
    <2>1. Alike(w, t)
        BY <1>2
    <2>2. Unbroken(ans \o rest)
        BY <1>2, <2>1 DEF Alike
    <2> QED
        BY <1>2, <2>1, <2>2, UnbrokenParts
<1>4. CASE c.stopped
    <2>1. Find(ans, OpenCall) # 0 /\ Alike(content, Upto(ans, Find(ans, OpenCall)))
        BY <1>3, <1>4, ContentAlike
    <2>2. Before(w) = Upto(ans, Find(ans, OpenCall))
        BY <1>2, <2>1, FoundStays DEF Before
    <2>3. Alike(Before(w), Before(t))
        BY <1>3, AlikeBefore
    <2>4. Alike(content, Before(t))
        BY <2>1, <2>2, <2>3, AlikeAgain
    <2>5. <<>> \in Seq(Pieces) /\ content \o <<>> = content
        BY ConcatEmptySeq
    <2>6. Alike(content \o <<>>, Before(t))
        BY <2>4, <2>5
    <2> QED
        BY <2>5, <2>6, SettledLeads
<1>5. CASE ~c.stopped
    <2>1. content \o c.buffer = ans /\ Find(ans, OpenCall) = 0 /\ c.buffer \in {<<>>, <<"<">>}
        BY <1>5 DEF CallFlowOf
    <2>2. c.buffer \in Seq(Pieces) /\ Begins(c.buffer)
        <3>1. CASE c.buffer = <<>>
            BY <3>1 DEF Begins
        <3>2. CASE c.buffer = <<"<">>
            BY <3>2 DEF Begins, Inner, Pieces
        <3> QED
            BY <2>1, <3>1, <3>2
    <2>3. PICK v \in Seq(Pieces) : v = c.buffer \o rest
        BY <2>2, ConcatProperties
    <2>4. content \o v = w
        <3>1. Associates(content, c.buffer, rest)
            BY <2>2, ThreeTexts
        <3> QED
            BY <1>2, <2>1, <2>3, <3>1 DEF Associates
    <2>5. Hits(content, OpenCall) = {}
        <3>1. Hits(content \o c.buffer, OpenCall) = {}
            BY <1>1, <2>1, FirstFacts
        <3> QED
            BY <1>1, <2>2, <3>1, QuietJoin
    <2>6. Alike(content \o v, t)
        BY <1>3, <2>4
    <2>7. /\ IsPrefix(Ink(Settled(content)), Ink(t))
          /\ Find(t, OpenCall) # 0 => IsPrefix(Ink(Settled(content)), Ink(Upto(t, Find(t, OpenCall))))
        BY <1>1, <2>5, <2>6, SettledLeads
    <2> QED
        BY <2>7 DEF Before
<1> QED
    BY <1>4, <1>5

\* What was shown of the reasoning leads the reasoning of the finished reply.
LEMMA ReasonLeads ==
    ASSUME NEW reason, NEW b, NEW rest, NEW thinking \in BOOLEAN, thinking,
           NEW tools \in BOOLEAN, NEW t, ReasonFlow(reason, b, rest, tools, t)
    PROVE  IsPrefix(Ink(Settled(reason)), Ink(SplitFinished(t, thinking, tools).reason))
<1>1. /\ reason \in Seq(Pieces) /\ b \in Seq(Pieces) /\ rest \in Seq(Pieces)
      /\ Unbroken(b \o rest) /\ Alike(reason \o (b \o rest), t)
      /\ Hits(reason \o b, CloseThink) = {} /\ (tools => Hits(reason \o b, OpenCall) = {})
    BY DEF ReasonFlow
<1>2. CloseThink \in Tags /\ OpenCall \in Tags
    BY DEF Tags
<1>3. Begins(b)
    <2>1. Unbroken(b)
        BY <1>1, UnbrokenParts
    <2> QED
        BY <1>1, <2>1, UnbrokenBegins
<1>4. Hits(reason, CloseThink) = {} /\ (tools => Hits(reason, OpenCall) = {})
    BY <1>1, <1>2, <1>3, QuietJoin
<1>5. PICK v \in Seq(Pieces) : v = b \o rest
    BY <1>1, ConcatProperties
<1>6. Alike(reason \o v, t)
    BY <1>1, <1>5
<1>7. PICK lead : lead = Ink(Settled(reason))
    OBVIOUS
<1>8. /\ IsPrefix(lead, Ink(t))
      /\ Find(t, CloseThink) # 0 => IsPrefix(lead, Ink(Upto(t, Find(t, CloseThink))))
      /\ tools /\ Find(t, OpenCall) # 0 => IsPrefix(lead, Ink(Upto(t, Find(t, OpenCall))))
    BY <1>1, <1>2, <1>4, <1>6, <1>7, SettledLeads
<1>9. t \in Seq(Pieces) /\ Unbroken(t)
    BY <1>6 DEF Alike
<1>10. PICK tool : tool = IF tools THEN Find(t, OpenCall) ELSE 0
    OBVIOUS
<1>11. PICK stop : stop = Find(t, CloseThink)
    OBVIOUS
<1>12. tool \in Nat /\ stop \in Nat
    BY <1>2, <1>9, <1>10, <1>11, FirstFacts, LenProperties
<1>13. CASE ToolFirst(tool, stop)
    <2>1. tools /\ tool = Find(t, OpenCall) /\ tool # 0
        BY <1>10, <1>12, <1>13 DEF ToolFirst
    <2>2. SplitFinished(t, thinking, tools) = [reason |-> StripNoise(Upto(t, tool)),
                                               rest |-> From(t, tool)]
        BY <1>10, <1>11, <1>13 DEF SplitFinished
    <2>3. SplitFinished(t, thinking, tools).reason = StripNoise(Upto(t, tool))
        BY ONLY <2>2
    <2>4. tool \in Hits(t, OpenCall)
        BY <1>2, <1>9, <2>1, FirstFacts
    <2>5. PICK p \in Seq(Pieces) : p = Upto(t, tool) /\ Unbroken(p)
        BY <1>2, <1>9, <2>4, CutUnbroken
    <2>6. Ink(StripNoise(p)) = Ink(p)
        <3>1. StandsFor(StripNoise(p), p)
            BY StripNoiseStands
        <3> QED
            BY <2>5, <3>1, StandsFacts
    <2>7. IsPrefix(lead, Ink(p))
        BY <1>8, <2>1, <2>5
    <2>8. IsPrefix(lead, Ink(SplitFinished(t, thinking, tools).reason))
        BY <2>3, <2>5, <2>6, <2>7
    <2> QED
        BY <1>7, <2>8
<1>14. CASE ~ToolFirst(tool, stop) /\ stop # 0
    <2>1. stop > 0
        BY <1>12, <1>14
    <2>2. SplitFinished(t, thinking, tools) =
              [reason |-> Upto(t, stop), rest |-> LStrip(From(t, stop + Len(CloseThink)))]
        BY <1>10, <1>11, <1>14, <2>1 DEF SplitFinished
    <2>3. SplitFinished(t, thinking, tools).reason = Upto(t, stop)
        BY ONLY <2>2
    <2> QED
        BY <1>7, <1>8, <1>11, <1>14, <2>3
<1>15. CASE ~ToolFirst(tool, stop) /\ stop = 0
    <2>1. SplitFinished(t, thinking, tools) = [reason |-> t, rest |-> <<>>]
        BY <1>10, <1>11, <1>15 DEF SplitFinished
    <2>2. SplitFinished(t, thinking, tools).reason = t
        BY ONLY <2>1
    <2> QED
        BY <1>7, <1>8, <2>2
<1> QED
    BY <1>13, <1>14, <1>15

\* The same when the reasoning is over.
LEMMA EndLeads ==
    ASSUME NEW reason \in Seq(Pieces), NEW t, Alike(reason, t)
    PROVE  IsPrefix(Ink(Settled(reason)), Ink(t))
<1>1. <<>> \in Seq(Pieces) /\ reason \o <<>> = reason
    BY ConcatEmptySeq
<1>2. Alike(reason \o <<>>, t)
    BY <1>1
<1> QED
    BY <1>1, <1>2, SettledLeads

\* A fresh request, thinking or not.
LEMMA FreshFlow ==
    ASSUME NEW t \in Seq(Pieces), Unbroken(t), NEW thinking \in BOOLEAN, NEW tools \in BOOLEAN
    PROVE  /\ thinking => ReasonFlow(<<>>, <<>>, t, tools, t)
           /\ ~thinking => EndFlow(<<>>, <<>>, t, thinking, tools, t)
<1>1. <<>> \in Seq(Pieces) /\ Unbroken(<<>>) /\ Alike(<<>>, <<>>)
    BY NothingUnbroken
<1>2. <<>> \o t = t /\ <<>> \o <<>> = <<>>
    BY ConcatEmptySeq
<1>3. Hits(<<>>, CloseThink) = {} /\ Hits(<<>>, OpenCall) = {}
    <2>1. ASSUME NEW tag \in Tags
          PROVE  Hits(<<>>, tag) = {}
        <3>1. \A h \in Hits(<<>>, tag) : h \in 1 .. Len(<<>>)
            BY <1>1, TagPlace
        <3> QED
            BY <3>1
    <2> QED
        BY <2>1 DEF Tags
<1>4. Alike(t, t)
    BY AlikeItself
<1>5. ASSUME thinking
      PROVE  ReasonFlow(<<>>, <<>>, t, tools, t)
    <2>1. <<>> \o (<<>> \o t) = t
        BY <1>2
    <2> QED
        BY <1>1, <1>2, <1>3, <1>4, <2>1 DEF ReasonFlow
<1>6. ASSUME ~thinking
      PROVE  EndFlow(<<>>, <<>>, t, thinking, tools, t)
    <2>1. SplitFinished(t, thinking, tools) = [reason |-> <<>>, rest |-> t]
        BY <1>6 DEF SplitFinished
    <2>2. /\ SplitFinished(t, thinking, tools).reason = <<>>
          /\ SplitFinished(t, thinking, tools).rest = t
        BY ONLY <2>1
    <2> QED
        BY <1>1, <1>2, <1>4, <2>2 DEF EndFlow
<1> QED
    BY <1>5, <1>6

-----------------------------------------------------------------------------
(* A stream says what the finished reply says.                             *)

\* What is yet to be delivered.
Rest == From(text, sent + 1)

TextUnbroken == Streaming => Unbroken(text)
ReasonOpen   == Streaming /\ ~think.done =>
                    /\ answer = <<>> /\ mode.thinking
                    /\ ReasonFlow(got.reason, think.buffer, Rest, mode.tools, text)
ReasonOver   == Streaming /\ think.done =>
                    EndFlow(got.reason, answer, Rest, mode.thinking, mode.tools, text)
Unsplit      == Streaming /\ ~Splitting => got.content = answer

ShownInv == /\ TypeOK /\ TextUnbroken /\ CallFlow
            /\ ReasonOpen /\ ReasonOver /\ Unsplit
            /\ NothingStranded

\* The next chunk and what is left behind it.
LEMMA RestFacts ==
    ASSUME TypeOK
    PROVE  /\ Rest \in Seq(Pieces)
           /\ sent = Len(text) => Rest = <<>>
           /\ \A n \in 1 .. Len(text) : sent + n <= Len(text) =>
                 /\ From(text, sent + n + 1) \in Seq(Pieces)
                 /\ Rest = Chunk(n) \o From(text, sent + n + 1)
<1>1. text \in Seq(Pieces) /\ Len(text) \in Nat /\ sent \in 0 .. Len(text)
    BY TypeFacts
<1>2. \A i \in 1 .. Len(text) + 1 : From(text, i) \in Seq(Pieces) /\ Len(From(text, i)) = Len(text) - i + 1
    BY <1>1, CutFacts
<1>3. sent + 1 \in 1 .. Len(text) + 1
    BY <1>1
<1>4. Rest \in Seq(Pieces) /\ Len(Rest) = Len(text) - (sent + 1) + 1
    BY <1>2, <1>3 DEF Rest
<1>5. ASSUME sent = Len(text)
      PROVE  Rest = <<>>
    <2>1. Len(Rest) = 0
        BY <1>1, <1>4, <1>5
    <2> QED
        BY <1>4, <2>1, EmptySeq
<1>6. ASSUME NEW n \in 1 .. Len(text), sent + n <= Len(text)
      PROVE  /\ From(text, sent + n + 1) \in Seq(Pieces)
             /\ Rest = Chunk(n) \o From(text, sent + n + 1)
    <2>1. /\ sent + n + 1 \in 1 .. Len(text) + 1
          /\ sent + 1 \in 1 .. Len(text) + 1 /\ sent + n \in (sent + 1) - 1 .. Len(text)
          /\ Len(text) \in sent + n .. Len(text)
        BY <1>1, <1>6
    <2>2. SubSeq(text, sent + 1, sent + n) \o SubSeq(text, (sent + n) + 1, Len(text))
              = SubSeq(text, sent + 1, Len(text))
        BY ONLY <1>1, <2>1, ConcatAdjacentSubSeq
    <2> QED
        BY <1>2, <2>1, <2>2 DEF Rest, Chunk, From
<1> QED
    BY <1>4, <1>5, <1>6

\* The text a handler shows before the calls.
LEMMA BeforeFacts ==
    ASSUME NEW s \in Seq(Pieces)
    PROVE  BeforeCall(s) = IF Splitting THEN Before(s) ELSE s
<1>1. Find(s, OpenCall) \in 0 .. Len(s) /\ Len(s) \in Nat
    BY FoundOpenCall, LenProperties
<1>2. Find(s, OpenCall) > 0 <=> Find(s, OpenCall) # 0
    BY <1>1
<1> QED
    BY <1>2 DEF BeforeCall, Before

LEMMA AlikeShown ==
    ASSUME NEW s, NEW t, Alike(s, t)
    PROVE  Alike(BeforeCall(s), BeforeCall(t))
<1>1. s \in Seq(Pieces) /\ t \in Seq(Pieces)
    BY DEF Alike
<1> QED
    BY <1>1, BeforeFacts, AlikeBefore

\* The rest of the finished reply, and what a plain reply has of it.
Ending == SplitFinished(text, mode.thinking, mode.tools).rest
Musing == SplitFinished(text, mode.thinking, mode.tools).reason

LEMMA PlainAlike ==
    ASSUME TypeOK, Unbroken(text)
    PROVE  /\ Ending \in Seq(Pieces) /\ Unbroken(Ending)
           /\ Alike(BeforeCall(PlainReply.content), BeforeCall(Ending))
           /\ PlainReply.reason = Musing
           /\ PlainReply.calls = ParseCalls(Ending, Table).calls
<1>1. text \in Seq(Pieces) /\ mode.thinking \in BOOLEAN /\ mode.tools \in BOOLEAN
    BY TypeFacts
<1>2. Alike(text, text)
    BY <1>1, AlikeItself
<1>3. Alike(Ending, Ending)
    BY <1>1, <1>2, AlikeSplit DEF Ending
<1>4. PICK s \in Seq(Pieces) : s = Ending /\ Unbroken(s)
    BY <1>3 DEF Alike
<1>5. PICK lead : lead = ParseCalls(s, Table).leading
    OBVIOUS
<1>6. PICK calls : calls = ParseCalls(s, Table).calls
    OBVIOUS
<1>7. /\ PlainReply.content = (IF Chat /\ calls = <<>> THEN s ELSE lead)
      /\ PlainReply.reason = Musing /\ PlainReply.calls = calls
    BY <1>4, <1>5, <1>6 DEF PlainReply, Ending, Musing
<1>8. Alike(lead, Before(s)) /\ Find(lead, OpenCall) = 0
    BY <1>4, <1>5, AlikeLeading DEF Before
<1>9. lead \in Seq(Pieces) /\ calls \in Seq(Table)
    BY <1>5, <1>6, ParseTypes
<1>10. CASE Chat /\ calls = <<>>
    <2>1. PlainReply.content = s
        BY <1>7, <1>10
    <2>2. Alike(s, s)
        BY <1>4, AlikeItself
    <2>3. Alike(BeforeCall(s), BeforeCall(s))
        BY <2>2, AlikeShown
    <2> QED
        BY <1>4, <1>6, <1>7, <2>1, <2>3
<1>11. CASE ~(Chat /\ calls = <<>>)
    <2>1. PlainReply.content = lead
        BY <1>7, <1>11
    <2>2. Splitting
        <3> SUFFICES ASSUME ~Splitting
                     PROVE  FALSE
            OBVIOUS
        <3>1. Chat /\ Table = {}
            <4>1. ~mode.tools /\ Chat
                BY DEF Splitting
            <4>2. Table = {}
                BY <4>1 DEF Table
            <4> QED
                BY <4>1, <4>2
        <3>2. calls = <<>>
            <4>1. calls \in Seq({})
                BY <1>9, <3>1
            <4> QED
                BY <4>1
        <3> QED
            BY <1>11, <3>1, <3>2
    <2>3. BeforeCall(lead) = lead /\ BeforeCall(s) = Before(s)
        BY <1>4, <1>8, <1>9, <2>2, BeforeFacts DEF Before
    <2> QED
        BY <1>4, <1>6, <1>7, <1>8, <2>1, <2>3
<1> QED
    BY <1>10, <1>11

\* What is shown so far.
LEMMA ShownLeads ==
    ASSUME TypeOK, TextUnbroken, CallFlow, ReasonOpen, ReasonOver, Unsplit
    PROVE  ShownIsFinal
<1> SUFFICES ASSUME Streaming
             PROVE  /\ IsPrefix(Ink(Settled(got.content)), Ink(BeforeCall(PlainReply.content)))
                    /\ IsPrefix(Ink(Settled(got.reason)), Ink(PlainReply.reason))
    BY DEF ShownIsFinal, Streaming
<1>1. /\ text \in Seq(Pieces) /\ mode.thinking \in BOOLEAN /\ mode.tools \in BOOLEAN
      /\ answer \in Seq(Pieces) /\ got.content \in Seq(Pieces) /\ got.reason \in Seq(Pieces)
      /\ Rest \in Seq(Pieces)
    BY TypeFacts, RestFacts
<1>2. /\ Ending \in Seq(Pieces) /\ Unbroken(Ending)
      /\ Alike(BeforeCall(PlainReply.content), BeforeCall(Ending))
      /\ PlainReply.reason = Musing
    BY PlainAlike DEF TextUnbroken
<1>3. Ink(BeforeCall(PlainReply.content)) = Ink(BeforeCall(Ending))
    BY <1>2 DEF Alike
<1>4. ASSUME NEW v \in Seq(Pieces), Alike(answer \o v, Ending)
      PROVE  IsPrefix(Ink(Settled(got.content)), Ink(BeforeCall(Ending)))
    <2>1. CASE Splitting
        <3>1. CallFlowOf(got.content, splitter, answer)
            BY <2>1 DEF CallFlow
        <3>2. IsPrefix(Ink(Settled(got.content)), Ink(Before(Ending)))
            BY <1>1, <1>4, <3>1, ContentLeads
        <3> QED
            BY <1>2, <2>1, <3>2, BeforeFacts
    <2>2. CASE ~Splitting
        <3>1. got.content = answer
            BY <2>2 DEF Unsplit
        <3>2. IsPrefix(Ink(Settled(answer)), Ink(Ending))
            BY <1>1, <1>4, SettledLeads
        <3> QED
            BY <1>2, <2>2, <3>1, <3>2, BeforeFacts
    <2> QED
        BY <2>1, <2>2
<1>5. CASE think.done
    <2>1. Alike(got.reason, Musing) /\ Alike(answer \o Rest, Ending)
        BY <1>5 DEF ReasonOver, EndFlow, Musing, Ending
    <2>2. IsPrefix(Ink(Settled(got.reason)), Ink(Musing))
        BY <1>1, <2>1, EndLeads
    <2> QED
        BY <1>1, <1>2, <1>3, <1>4, <2>1, <2>2
<1>6. CASE ~think.done
    <2>1. /\ answer = <<>> /\ mode.thinking
          /\ ReasonFlow(got.reason, think.buffer, Rest, mode.tools, text)
        BY <1>6 DEF ReasonOpen
    <2>2. IsPrefix(Ink(Settled(got.reason)), Ink(Musing))
        BY <1>1, <2>1, ReasonLeads DEF Musing
    <2>3. answer \o Ending = Ending
        BY <1>2, <2>1, ConcatEmptySeq
    <2>4. Alike(answer \o Ending, Ending)
        BY <1>2, <2>3, AlikeItself
    <2> QED
        BY <1>2, <1>3, <1>4, <2>2, <2>4
<1> QED
    BY <1>5, <1>6

\* A chunk keeps what the splitters owe.
LEMMA ReasonDelivered ==
    ASSUME TypeOK, ReasonOpen, ReasonOver, NEW n \in 1 .. Len(text), Deliver(n)
    PROVE  ReasonOpen' /\ ReasonOver'
<1>1. /\ phase = "engine" /\ mode.stream /\ sent + n <= Len(text) /\ sent' = sent + n
      /\ think' = Fed(n).next /\ answer' = answer \o Fed(n).rest
      /\ got'.reason = got.reason \o Fed(n).reason
      /\ mode' = mode /\ text' = text
    BY DeliverFacts DEF session
<1>2. Streaming
    BY <1>1 DEF Streaming
<1>3. /\ think \in ThinkStates /\ mode.tools \in BOOLEAN /\ mode.thinking \in BOOLEAN
      /\ answer \in Seq(Pieces) /\ got.reason \in Seq(Pieces)
    BY TypeFacts
<1>4. PICK u \in Seq(Pieces) : u = Chunk(n)
    BY <1>1, ChunkFacts
<1>5. PICK rest \in Seq(Pieces) : rest = From(text, sent + n + 1)
    BY <1>1, RestFacts
<1>6. Rest = u \o rest
    BY <1>1, <1>4, <1>5, RestFacts
<1>7. Rest' = rest
    BY <1>1, <1>5 DEF Rest
<1>8. CASE think.done
    <2>1. Fed(n).next = think /\ Fed(n).reason = <<>> /\ Fed(n).rest = u
        BY <1>4, <1>8 DEF Fed, ThinkFeed
    <2>2. EndFlow(got.reason, answer, u \o rest, mode.thinking, mode.tools, text)
        BY <1>2, <1>6, <1>8 DEF ReasonOver
    <2>3. EndFlow(got.reason, answer \o u, rest, mode.thinking, mode.tools, text)
        <3>1. Associates(answer, u, rest)
            BY <1>3, ThreeTexts
        <3> QED
            BY <2>2, <3>1 DEF EndFlow, Associates
    <2>4. got'.reason = got.reason /\ answer' = answer \o u /\ think' = think
        BY <1>1, <1>3, <2>1, ConcatEmptySeq
    <2>5. ReasonOver'
        BY <1>1, <1>7, <2>3, <2>4 DEF ReasonOver
    <2>6. ReasonOpen'
        BY <1>8, <2>4 DEF ReasonOpen
    <2> QED
        BY <2>5, <2>6
<1>9. CASE ~think.done
    <2>1. /\ answer = <<>> /\ mode.thinking
          /\ ReasonFlow(got.reason, think.buffer, u \o rest, mode.tools, text)
        BY <1>2, <1>6, <1>9 DEF ReasonOpen
    <2>2. LET fed == ThinkFeed(think, u, mode.tools)
          IN  /\ ~fed.next.done =>
                    /\ fed.rest = <<>>
                    /\ ReasonFlow(got.reason \o fed.reason, fed.next.buffer, rest,
                                  mode.tools, text)
              /\ fed.next.done =>
                    EndFlow(got.reason \o fed.reason, fed.rest, rest, mode.thinking,
                            mode.tools, text)
        BY ONLY <1>3, <1>9, <2>1, ThinkFed
    <2>3. /\ ~Fed(n).next.done =>
                /\ Fed(n).rest = <<>>
                /\ ReasonFlow(got.reason \o Fed(n).reason, Fed(n).next.buffer, rest,
                              mode.tools, text)
          /\ Fed(n).next.done =>
                EndFlow(got.reason \o Fed(n).reason, Fed(n).rest, rest, mode.thinking,
                        mode.tools, text)
        BY <1>4, <2>2 DEF Fed
    <2>4. answer' = Fed(n).rest
        <3>1. Fed(n).rest \in Seq(Pieces)
            BY <1>1, FeedTypes
        <3> QED
            BY <1>1, <2>1, <3>1, ConcatEmptySeq
    <2>5. ReasonOpen'
        BY <1>1, <1>7, <2>1, <2>3, <2>4 DEF ReasonOpen
    <2>6. ReasonOver'
        BY <1>1, <1>7, <2>3, <2>4 DEF ReasonOver
    <2> QED
        BY <2>5, <2>6
<1> QED
    BY <1>8, <1>9

LEMMA UnsplitDelivered ==
    ASSUME TypeOK, Unsplit, NEW n \in 1 .. Len(text), Deliver(n)
    PROVE  Unsplit'
<1>1. /\ phase = "engine" /\ mode.stream /\ sent + n <= Len(text)
      /\ answer' = answer \o Fed(n).rest
      /\ got'.content = IF Fed(n).rest = <<>> THEN got.content
                        ELSE got.content \o Told(n).visible
      /\ mode' = mode
    BY DeliverFacts DEF session
<1> SUFFICES ASSUME ~Splitting
             PROVE  got'.content = answer'
    BY <1>1 DEF Unsplit, Splitting, Chat
<1>2. got.content = answer /\ Told(n).visible = Fed(n).rest
    BY <1>1 DEF Unsplit, Streaming, Told, Shown
<1>3. answer \in Seq(Pieces) /\ Fed(n).rest \in Seq(Pieces)
    BY <1>1, TypeFacts, FeedTypes
<1>4. CASE Fed(n).rest = <<>>
    BY <1>1, <1>2, <1>3, <1>4, ConcatEmptySeq
<1>5. CASE Fed(n).rest # <<>>
    BY <1>1, <1>2, <1>5
<1> QED
    BY <1>4, <1>5

\* The end of a stream: content, calls and reasoning.
LEMMA FinishedContent ==
    ASSUME TypeOK, CallFlow, Unsplit, Streaming, Unbroken(answer)
    PROVE  Alike(got.content \o Left, BeforeCall(answer))
<1>1. /\ got.content \in Seq(Pieces) /\ answer \in Seq(Pieces) /\ splitter \in CallStates
      /\ splitter.stopped => splitter.buffer = <<>>
    BY TypeFacts
<1>2. Left = IF Splitting THEN (IF splitter.stopped THEN <<>> ELSE splitter.buffer) ELSE <<>>
    BY DEF Left, CallFlush
<1>3. Alike(answer, answer)
    BY <1>1, AlikeItself
<1>4. CASE Splitting /\ splitter.stopped
    <2>1. CallFlowOf(got.content, splitter, answer)
        BY <1>4 DEF CallFlow
    <2>2. /\ Find(answer, OpenCall) # 0
          /\ Alike(got.content, Upto(answer, Find(answer, OpenCall)))
        BY <1>1, <1>4, <2>1, ContentAlike
    <2>3. BeforeCall(answer) = Upto(answer, Find(answer, OpenCall))
        BY <1>1, <1>4, <2>2, BeforeFacts DEF Before
    <2>4. got.content \o Left = got.content
        BY <1>1, <1>2, <1>4, ConcatEmptySeq
    <2> QED
        BY <2>2, <2>3, <2>4
<1>5. CASE Splitting /\ ~splitter.stopped
    <2>1. CallFlowOf(got.content, splitter, answer)
        BY <1>5 DEF CallFlow
    <2>2. got.content \o Left = answer /\ Find(answer, OpenCall) = 0
        BY <1>2, <1>5, <2>1 DEF CallFlowOf
    <2>3. BeforeCall(answer) = answer
        BY <1>1, <1>5, <2>2, BeforeFacts DEF Before
    <2> QED
        BY <1>3, <2>2, <2>3
<1>6. CASE ~Splitting
    <2>1. got.content \o Left = answer
        BY <1>1, <1>2, <1>6, ConcatEmptySeq DEF Unsplit
    <2>2. BeforeCall(answer) = answer
        BY <1>1, <1>6, BeforeFacts
    <2> QED
        BY <1>3, <2>1, <2>2
<1> QED
    BY <1>4, <1>5, <1>6

\* A splitter that is done holds nothing back.
LEMMA FlushDone ==
    ASSUME TypeOK, think.done
    PROVE  ThinkFlush(think, mode.tools) = <<>>
<1>1. think.buffer = <<>>
    BY TypeFacts
<1>2. <<>> \in Seq(Pieces) /\ Len(<<>>) = 0
    OBVIOUS
<1>3. PICK e \in Seq(Pieces) : e = <<>> /\ Len(e) = 0
    BY <1>2, Zenon
<1>4. DropWrappers(e) \in Seq(Pieces) /\ Len(DropWrappers(e)) <= Len(e)
    BY DropFacts
<1>5. Len(DropWrappers(e)) \in Nat
    BY <1>4, LenProperties
<1>6. Len(DropWrappers(e)) = 0
    BY <1>3, <1>4, <1>5
<1>7. DropWrappers(e) = <<>>
    BY <1>4, <1>6, EmptySeq
<1> QED
    BY <1>1, <1>3, <1>7 DEF ThinkFlush

LEMMA FinishedReason ==
    ASSUME TypeOK, ReasonOpen, ReasonOver, Streaming, sent = Len(text)
    PROVE  /\ Alike(got.reason \o ThinkFlush(think, mode.tools), Musing)
           /\ Alike(answer, Ending)
<1>1. /\ mode.thinking \in BOOLEAN /\ mode.tools \in BOOLEAN
      /\ (think.done => think.buffer = <<>>)
      /\ answer \in Seq(Pieces) /\ got.reason \in Seq(Pieces) /\ Rest = <<>>
    BY TypeFacts, RestFacts
<1>2. CASE think.done
    <2>1. Alike(got.reason, Musing) /\ Alike(answer \o <<>>, Ending)
        BY <1>1, <1>2 DEF ReasonOver, EndFlow, Musing, Ending
    <2>2. answer \o <<>> = answer
        BY <1>1, ConcatEmptySeq
    <2>3. ThinkFlush(think, mode.tools) = <<>>
        BY <1>2, FlushDone
    <2>4. got.reason \o ThinkFlush(think, mode.tools) = got.reason
        BY <1>1, <2>3, ConcatEmptySeq
    <2> QED
        BY <2>1, <2>2, <2>4
<1>3. CASE ~think.done
    <2>1. /\ answer = <<>> /\ mode.thinking
          /\ ReasonFlow(got.reason, think.buffer, <<>>, mode.tools, text)
        BY <1>1, <1>3 DEF ReasonOpen
    <2>2. EndFlow(got.reason \o (IF mode.tools THEN DropWrappers(think.buffer) ELSE think.buffer),
                  <<>>, <<>>, mode.thinking, mode.tools, text)
        BY ONLY <1>1, <2>1, ThinkFlushed
    <2>3. EndFlow(got.reason \o ThinkFlush(think, mode.tools), <<>>, <<>>,
                  mode.thinking, mode.tools, text)
        BY <2>2 DEF ThinkFlush
    <2>4. <<>> \o <<>> = <<>>
        OBVIOUS
    <2> QED
        BY <2>1, <2>3, <2>4 DEF EndFlow, Musing, Ending
<1> QED
    BY <1>2, <1>3

LEMMA StrandedNothing ==
    ASSUME ShownInv, FinishStream
    PROVE  NothingStranded'
<1>1. TypeOK /\ TextUnbroken /\ CallFlow /\ ReasonOpen /\ ReasonOver /\ Unsplit
    BY DEF ShownInv
<1>2. /\ phase = "engine" /\ mode.stream /\ sent = Len(text)
      /\ got'.reason = IF Chat THEN got.reason \o ThinkFlush(think, mode.tools)
                       ELSE got.reason
      /\ got'.content = got.content \o Left
      /\ got'.calls = ParseCalls(answer, Table).calls
      /\ mode' = mode /\ text' = text
    BY <1>1, FinishFacts
<1>3. Streaming /\ Unbroken(text)
    BY <1>1, <1>2 DEF Streaming, TextUnbroken
<1>4. /\ Alike(BeforeCall(PlainReply.content), BeforeCall(Ending))
      /\ PlainReply.reason = Musing /\ PlainReply.calls = ParseCalls(Ending, Table).calls
    BY <1>1, <1>3, PlainAlike
<1>5. /\ Alike(got.reason \o ThinkFlush(think, mode.tools), Musing)
      /\ Alike(answer, Ending)
    BY <1>1, <1>2, <1>3, FinishedReason
<1>6. Alike(got.content \o Left, BeforeCall(answer))
    <2>1. Unbroken(answer)
        BY <1>5 DEF Alike
    <2> QED
        BY <1>1, <1>3, <2>1, FinishedContent
<1>7. Alike(BeforeCall(answer), BeforeCall(Ending))
    BY <1>5, AlikeShown
<1>8. Ink(got'.content) = Ink(BeforeCall(PlainReply.content))
    BY <1>2, <1>4, <1>6, <1>7 DEF Alike
<1>9. got'.calls = PlainReply.calls
    <2>1. ParseCalls(answer, Table).calls = ParseCalls(Ending, Table).calls
        BY <1>5, TableFacts, AlikeCalls
    <2> QED
        BY <1>2, <1>4, <2>1
<1>10. Chat => Ink(got'.reason) = Ink(PlainReply.reason)
    BY <1>2, <1>4, <1>5 DEF Alike
<1>11. /\ PlainReply' = PlainReply /\ Chat' = Chat
       /\ BeforeCall(PlainReply.content)' = BeforeCall(PlainReply.content)
    BY <1>2 DEF PlainReply, Chat, Table, BeforeCall, Splitting
<1> QED
    BY <1>8, <1>9, <1>10, <1>11 DEF NothingStranded

LEMMA ShownInit == Init => ShownInv
BY TypeInit DEF Init, ShownInv, TextUnbroken, CallFlow, ReasonOpen, ReasonOver, Unsplit,
                NothingStranded, Streaming

LEMMA ShownStep ==
    ASSUME UnbrokenTags, ShownInv, [Next]_vars
    PROVE  ShownInv'
<1>1. /\ TypeOK /\ TextUnbroken /\ CallFlow /\ ReasonOpen /\ ReasonOver /\ Unsplit
      /\ NothingStranded
    BY DEF ShownInv
<1>2. TypeOK'
    BY <1>1, TypeStep
<1>3. CASE Ask
    <2>1. /\ phase' = "engine" /\ mode' = mode /\ sent' = 0 /\ answer' = <<>> /\ got' = Nothing
          /\ think' = [buffer |-> <<>>, done |-> ~mode.thinking]
          /\ splitter' = [buffer |-> <<>>, stopped |-> FALSE]
          /\ turn < MaxTurns /\ text' \in Replies[turn + 1]
        BY <1>3 DEF Ask, NewThink, NewCalls
    <2>2. /\ got'.content = <<>> /\ got'.reason = <<>> /\ think'.buffer = <<>>
          /\ think'.done = ~mode.thinking
        BY <2>1 DEF Nothing
    <2>3. turn + 1 \in 1 .. MaxTurns
        BY <1>1, <2>1, TurnAssumption DEF TypeOK, TurnAssumption
    <2>4. text' \in Seq(Pieces) /\ Unbroken(text')
        BY <1>2, <2>1, <2>3 DEF UnbrokenTags, TypeOK
    <2>5. TextUnbroken'
        BY <2>4 DEF TextUnbroken
    <2>6. CallFlow'
        BY <2>1, <2>2, FreshCalls DEF CallFlow
    <2>7. Rest' = text'
        <3>1. Rest' = From(text', 1)
            BY <2>1 DEF Rest
        <3> QED
            BY <2>4, <3>1, SubSeqFull DEF From
    <2>8. /\ mode.thinking => ReasonFlow(<<>>, <<>>, text', mode.tools, text')
          /\ ~mode.thinking => EndFlow(<<>>, <<>>, text', mode.thinking, mode.tools, text')
        BY <1>1, <2>4, TypeFacts, FreshFlow
    <2>9. ReasonOpen' /\ ReasonOver'
        BY <2>1, <2>2, <2>7, <2>8 DEF ReasonOpen, ReasonOver
    <2>10. Unsplit' /\ NothingStranded'
        BY <2>1, <2>2 DEF Unsplit, NothingStranded
    <2> QED
        BY <1>2, <2>5, <2>6, <2>9, <2>10 DEF ShownInv
<1>4. ASSUME NEW n \in 1 .. Len(text), Deliver(n)
      PROVE  ShownInv'
    <2>1. /\ phase = "engine" /\ phase' = "engine" /\ mode' = mode /\ text' = text
        BY <1>1, <1>4, DeliverFacts DEF session
    <2>2. TextUnbroken' /\ NothingStranded'
        BY <1>1, <2>1 DEF TextUnbroken, NothingStranded, Streaming
    <2>3. CallFlow'
        BY <1>1, <1>4, CallFlowDelivered
    <2>4. ReasonOpen' /\ ReasonOver'
        BY <1>1, <1>4, ReasonDelivered
    <2>5. Unsplit'
        BY <1>1, <1>4, UnsplitDelivered
    <2> QED
        BY <1>2, <2>2, <2>3, <2>4, <2>5 DEF ShownInv
<1>5. CASE FinishStream
    <2>1. NothingStranded'
        BY <1>5, StrandedNothing
    <2>2. phase' = "answered"
        BY <1>1, <1>5, FinishFacts
    <2> QED
        BY <1>2, <2>1, <2>2 DEF ShownInv, TextUnbroken, CallFlow, ReasonOpen, ReasonOver,
                                Unsplit, Streaming
<1>6. CASE AnswerPlain
    <2>1. ~mode.stream /\ mode' = mode /\ phase' = "answered"
        BY <1>6 DEF AnswerPlain
    <2> QED
        BY <1>2, <2>1 DEF ShownInv, TextUnbroken, CallFlow, ReasonOpen, ReasonOver,
                          Unsplit, Streaming, NothingStranded
<1>7. CASE Abort
    <2>1. phase' = "client"
        BY <1>7 DEF Abort
    <2> QED
        BY <1>2, <2>1 DEF ShownInv, TextUnbroken, CallFlow, ReasonOpen, ReasonOver,
                          Unsplit, Streaming, NothingStranded
<1>8. CASE Continue
    <2>1. phase' = "client"
        BY <1>8 DEF Continue
    <2> QED
        BY <1>2, <2>1 DEF ShownInv, TextUnbroken, CallFlow, ReasonOpen, ReasonOver,
                          Unsplit, Streaming, NothingStranded
<1>9. CASE UNCHANGED vars
    <2>1. /\ mode' = mode /\ phase' = phase /\ splitter' = splitter /\ answer' = answer
          /\ got' = got /\ think' = think /\ text' = text /\ sent' = sent
        BY <1>9 DEF vars, session
    <2>2. Streaming' = Streaming /\ Splitting' = Splitting /\ Rest' = Rest /\ Chat' = Chat
        BY <2>1 DEF Streaming, Splitting, Rest, Chat
    <2>3. TextUnbroken' /\ CallFlow'
        BY <1>1, <2>1, <2>2 DEF TextUnbroken, CallFlow
    <2>4. ReasonOpen' /\ ReasonOver' /\ Unsplit'
        BY <1>1, <2>1, <2>2 DEF ReasonOpen, ReasonOver, Unsplit
    <2>5. /\ PlainReply' = PlainReply
          /\ BeforeCall(PlainReply.content)' = BeforeCall(PlainReply.content)
        BY <2>1 DEF PlainReply, Chat, Table, BeforeCall, Splitting
    <2>6. NothingStranded'
        BY <1>1, <2>1, <2>2, <2>5 DEF NothingStranded
    <2> QED
        BY <1>2, <2>3, <2>4, <2>6 DEF ShownInv
<1> QED
    BY <1>3, <1>4, <1>5, <1>6, <1>7, <1>8, <1>9 DEF Next

\* What a stream has shown is never taken back: line breaks and wrappers
\* aside, it is at any moment the beginning of what the plain handlers would
\* answer, however the reply was cut into chunks, when no tag of the reply
\* is broken by another.
THEOREM ShownStaysShown ==
    ASSUME UnbrokenTags
    PROVE  Spec => []ShownIsFinal
<1>1. ShownInv /\ [Next]_vars => ShownInv'
    BY ShownStep
<1>2. ShownInv => ShownIsFinal
    BY ShownLeads DEF ShownInv
<1> QED
    BY ShownInit, <1>1, <1>2, PTL DEF Spec

\* A finished stream has shown all of that, and the same calls: no splitter
\* strands a tail (the flushes of do_POST and handle_responses), under the
\* same condition.
THEOREM NothingIsStranded ==
    ASSUME UnbrokenTags
    PROVE  Spec => []NothingStranded
<1>1. ShownInv /\ [Next]_vars => ShownInv'
    BY ShownStep
<1>2. ShownInv => NothingStranded
    BY DEF ShownInv
<1> QED
    BY ShownInit, <1>1, <1>2, PTL DEF Spec

-----------------------------------------------------------------------------
(* Replies in the template's own format.                                   *)

\* A text joined to another, place by place.
LEMMA JoinedAt ==
    ASSUME NEW a \in Seq(Pieces), NEW b \in Seq(Pieces), NEW n \in Nat, n = Len(a)
    PROVE  /\ a \o b \in Seq(Pieces) /\ Len(a \o b) = n + Len(b)
           /\ \A i \in 1 .. n : (a \o b)[i] = a[i]
           /\ \A i \in n + 1 .. n + Len(b) : (a \o b)[i] = b[i - n]
BY JoinFacts

\* A call block is eight pieces.
LEMMA BlockPieces ==
    ASSUME NEW f \in {"f", "n"}, NEW b, b = CallBlock(f)
    PROVE  /\ b \in Seq(Pieces) /\ Len(b) = 8
           /\ b[1] = "<" /\ b[2] = "tool_call>" /\ b[3] = "nl" /\ b[4] = f
           /\ b[5] = "nl" /\ b[6] = "<" /\ b[7] = "/" /\ b[8] = "tool_call>"
<1>1. PICK x \in Seq(Pieces) : x = OpenCall /\ Len(x) = 2 /\ x[1] = "<" /\ x[2] = "tool_call>"
    <2>1. <<"<", "tool_call>">> \in Seq(Pieces)
        BY DEF Pieces
    <2> QED
        BY ONLY <2>1 DEF OpenCall
<1>2. PICK y \in Seq(Pieces) :
         y = <<"nl", f, "nl">> /\ Len(y) = 3 /\ y[1] = "nl" /\ y[2] = f /\ y[3] = "nl"
    <2>1. <<"nl", f, "nl">> \in Seq(Pieces)
        BY DEF Pieces
    <2> QED
        BY ONLY <2>1
<1>3. PICK z \in Seq(Pieces) :
         /\ z = CloseCall /\ Len(z) = 3
         /\ z[1] = "<" /\ z[2] = "/" /\ z[3] = "tool_call>"
    <2>1. <<"<", "/", "tool_call>">> \in Seq(Pieces)
        BY DEF Pieces
    <2> QED
        BY ONLY <2>1 DEF CloseCall
<1>4. PICK u \in Seq(Pieces) : /\ u = x \o y /\ Len(u) = 5
                               /\ \A i \in 1 .. 2 : u[i] = x[i]
                               /\ \A i \in 3 .. 5 : u[i] = y[i - 2]
    <2>1. PICK n \in Nat : n = 2
        OBVIOUS
    <2>2. n = Len(x)
        BY <1>1, <2>1
    <2>3. /\ x \o y \in Seq(Pieces) /\ Len(x \o y) = n + Len(y)
          /\ \A i \in 1 .. n : (x \o y)[i] = x[i]
          /\ \A i \in n + 1 .. n + Len(y) : (x \o y)[i] = y[i - n]
        BY ONLY <2>2, x \in Seq(Pieces), y \in Seq(Pieces), n \in Nat, JoinedAt
    <2>4. n + 1 = 3 /\ n + Len(y) = 5
        BY ONLY <2>1, <1>2
    <2> QED
        BY ONLY <2>1, <2>3, <2>4
<1>5. PICK v \in Seq(Pieces) : /\ v = u \o z /\ Len(v) = 8
                               /\ \A i \in 1 .. 5 : v[i] = u[i]
                               /\ \A i \in 6 .. 8 : v[i] = z[i - 5]
    <2>1. PICK n \in Nat : n = 5
        OBVIOUS
    <2>2. n = Len(u)
        BY <1>4, <2>1
    <2>3. /\ u \o z \in Seq(Pieces) /\ Len(u \o z) = n + Len(z)
          /\ \A i \in 1 .. n : (u \o z)[i] = u[i]
          /\ \A i \in n + 1 .. n + Len(z) : (u \o z)[i] = z[i - n]
        BY ONLY <2>2, u \in Seq(Pieces), z \in Seq(Pieces), n \in Nat, JoinedAt
    <2>4. n + 1 = 6 /\ n + Len(z) = 8
        BY ONLY <2>1, <1>3
    <2> QED
        BY ONLY <2>1, <2>3, <2>4
<1>6. /\ v[1] = "<" /\ v[2] = "tool_call>" /\ v[3] = "nl" /\ v[4] = f
      /\ v[5] = "nl" /\ v[6] = "<" /\ v[7] = "/" /\ v[8] = "tool_call>"
    <2>1. u[1] = "<" /\ u[2] = "tool_call>"
        BY ONLY <1>1, <1>4
    <2>2. u[3] = "nl" /\ u[4] = f /\ u[5] = "nl"
        BY ONLY <1>2, <1>4
    <2>3. v[6] = "<" /\ v[7] = "/" /\ v[8] = "tool_call>"
        BY ONLY <1>3, <1>5
    <2>4. \A i \in 1 .. 5 : v[i] = u[i]
        BY ONLY <1>5
    <2>5. v[1] = u[1] /\ v[2] = u[2] /\ v[3] = u[3] /\ v[4] = u[4] /\ v[5] = u[5]
        BY ONLY <2>4
    <2> QED
        BY ONLY <2>1, <2>2, <2>3, <2>5
<1>7. b = v
    BY ONLY <1>1, <1>2, <1>3, <1>4, <1>5, b = CallBlock(f) DEF CallBlock
<1> QED
    BY ONLY <1>5, <1>6, <1>7

\* A call of f stands in s behind position p.
Spelled(s, p, f) == \A i \in 1 .. 8 : s[p + i] = CallBlock(f)[i]

\* The first k calls stand in s one behind the other, a line break between.
InARow(s, calls, k) == /\ s \in Seq(Pieces) /\ Len(s) = 9 * k - 1
                       /\ \A m \in 1 .. k : Spelled(s, 9 * (m - 1), calls[m])
                       /\ \A m \in 1 .. k - 1 : s[9 * m] = "nl"

LEMMA RowGrows ==
    ASSUME NEW calls, NEW k \in Nat \ {0}, NEW s, InARow(s, calls, k),
           NEW f \in {"f", "n"}, calls[k + 1] = f,
           NEW w, w = s \o (<<"nl">> \o CallBlock(f))
    PROVE  InARow(w, calls, k + 1)
<1>1. PICK b \in Seq(Pieces) : b = CallBlock(f) /\ Len(b) = 8
    BY BlockPieces
<1>2. PICK c \in Seq(Pieces) : /\ c = <<"nl">> \o b /\ Len(c) = 9 /\ c[1] = "nl"
                               /\ \A i \in 1 .. 8 : c[1 + i] = b[i]
    <2>0. <<"nl">> \in Seq(Pieces)
        BY DEF Pieces
    <2>1. PICK n \in Seq(Pieces) : n = <<"nl">> /\ Len(n) = 1 /\ n[1] = "nl"
        BY ONLY <2>0
    <2>2. Joins(n, b, n \o b)
        BY JoinsFacts
    <2>3. PICK c : c = n \o b
        OBVIOUS
    <2>4. c \in Seq(Pieces) /\ Len(c) = 9 /\ c[1] = "nl" /\ \A i \in 1 .. 8 : c[1 + i] = b[i]
        BY ONLY <1>1, <2>1, <2>2, <2>3 DEF Joins
    <2> QED
        BY ONLY <2>1, <2>3, <2>4
<1>4. s \in Seq(Pieces) /\ Len(s) = 9 * k - 1
    BY DEF InARow
<1>5. /\ w \in Seq(Pieces) /\ Len(w) = Len(s) + Len(c)
      /\ \A i \in 1 .. Len(s) : w[i] = s[i]
      /\ \A i \in 1 .. Len(c) : w[Len(s) + i] = c[i]
    <2>1. Joins(s, c, s \o c)
        BY <1>4, JoinsFacts
    <2>2. w = s \o c
        BY ONLY w = s \o (<<"nl">> \o CallBlock(f)), <1>1, <1>2
    <2>3. Joins(s, c, w)
        BY ONLY <2>1, <2>2
    <2> QED
        BY ONLY <2>3 DEF Joins
<1>6. Len(w) = 9 * (k + 1) - 1
    BY ONLY k \in Nat \ {0}, <1>2, <1>4, <1>5
<1>7. ASSUME NEW m \in 1 .. k + 1
      PROVE  Spelled(w, 9 * (m - 1), calls[m])
    <2>1. CASE m = k + 1
        <3>1. \A i \in 1 .. 9 : w[(9 * k - 1) + i] = c[i]
            BY ONLY <1>2, <1>4, <1>5
        <3>2. \A i \in 1 .. 8 : w[9 * (m - 1) + i] = b[i]
            <4> SUFFICES ASSUME NEW i \in 1 .. 8
                         PROVE  w[9 * (m - 1) + i] = b[i]
                OBVIOUS
            <4>1. /\ 9 * (m - 1) + i = (9 * k - 1) + (1 + i)
                  /\ 1 + i \in 1 .. 9
                BY ONLY <2>1, k \in Nat \ {0}, i \in 1 .. 8
            <4> QED
                BY ONLY <1>2, <3>1, <4>1, i \in 1 .. 8
        <3>4. calls[m] = f
            BY ONLY <2>1, calls[k + 1] = f
        <3> QED
            BY ONLY <1>1, <3>2, <3>4 DEF Spelled
    <2>2. CASE m # k + 1
        <3>1. m \in 1 .. k
            BY ONLY <2>2, k \in Nat \ {0}, m \in 1 .. k + 1
        <3>2. \A i \in 1 .. 8 : w[9 * (m - 1) + i] = s[9 * (m - 1) + i]
            <4> SUFFICES ASSUME NEW i \in 1 .. 8
                         PROVE  w[9 * (m - 1) + i] = s[9 * (m - 1) + i]
                OBVIOUS
            <4>1. 9 * (m - 1) + i \in 1 .. Len(s)
                BY ONLY <1>4, <3>1, k \in Nat \ {0}, i \in 1 .. 8
            <4> QED
                BY ONLY <1>5, <4>1
        <3>3. Spelled(s, 9 * (m - 1), calls[m])
            BY <3>1 DEF InARow
        <3> QED
            BY ONLY <3>2, <3>3 DEF Spelled
    <2> QED
        BY <2>1, <2>2
<1>8. ASSUME NEW m \in 1 .. (k + 1) - 1
      PROVE  w[9 * m] = "nl"
    <2>1. CASE m = k
        <3>1. Len(s) + 1 = 9 * m
            BY ONLY <1>4, <2>1, k \in Nat \ {0}
        <3>2. 1 \in 1 .. Len(c)
            BY ONLY <1>2
        <3>3. w[Len(s) + 1] = c[1]
            BY ONLY <1>5, <3>2
        <3> QED
            BY ONLY <1>2, <3>1, <3>3
    <2>2. CASE m # k
        <3>1. m \in 1 .. k - 1
            BY ONLY <2>2, k \in Nat \ {0}, m \in 1 .. (k + 1) - 1
        <3>2. 9 * m \in 1 .. Len(s)
            BY ONLY <1>4, <3>1, k \in Nat \ {0}
        <3>3. s[9 * m] = "nl"
            BY <3>1 DEF InARow
        <3> QED
            BY ONLY <1>5, <3>2, <3>3
    <2> QED
        BY <2>1, <2>2
<1> QED
    BY ONLY <1>5, <1>6, <1>7, <1>8 DEF InARow

\* What CallBlocks flattens.
BlockLayers(calls) ==
    [i \in 1 .. Len(calls) |-> IF i = 1 THEN CallBlock(calls[i])
                               ELSE <<"nl">> \o CallBlock(calls[i])]

\* The layers are texts, one for each call.
LEMMA LayersFacts ==
    ASSUME NEW calls \in Seq({"f", "n"})
    PROVE  /\ BlockLayers(calls) \in Seq(Seq(Pieces)) /\ Len(BlockLayers(calls)) = Len(calls)
           /\ CallBlocks(calls) = FlattenSeq(BlockLayers(calls))
<1>1. /\ DOMAIN calls = 1 .. Len(calls)
      /\ \A i \in 1 .. Len(calls) : calls[i] \in {"f", "n"}
    BY LenProperties, ElementOfSeq
<1>2. PICK n \in Nat : n = Len(calls)
    BY LenProperties
<1>3. CallBlocks(calls) = FlattenSeq(BlockLayers(calls))
    <2> DEFINE seqs == [i \in 1 .. n |-> CallBlock(calls[i])]
               all  == [i \in 1 .. n |-> IF i = 1 THEN seqs[i] ELSE <<"nl">> \o seqs[i]]
    <2>1. CallBlocks(calls) = FlattenSeq(all)
        BY ONLY <1>1, <1>2 DEF CallBlocks, Joined, seqs, all
    <2>2. all = BlockLayers(calls)
        BY ONLY <1>2 DEF BlockLayers, seqs, all
    <2> QED
        BY ONLY <2>1, <2>2
<1>4. \A i \in 1 .. n : CallBlock(calls[i]) \in Seq(Pieces)
    BY <1>1, <1>2, BlockPieces
<1>5. <<"nl">> \in Seq(Pieces)
    BY DEF Pieces
<1>6. \A i \in 1 .. n : <<"nl">> \o CallBlock(calls[i]) \in Seq(Pieces)
    BY ONLY <1>4, <1>5, ConcatProperties
<1>7. BlockLayers(calls) \in [1 .. n -> Seq(Pieces)]
    BY ONLY <1>2, <1>4, <1>6 DEF BlockLayers
<1>8. BlockLayers(calls) \in Seq(Seq(Pieces)) /\ Len(BlockLayers(calls)) = n
    BY ONLY <1>7, n \in Nat
<1> QED
    BY ONLY <1>2, <1>3, <1>8

\* The blocks of some calls stand in a row, nine places apart.
LEMMA BlocksInARow ==
    ASSUME NEW calls \in Seq({"f", "n"}), calls # <<>>
    PROVE  Len(calls) \in Nat \ {0} /\ InARow(CallBlocks(calls), calls, Len(calls))
<1>1. /\ Len(calls) \in Nat \ {0} /\ \A i \in 1 .. Len(calls) : calls[i] \in {"f", "n"}
    BY LenProperties, ElementOfSeq, EmptySeq
<1>2. PICK n \in Nat \ {0} : n = Len(calls)
    BY <1>1
<1>3. PICK p \in Seq(Seq(Pieces)) : /\ p = BlockLayers(calls) /\ Len(p) = n
                                    /\ CallBlocks(calls) = FlattenSeq(p)
    BY <1>2, LayersFacts
<1>4. PICK f : IsSums(p, f, Pieces) /\ FlattenSeq(p) = f[Len(p)]
    BY FlatSums
<1>5. /\ f \in [0 .. n -> Seq(Pieces)] /\ f[0] = <<>>
      /\ \A i \in 1 .. n : f[i] = f[i - 1] \o p[i]
    BY ONLY <1>3, <1>4 DEF IsSums
<1>6. /\ p[1] = CallBlock(calls[1])
      /\ \A i \in 1 .. n : i # 1 => p[i] = <<"nl">> \o CallBlock(calls[i])
    BY ONLY <1>2, <1>3 DEF BlockLayers
<1>7. InARow(f[1], calls, 1)
    <2>1. PICK b \in Seq(Pieces) : b = CallBlock(calls[1]) /\ Len(b) = 8
        <3>1. calls[1] \in {"f", "n"}
            BY <1>1, <1>2
        <3> QED
            BY <3>1, BlockPieces
    <2>2. <<>> \o b = b
        BY ONLY b \in Seq(Pieces), ConcatEmptySeq
    <2>3. f[1] = b
        <3>1. PICK i \in 1 .. n : i = 1 /\ i - 1 = 0
            BY ONLY n \in Nat \ {0}
        <3>2. f[i] = f[i - 1] \o p[i]
            BY ONLY <1>5
        <3>3. f[i - 1] = <<>>
            BY ONLY <1>5, <3>1
        <3>4. p[i] = b
            BY ONLY <1>6, <2>1, <3>1
        <3> QED
            BY ONLY <2>2, <3>1, <3>2, <3>3, <3>4
    <2>4. \A i \in 1 .. 8 : b[9 * (1 - 1) + i] = b[i]
        OBVIOUS
    <2>5. Spelled(b, 9 * (1 - 1), calls[1])
        BY ONLY <2>1, <2>4 DEF Spelled
    <2>6. Len(b) = 9 * 1 - 1
        BY <2>1
    <2> QED
        BY ONLY <2>3, <2>5, <2>6, b \in Seq(Pieces) DEF InARow
<1>8. ASSUME NEW k \in 1 .. n - 1, InARow(f[k], calls, k)
      PROVE  InARow(f[k + 1], calls, k + 1)
    <2>1. k \in Nat \ {0} /\ k + 1 \in 1 .. n /\ k + 1 # 1 /\ (k + 1) - 1 = k
        BY <1>2
    <2>2. f[k + 1] = f[k] \o (<<"nl">> \o CallBlock(calls[k + 1]))
        BY ONLY <1>5, <1>6, <2>1
    <2>3. calls[k + 1] \in {"f", "n"}
        BY ONLY <1>1, <1>2, <2>1
    <2> QED
        BY ONLY <1>8, <2>1, <2>2, <2>3, RowGrows
<1>9. InARow(f[n], calls, n)
    <2> DEFINE Bad == {k \in Nat : k \in 1 .. n /\ ~InARow(f[k], calls, k)}
    <2> SUFFICES ASSUME Bad # {}
                 PROVE  FALSE
        BY <1>2
    <2>1. PICK k \in Bad : \A j \in Bad : k <= j
        <3>1. Bad \subseteq Nat
            OBVIOUS
        <3> HIDE DEF Bad
        <3> QED
            BY <3>1, Least
    <2>2. k \in 1 .. n /\ ~InARow(f[k], calls, k)
        OBVIOUS
    <2>3. k # 1
        BY <1>7, <2>2
    <2>4. PICK j \in 1 .. n - 1 : k = j + 1
        <3>1. k - 1 \in 1 .. n - 1 /\ k = (k - 1) + 1
            BY ONLY <2>2, <2>3, n \in Nat \ {0}
        <3> QED
            BY ONLY <3>1
    <2>5. j \notin Bad
        <3>1. j \in Nat /\ ~(k <= j)
            BY ONLY <2>4, n \in Nat \ {0}
        <3> HIDE DEF Bad
        <3> QED
            BY ONLY <2>1, <3>1
    <2>6. j \in Nat /\ j \in 1 .. n
        BY ONLY <2>4, n \in Nat \ {0}
    <2>7. InARow(f[j], calls, j)
        BY ONLY <2>5, <2>6
    <2> QED
        BY ONLY <1>8, <2>2, <2>4, <2>7
<1> QED
    BY ONLY <1>1, <1>2, <1>3, <1>4, <1>9

\* Every place in a row of calls is a place in one of them, or a line break.
RowPlace(s, n, i) == \E k \in 1 .. n : \/ \E j \in 1 .. 8 : i = 9 * (k - 1) + j
                                       \/ i = 9 * k /\ s[i] = "nl"

LEMMA RowPlaces ==
    ASSUME NEW calls, NEW n \in Nat \ {0}, NEW s, InARow(s, calls, n), NEW i \in 1 .. Len(s)
    PROVE  RowPlace(s, n, i)
<1>1. Len(s) = 9 * n - 1
    BY DEF InARow
<1>2. PICK k \in Int : k = (i - 1) \div 9
    BY <1>1
<1>3. 9 * k <= i - 1 /\ i - 1 < 9 * k + 9
    BY <1>1, <1>2
<1>4. k + 1 \in 1 .. n /\ i - 9 * k \in 1 .. 9
    BY <1>1, <1>3
<1>5. PICK m \in 1 .. n : m = k + 1
    BY <1>4
<1>6. PICK j \in 1 .. 9 : j = i - 9 * k
    BY <1>4
<1>7. CASE j = 9
    <2>1. i = 9 * m /\ m \in 1 .. n - 1
        BY <1>1, <1>5, <1>6, <1>7
    <2>2. s[9 * m] = "nl"
        BY <2>1 DEF InARow
    <2> QED
        BY ONLY <2>1, <2>2, m \in 1 .. n DEF RowPlace
<1>8. CASE j # 9
    <2>1. i = 9 * (m - 1) + j /\ j \in 1 .. 8
        BY <1>5, <1>6, <1>8
    <2> QED
        BY ONLY <2>1, m \in 1 .. n DEF RowPlace
<1> QED
    BY <1>7, <1>8

\* A block of the call of f at o.
BlockAt(s, o, f) ==
    /\ o \in 1 .. Len(s) /\ o + 7 \in 1 .. Len(s)
    /\ s[o] = "<" /\ s[o + 1] = "tool_call>" /\ s[o + 2] = "nl" /\ s[o + 3] = f
    /\ s[o + 4] = "nl" /\ s[o + 5] = "<" /\ s[o + 6] = "/" /\ s[o + 7] = "tool_call>"

LEMMA Copied ==
    ASSUME NEW s, NEW b, NEW m \in Nat, \A i \in 1 .. 8 : s[m + i] = b[i]
    PROVE  /\ s[m + 1] = b[1] /\ s[m + 2] = b[2] /\ s[m + 3] = b[3] /\ s[m + 4] = b[4]
           /\ s[m + 5] = b[5] /\ s[m + 6] = b[6] /\ s[m + 7] = b[7] /\ s[m + 8] = b[8]
OBVIOUS

LEMMA BlockStands ==
    ASSUME NEW s \in Seq(Pieces), NEW m \in Nat, m + 8 <= Len(s), NEW f \in {"f", "n"},
           Spelled(s, m, f)
    PROVE  BlockAt(s, m + 1, f)
<1>1. PICK b \in Seq(Pieces) :
         /\ b = CallBlock(f)
         /\ b[1] = "<" /\ b[2] = "tool_call>" /\ b[3] = "nl" /\ b[4] = f
         /\ b[5] = "nl" /\ b[6] = "<" /\ b[7] = "/" /\ b[8] = "tool_call>"
    BY BlockPieces
<1>2. \A i \in 1 .. 8 : s[m + i] = b[i]
    BY ONLY <1>1, Spelled(s, m, f) DEF Spelled
<1>3. /\ s[m + 1] = b[1] /\ s[m + 2] = b[2] /\ s[m + 3] = b[3] /\ s[m + 4] = b[4]
      /\ s[m + 5] = b[5] /\ s[m + 6] = b[6] /\ s[m + 7] = b[7] /\ s[m + 8] = b[8]
    BY <1>2, Copied
<1>4. Len(s) \in Nat
    BY LenProperties
<1>5. PICK o \in Nat : o = m + 1
    OBVIOUS
<1>6. /\ o \in 1 .. Len(s) /\ o + 7 \in 1 .. Len(s)
      /\ m + 2 = o + 1 /\ m + 3 = o + 2 /\ m + 4 = o + 3 /\ m + 5 = o + 4
      /\ m + 6 = o + 5 /\ m + 7 = o + 6 /\ m + 8 = o + 7
    BY ONLY <1>4, <1>5, m \in Nat, m + 8 <= Len(s)
<1>7. BlockAt(s, o, f)
    BY ONLY <1>1, <1>3, <1>5, <1>6 DEF BlockAt
<1> QED
    BY ONLY <1>5, <1>7

\* Behind the first p pieces of s stand the calls, one behind the other.
Place(p, k) == p + 9 * (k - 1) + 1
CallsAt(s, p, calls) ==
    /\ s \in Seq(Pieces) /\ p \in Nat /\ Len(calls) \in Nat \ {0}
    /\ Len(s) = p + 9 * Len(calls) - 1
    /\ \A k \in 1 .. Len(calls) : calls[k] \in {"f", "n"}
    /\ \A k \in 1 .. Len(calls) : Place(p, k) \in Nat /\ BlockAt(s, Place(p, k), calls[k])
    /\ \A i \in p + 1 .. Len(s) : \E k \in 1 .. Len(calls) :
           \/ i \in Place(p, k) .. Place(p, k) + 7
           \/ i = Place(p, k) + 8 /\ s[i] = "nl"

RowBehind(a, s, p, calls) == CallsAt(s, p, calls) /\ \A i \in 1 .. p : s[i] = a[i]

LEMMA RowStands ==
    ASSUME NEW a \in Seq(Pieces), NEW calls \in Seq({"f", "n"}), calls # <<>>,
           NEW s, s = a \o CallBlocks(calls), NEW p, p = Len(a)
    PROVE  RowBehind(a, s, p, calls)
<1>1. PICK n \in Nat \ {0} : n = Len(calls)
    BY BlocksInARow
<1>2. PICK cb : cb = CallBlocks(calls) /\ InARow(cb, calls, n)
    BY <1>1, BlocksInARow
<1>3. cb \in Seq(Pieces) /\ Len(cb) = 9 * n - 1
    BY <1>2 DEF InARow
<1>c. \A k \in 1 .. n : calls[k] \in {"f", "n"}
    BY <1>1, ElementOfSeq
<1>4. /\ s \in Seq(Pieces) /\ p \in Nat /\ Len(s) = p + (9 * n - 1)
      /\ \A i \in 1 .. p : s[i] = a[i]
      /\ \A i \in 1 .. 9 * n - 1 : s[p + i] = cb[i]
    <2>1. Joins(a, cb, s)
        BY <1>2, <1>3, JoinsFacts
    <2> QED
        BY ONLY <1>3, <2>1, p = Len(a) DEF Joins
<1>5. ASSUME NEW k \in 1 .. n
      PROVE  Place(p, k) \in Nat /\ BlockAt(s, Place(p, k), calls[k])
    <2>1. PICK m \in Nat : m = 9 * (k - 1) /\ m + 8 <= 9 * n - 1
        <3>1. 9 * (k - 1) \in Nat /\ 9 * (k - 1) + 8 <= 9 * n - 1
            BY ONLY n \in Nat \ {0}, k \in 1 .. n
        <3> QED
            BY ONLY <3>1
    <2>2. Spelled(cb, m, calls[k])
        BY <1>2, <2>1 DEF InARow
    <2>3. PICK f \in {"f", "n"} : f = calls[k]
        BY <1>c
    <2>4. \A i \in 1 .. 8 : cb[m + i] = CallBlock(f)[i]
        BY ONLY <2>2, <2>3 DEF Spelled
    <2>5. PICK q \in Nat : q = p + m /\ q + 8 <= Len(s)
        BY ONLY <1>4, <2>1, n \in Nat
    <2>6. ASSUME NEW i \in 1 .. 8
          PROVE  s[q + i] = CallBlock(f)[i]
        <3>1. m + i \in 1 .. 9 * n - 1 /\ q + i = p + (m + i)
            BY ONLY <1>4, <2>1, <2>5, n \in Nat, i \in 1 .. 8
        <3>2. s[p + (m + i)] = cb[m + i]
            BY ONLY <1>4, <3>1
        <3> QED
            BY ONLY <2>4, <3>1, <3>2, i \in 1 .. 8
    <2>7. Spelled(s, q, f)
        BY ONLY <2>6 DEF Spelled
    <2>8. BlockAt(s, q + 1, f)
        BY <1>4, <2>5, <2>7, BlockStands
    <2>9. q + 1 = Place(p, k) /\ q + 1 \in Nat
        BY ONLY <1>4, <2>1, <2>5, k \in 1 .. n DEF Place
    <2> QED
        BY ONLY <2>3, <2>8, <2>9
<1>6. ASSUME NEW i \in p + 1 .. Len(s)
      PROVE  \E k \in 1 .. n : \/ i \in Place(p, k) .. Place(p, k) + 7
                               \/ i = Place(p, k) + 8 /\ s[i] = "nl"
    <2>1. PICK m \in 1 .. 9 * n - 1 : i = p + m
        <3>1. i - p \in 1 .. 9 * n - 1 /\ i = p + (i - p)
            BY ONLY <1>4, n \in Nat \ {0}, i \in p + 1 .. Len(s)
        <3> QED
            BY ONLY <3>1
    <2>2. s[i] = cb[m]
        BY ONLY <1>4, <2>1
    <2>3. RowPlace(cb, n, m)
        <3>1. m \in 1 .. Len(cb)
            BY ONLY <1>3, <2>1
        <3> QED
            BY ONLY n \in Nat \ {0}, <1>2, <3>1, RowPlaces
    <2>p. PICK k \in 1 .. n : \/ \E j \in 1 .. 8 : m = 9 * (k - 1) + j
                              \/ m = 9 * k /\ cb[m] = "nl"
        BY ONLY <2>3 DEF RowPlace
    <2>4. CASE \E j \in 1 .. 8 : m = 9 * (k - 1) + j
        <3>1. PICK j \in 1 .. 8 : m = 9 * (k - 1) + j
            BY ONLY <2>4
        <3>2. i \in Place(p, k) .. Place(p, k) + 7
            BY ONLY <1>4, <2>1, <3>1, n \in Nat, k \in 1 .. n, j \in 1 .. 8 DEF Place
        <3> QED
            BY ONLY <3>2, k \in 1 .. n
    <2>5. CASE m = 9 * k /\ cb[m] = "nl"
        <3>1. i = Place(p, k) + 8
            BY ONLY <1>4, <2>1, <2>5, n \in Nat, k \in 1 .. n DEF Place
        <3> QED
            BY ONLY <2>2, <2>5, <3>1, k \in 1 .. n
    <2> QED
        BY ONLY <2>p, <2>4, <2>5
<1>7. Len(s) = p + 9 * n - 1
    BY ONLY <1>4, n \in Nat
<1>8. CallsAt(s, p, calls)
    BY ONLY <1>1, <1>c, <1>4, <1>5, <1>6, <1>7 DEF CallsAt
<1> QED
    BY ONLY <1>4, <1>8 DEF RowBehind

\* Every opening tag of s is behind p, and the calls' own are among them.
TagsBehind(s, p, calls) ==
    /\ \A h \in Hits(s, OpenCall) : h > p
    /\ \A k \in 1 .. Len(calls) : Place(p, k) \in Hits(s, OpenCall)

\* Calls behind a text without an opening tag: the first tag is the first
\* call's.
LEMMA RowFound ==
    ASSUME NEW a \in Seq(Pieces), Hits(a, OpenCall) = {}, NEW p, p = Len(a),
           NEW s, NEW calls, CallsAt(s, p, calls), \A i \in 1 .. p : s[i] = a[i]
    PROVE  Find(s, OpenCall) = p + 1 /\ TagsBehind(s, p, calls)
<1>1. /\ s \in Seq(Pieces) /\ p \in Nat /\ Len(calls) \in Nat \ {0} /\ Len(s) \in Nat
      /\ Len(s) = p + 9 * Len(calls) - 1
      /\ \A k \in 1 .. Len(calls) : Place(p, k) \in Nat /\ BlockAt(s, Place(p, k), calls[k])
    BY LenProperties DEF CallsAt
<1>2. ASSUME NEW k \in 1 .. Len(calls)
      PROVE  Place(p, k) \in Hits(s, OpenCall)
    <2>1. PICK o \in Nat : o = Place(p, k)
        BY <1>1
    <2>2. /\ o \in 1 .. Len(s) /\ o + 7 \in 1 .. Len(s)
          /\ s[o] = "<" /\ s[o + 1] = "tool_call>"
        BY <1>1, <2>1 DEF BlockAt
    <2>3. o \in 1 .. Len(s) - 1
        BY ONLY <1>1, <2>2, o \in Nat
    <2>4. o \in Hits(s, OpenCall)
        BY <1>1, <2>2, <2>3, OpenCallHits
    <2> QED
        BY ONLY <2>1, <2>4
<1>3. p + 1 \in Hits(s, OpenCall) /\ s[p + 1] = "<"
    <2>1. PICK k \in 1 .. Len(calls) : k = 1
        BY <1>1
    <2>2. Place(p, k) = p + 1
        BY <1>1, <2>1 DEF Place
    <2>3. p + 1 \in Hits(s, OpenCall)
        BY <1>2, <2>2
    <2> QED
        BY <1>1, <2>3, OpenCallHits
<1>4. ASSUME NEW h \in Hits(s, OpenCall)
      PROVE  h > p
    <2>1. h \in 1 .. Len(s) - 1 /\ s[h] = "<" /\ s[h + 1] = "tool_call>"
        BY <1>1, OpenCallHits
    <2>0. h \in Int /\ p \in Int
        BY ONLY <1>1, <2>1
    <2> SUFFICES ASSUME h <= p
                 PROVE  FALSE
        BY <2>0
    <2>2. h # p
        BY ONLY <1>3, <2>1
    <2>3. h \in 1 .. p - 1 /\ h \in 1 .. p /\ h + 1 \in 1 .. p
        BY ONLY <1>1, <2>1, <2>2, h <= p
    <2>4. a[h] = "<" /\ a[h + 1] = "tool_call>" /\ h \in 1 .. Len(a) - 1
        BY <2>1, <2>3
    <2> QED
        BY <2>4, OpenCallHits
<1>5. Find(s, OpenCall) = p + 1
    <2>1. /\ Find(s, OpenCall) \in 0 .. Len(s)
          /\ Find(s, OpenCall) = 0 <=> Hits(s, OpenCall) = {}
          /\ Find(s, OpenCall) # 0 => Find(s, OpenCall) \in Hits(s, OpenCall)
          /\ \A h \in Hits(s, OpenCall) : Find(s, OpenCall) <= h
        BY <1>1, FoundOpenCall
    <2>2. PICK m \in 0 .. Len(s) : m = Find(s, OpenCall)
        BY <2>1
    <2>3. m \in Hits(s, OpenCall) /\ m <= p + 1
        BY <1>3, <2>1, <2>2
    <2>4. m > p
        BY <1>4, <2>3
    <2> QED
        BY ONLY <1>1, <2>2, <2>3, <2>4, m \in 0 .. Len(s)
<1> QED
    BY ONLY <1>2, <1>4, <1>5 DEF TagsBehind

\* The parser finds the calls themselves.
LEMMA RowParsed ==
    ASSUME NEW p \in Nat, NEW s, NEW calls \in Seq({"f", "n"}), CallsAt(s, p, calls),
           TagsBehind(s, p, calls), NEW table, table \subseteq {"f", "n"},
           \A k \in 1 .. Len(calls) : calls[k] \in table
    PROVE  Pick(s, InCalls(s, table)) = calls
<1>1. PICK n \in Nat \ {0} : n = Len(calls)
    BY DEF CallsAt
<1>2. /\ s \in Seq(Pieces) /\ Len(s) \in Nat /\ Len(s) = p + 9 * n - 1
      /\ \A k \in 1 .. n : Place(p, k) \in Nat /\ BlockAt(s, Place(p, k), calls[k])
    BY <1>1, LenProperties DEF CallsAt
<1>3. DOMAIN s = 1 .. Len(s)
    BY <1>2, LenProperties
<1> DEFINE at == InCalls(s, table)
           f  == [k \in 1 .. n |-> Place(p, k) + 3]
<1>4. at \subseteq 1 .. Len(s)
    BY ONLY <1>3 DEF InCalls
<1>5. ASSUME NEW k \in 1 .. n
      PROVE  Place(p, k) + 3 \in at /\ s[Place(p, k) + 3] = calls[k]
    <2>1. PICK o \in Nat : o = Place(p, k)
        BY <1>2
    <2>2. /\ o \in 1 .. Len(s) /\ o + 7 \in 1 .. Len(s)
          /\ s[o + 1] = "tool_call>" /\ s[o + 2] = "nl" /\ s[o + 3] = calls[k]
        BY <1>2, <2>1 DEF BlockAt
    <2>3. o + 3 \in 1 .. Len(s) /\ o < o + 3
        BY ONLY <1>2, <2>2, o \in Nat
    <2>4. o \in Hits(s, OpenCall) /\ calls[k] \in table
        BY <1>1, <2>1 DEF TagsBehind
    <2>5. ASSUME NEW h, h \in Hits(s, OpenCall) \/ h \in Hits(s, CloseCall)
          PROVE  ~(o < h /\ h < o + 3)
        <3>1. h \in 1 .. Len(s) /\ s[h] = "<"
            <4>1. CASE h \in Hits(s, OpenCall)
                <5>1. h \in 1 .. Len(s) - 1 /\ s[h] = "<"
                    BY <1>2, <4>1, OpenCallHits
                <5> QED
                    BY ONLY <1>2, <5>1
            <4>2. CASE h \in Hits(s, CloseCall)
                <5>1. h \in 1 .. Len(s) - 2 /\ s[h] = "<"
                    BY <1>2, <4>2, CloseCallHits
                <5> QED
                    BY ONLY <1>2, <5>1
            <4> QED
                BY <2>5, <4>1, <4>2
        <3> SUFFICES ASSUME o < h, h < o + 3
                     PROVE  FALSE
            OBVIOUS
        <3>2. h = o + 1 \/ h = o + 2
            BY ONLY <3>1, o \in Nat, o < h, h < o + 3
        <3> QED
            BY ONLY <2>2, <3>1, <3>2
    <2>6. InCall(s, o + 3)
        BY ONLY <2>3, <2>4, <2>5 DEF InCall
    <2>7. o + 3 \in at
        BY ONLY <1>3, <2>2, <2>3, <2>4, <2>6 DEF InCalls
    <2> QED
        BY ONLY <2>1, <2>2, <2>7
<1>6. ASSUME NEW i \in at
      PROVE  \E k \in 1 .. n : i = Place(p, k) + 3
    <2>1. i \in 1 .. Len(s) /\ s[i] \in table /\ InCall(s, i)
        BY ONLY <1>3, i \in at DEF InCalls
    <2>2. PICK h \in Hits(s, OpenCall) : h < i
        BY ONLY <2>1 DEF InCall
    <2>3. h > p /\ h \in 1 .. Len(s) - 1
        BY <1>2, OpenCallHits DEF TagsBehind
    <2>4. i \in p + 1 .. Len(s)
        BY ONLY <1>2, <2>1, <2>2, <2>3, p \in Nat
    <2>5. PICK k \in 1 .. n : \/ i \in Place(p, k) .. Place(p, k) + 7
                              \/ i = Place(p, k) + 8 /\ s[i] = "nl"
        BY ONLY <1>1, <2>4, CallsAt(s, p, calls) DEF CallsAt
    <2>6. PICK o \in Nat : o = Place(p, k)
        BY <1>2
    <2>7. /\ s[o] = "<" /\ s[o + 1] = "tool_call>" /\ s[o + 2] = "nl"
          /\ s[o + 4] = "nl" /\ s[o + 5] = "<" /\ s[o + 6] = "/" /\ s[o + 7] = "tool_call>"
        BY <1>2, <2>6 DEF BlockAt
    <2>8. s[i] \in {"f", "n"}
        BY <2>1
    <2>a. i \in o .. o + 7 \/ s[i] = "nl"
        BY ONLY <2>5, <2>6
    <2>b. i \in o .. o + 7 => \/ i = o \/ i = o + 1 \/ i = o + 2 \/ i = o + 3 \/ i = o + 4
                               \/ i = o + 5 \/ i = o + 6 \/ i = o + 7
        BY ONLY <2>1, o \in Nat
    <2>9. \/ i = o \/ i = o + 1 \/ i = o + 2 \/ i = o + 3 \/ i = o + 4 \/ i = o + 5
          \/ i = o + 6 \/ i = o + 7 \/ s[i] = "nl"
        BY ONLY <2>a, <2>b
    <2>10. i = o + 3
        BY ONLY <2>7, <2>8, <2>9
    <2> QED
        BY ONLY <2>6, <2>10
<1>7. Enumerates(f, n, at)
    <2>1. f \in [1 .. n -> at]
        BY ONLY <1>5
    <2>2. ASSUME NEW k \in 1 .. n, NEW l \in 1 .. n, k < l
          PROVE  f[k] < f[l]
        BY ONLY <2>2, p \in Nat DEF Place
    <2>3. ASSUME NEW i \in at
          PROVE  \E k \in 1 .. n : f[k] = i
        BY ONLY <1>6
    <2> QED
        BY ONLY <2>1, <2>2, <2>3 DEF Enumerates
<1> HIDE DEF at, f
<1>8. Cardinality(at) = n /\ \A k \in 1 .. n : Nth(at, k) = f[k]
    BY <1>2, <1>4, <1>7, Enumerated
<1>9. /\ Pick(s, at) \in Seq(Pieces) /\ Len(Pick(s, at)) = n
      /\ \A k \in 1 .. n : Pick(s, at)[k] = s[Nth(at, k)]
    <2>1. Picked(Pieces, s, at, Pick(s, at))
        BY <1>2, <1>4, PickedFacts
    <2> QED
        BY ONLY <1>8, <2>1 DEF Picked
<1>10. ASSUME NEW k \in 1 .. n
       PROVE  Pick(s, at)[k] = calls[k]
    <2>1. f[k] = Place(p, k) + 3
        BY DEF f
    <2> QED
        BY ONLY <1>5, <1>8, <1>9, <2>1, k \in 1 .. n
<1>11. calls \in Seq(Pieces)
    <2>1. {"f", "n"} \subseteq Pieces
        BY DEF Pieces
    <2> QED
        BY <2>1, SeqMonotonic
<1>12. Pick(s, at) = calls
    BY <1>1, <1>9, <1>10, <1>11, SeqEqual
<1> QED
    BY ONLY <1>12 DEF at

Breaks(e) == e \in Seq(Pieces) /\ \A i \in 1 .. Len(e) : e[i] = "nl"

\* The two ways the template separates.
LEMMA BreaksFacts == Breaks(<<>>) /\ Breaks(<<"nl", "nl">>)
<1>1. <<>> \in Seq(Pieces) /\ Len(<<>>) = 0
    BY EmptySeq
<1>2. <<"nl", "nl">> \in Seq(Pieces)
    BY DEF Pieces
<1>3. \A i \in 1 .. Len(<<"nl", "nl">>) : <<"nl", "nl">>[i] = "nl"
    OBVIOUS
<1> QED
    BY <1>1, <1>2, <1>3 DEF Breaks

\* Line breaks behind a text complete no tag.
LEMMA BreaksBehind ==
    ASSUME NEW c \in Seq(Pieces), Clean(c), NEW e, Breaks(e), NEW w, w = c \o e
    PROVE  w \in Seq(Pieces) /\ \A tag \in Wrappers \cup {OpenCall} : Hits(w, tag) = {}
<1>1. /\ w \in Seq(Pieces) /\ Len(w) = Len(c) + Len(e) /\ Len(c) \in Nat /\ Len(e) \in Nat
      /\ \A i \in 1 .. Len(c) : w[i] = c[i]
      /\ \A i \in Len(c) + 1 .. Len(w) : w[i] = "nl"
    <2>1. e \in Seq(Pieces)
        BY DEF Breaks
    <2>2. /\ w \in Seq(Pieces) /\ Len(w) = Len(c) + Len(e) /\ Len(c) \in Nat /\ Len(e) \in Nat
          /\ \A i \in 1 .. Len(c) : w[i] = c[i]
          /\ \A i \in Len(c) + 1 .. Len(c) + Len(e) : w[i] = e[i - Len(c)]
        BY <2>1, JoinFacts
    <2>3. ASSUME NEW i \in Len(c) + 1 .. Len(w)
          PROVE  w[i] = "nl"
        <3>1. i - Len(c) \in 1 .. Len(e) /\ w[i] = e[i - Len(c)]
            BY ONLY <2>2, i \in Len(c) + 1 .. Len(w)
        <3> QED
            BY <3>1 DEF Breaks
    <2> QED
        BY ONLY <2>2, <2>3
<1>2. \A i \in 1 .. Len(w) : w[i] # "nl" => i \in 1 .. Len(c) /\ c[i] = w[i]
    BY ONLY <1>1
<1>3. ASSUME NEW tag \in Wrappers \cup {OpenCall}
      PROVE  Hits(c, tag) = {}
    <2>1. Find(c, tag) = 0
        BY DEF Clean
    <2>2. tag \in Seq(Pieces) /\ tag # <<>>
        BY TagsAreTexts DEF Wrappers
    <2> QED
        BY <2>1, <2>2, FindFacts
<1>4. Hits(w, OpenCall) = {}
    <2> SUFFICES ASSUME NEW h \in Hits(w, OpenCall)
                 PROVE  FALSE
        OBVIOUS
    <2>1. h \in 1 .. Len(w) - 1 /\ w[h] = "<" /\ w[h + 1] = "tool_call>"
        BY <1>1, OpenCallHits
    <2>2. h \in 1 .. Len(w) /\ h + 1 \in 1 .. Len(w)
        BY ONLY <1>1, <2>1
    <2>3. h \in 1 .. Len(c) /\ h + 1 \in 1 .. Len(c) /\ c[h] = "<" /\ c[h + 1] = "tool_call>"
        BY ONLY <1>2, <2>1, <2>2
    <2>4. h \in 1 .. Len(c) - 1
        BY ONLY <1>1, <2>3
    <2> QED
        BY <1>3, <2>3, <2>4, OpenCallHits
<1>5. Hits(w, Invoke) = {}
    <2> SUFFICES ASSUME NEW h \in Hits(w, Invoke)
                 PROVE  FALSE
        OBVIOUS
    <2>1. h \in 1 .. Len(w) - 1 /\ w[h] = "<" /\ w[h + 1] = "invoke>"
        BY <1>1, WrapperHits
    <2>2. h \in 1 .. Len(w) /\ h + 1 \in 1 .. Len(w)
        BY ONLY <1>1, <2>1
    <2>3. h \in 1 .. Len(c) /\ h + 1 \in 1 .. Len(c) /\ c[h] = "<" /\ c[h + 1] = "invoke>"
        BY ONLY <1>2, <2>1, <2>2
    <2>4. h \in 1 .. Len(c) - 1
        BY ONLY <1>1, <2>3
    <2>5. h \in Hits(c, Invoke)
        BY <2>3, <2>4, WrapperHits
    <2> QED
        BY <1>3, <2>5 DEF Wrappers
<1>6. Hits(w, EndInvoke) = {}
    <2> SUFFICES ASSUME NEW h \in Hits(w, EndInvoke)
                 PROVE  FALSE
        OBVIOUS
    <2>1. /\ h \in 1 .. Len(w) - 2
          /\ w[h] = "<" /\ w[h + 1] = "/" /\ w[h + 2] = "invoke>"
        BY <1>1, WrapperHits
    <2>2. h \in 1 .. Len(w) /\ h + 1 \in 1 .. Len(w) /\ h + 2 \in 1 .. Len(w)
        BY ONLY <1>1, <2>1
    <2>3. /\ h \in 1 .. Len(c) /\ h + 2 \in 1 .. Len(c)
          /\ c[h] = "<" /\ c[h + 1] = "/" /\ c[h + 2] = "invoke>"
        BY ONLY <1>2, <2>1, <2>2
    <2>4. h \in 1 .. Len(c) - 2
        BY ONLY <1>1, <2>3
    <2>5. h \in Hits(c, EndInvoke)
        BY <2>3, <2>4, WrapperHits
    <2> QED
        BY <1>3, <2>5 DEF Wrappers
<1> QED
    BY <1>1, <1>4, <1>5, <1>6 DEF Wrappers

\* A text that is its own strip ends in no line break.
LEMMA StripsItself ==
    ASSUME NEW c \in Seq(Pieces), Strip(c) = c
    PROVE  Len(c) > 0 => c[Len(c)] # "nl"
<1>1. PICK k \in 0 .. Len(c) : /\ RStrip(c) = Upto(c, k + 1)
                               /\ k > 0 => c[k] # "nl"
    BY RStripFacts
<1>2. Len(c) \in Nat
    BY LenProperties
<1>3. RStrip(c) \in Seq(Pieces) /\ Len(RStrip(c)) = k
    <2>1. k + 1 \in 1 .. Len(c) + 1
        BY <1>2
    <2>2. Upto(c, k + 1) \in Seq(Pieces) /\ Len(Upto(c, k + 1)) = (k + 1) - 1
        BY <2>1, CutFacts
    <2> QED
        BY <1>1, <1>2, <2>2
<1>4. Len(LStrip(RStrip(c))) <= Len(RStrip(c))
    BY <1>3, LStripTypes
<1>5. Len(c) <= k
    BY <1>3, <1>4 DEF Strip
<1>6. k = Len(c)
    BY ONLY <1>2, <1>5, k \in 0 .. Len(c)
<1> QED
    BY ONLY <1>1, <1>6

\* What the parser takes from such a text is the text.
LEMMA CleanLeading ==
    ASSUME NEW c \in Seq(Pieces), Clean(c), NEW e, Breaks(e), NEW w, w = c \o e
    PROVE  StripNoise(w) = c /\ Strip(StripNoise(w)) = c
<1>1. w \in Seq(Pieces) /\ \A tag \in Wrappers : Hits(w, tag) = {}
    BY BreaksBehind
<1>2. DOMAIN w = 1 .. Len(w) /\ Len(w) \in Nat /\ Len(c) \in Nat
    BY <1>1, LenProperties
<1>3. \A i \in DOMAIN w : ~Noise(w, i)
    BY <1>1 DEF Noise
<1>4. {i \in DOMAIN w : ~Noise(w, i)} = 1 .. Len(w)
    BY ONLY <1>2, <1>3
<1>5. Pick(w, 1 .. Len(w)) = w
    BY <1>1, PickWhole
<1>6. StripNoise(w) = RStrip(w)
    BY ONLY <1>4, <1>5 DEF StripNoise
<1>7. Strip(c) = c
    BY DEF Clean
<1>8. Len(c) > 0 => c[Len(c)] # "nl"
    BY <1>7, StripsItself
<1>9. e \in Seq(Pieces)
    BY DEF Breaks
<1>10. /\ Len(w) = Len(c) + Len(e) /\ Len(e) \in Nat
       /\ \A i \in 1 .. Len(c) : w[i] = c[i]
       /\ \A i \in Len(c) + 1 .. Len(c) + Len(e) : w[i] = e[i - Len(c)]
    BY <1>9, JoinFacts
<1>11. PICK k \in 0 .. Len(w) : /\ RStrip(w) = Upto(w, k + 1)
                                /\ \A j \in k + 1 .. Len(w) : w[j] = "nl"
                                /\ k > 0 => w[k] # "nl"
    BY <1>1, RStripFacts
<1>12. k <= Len(c)
    <2> SUFFICES ASSUME k > Len(c)
                 PROVE  FALSE
        BY <1>2
    <2>1. k - Len(c) \in 1 .. Len(e) /\ w[k] = e[k - Len(c)] /\ k > 0
        BY ONLY <1>2, <1>10, k \in 0 .. Len(w), k > Len(c)
    <2>2. e[k - Len(c)] = "nl"
        BY <2>1 DEF Breaks
    <2> QED
        BY ONLY <1>11, <2>1, <2>2
<1>13. k >= Len(c)
    <2> SUFFICES ASSUME k < Len(c)
                 PROVE  FALSE
        BY <1>2
    <2>1. /\ Len(c) \in k + 1 .. Len(w) /\ Len(c) \in 1 .. Len(c) /\ Len(c) > 0
        BY ONLY <1>2, <1>10, k \in 0 .. Len(w), k < Len(c)
    <2> QED
        BY ONLY <1>8, <1>10, <1>11, <2>1
<1>14. k = Len(c)
    BY ONLY <1>2, <1>12, <1>13, k \in 0 .. Len(w)
<1>15. Upto(w, Len(c) + 1) = c
    BY <1>9, CutJoin
<1> QED
    BY ONLY <1>6, <1>7, <1>11, <1>14, <1>15

\* A reply s in the template's format is the text c and the calls, and the
\* parser finds both.
Reads(s, table, c, calls) ==
    /\ c \in Seq(Pieces) /\ calls \in Seq({"f", "n"}) /\ Strip(c) = c
    /\ s = Formatted(c, calls)
    /\ ParseCalls(s, table) = [leading |-> c, calls |-> calls]
    /\ \A k \in 1 .. Len(calls) : calls[k] \in ToSet(s)
    /\ calls = <<>> <=> Find(s, OpenCall) = 0
    /\ calls # <<>> => (c = <<>> <=> Find(s, OpenCall) = 1)

\* A text without calls is its own reading.
LEMMA NoCallsRead ==
    ASSUME NEW c \in Seq(Pieces), Clean(c), NEW table
    PROVE  Reads(c, table, c, <<>>)
<1>1. c \o <<>> = c
    BY ConcatEmptySeq
<1>2. Formatted(c, <<>>) = c
    BY <1>1 DEF Formatted, Only
<1>3. Find(c, OpenCall) = 0 /\ Strip(c) = c
    BY DEF Clean
<1>4. Hits(c, OpenCall) = {}
    BY <1>3, FoundOpenCall
<1>5. StripNoise(c) = c
    BY <1>1, BreaksFacts, CleanLeading
<1>6. \A i \in DOMAIN c : ~InCall(c, i)
    BY <1>4 DEF InCall
<1>7. Pick(c, {}) = <<>>
    <2>1. Pick(c, {}) \in Seq(Pieces) /\ Len(Pick(c, {})) = Cardinality({})
        BY PickFacts
    <2>2. Cardinality({}) = 0
        BY FS_EmptySet
    <2> QED
        BY <2>1, <2>2, EmptySeq
<1>8. {i \in DOMAIN c : c[i] \in table /\ InCall(c, i)} = {}
    BY ONLY <1>6
<1>9. ParseCalls(c, table) = [leading |-> c, calls |-> <<>>]
    BY ONLY <1>3, <1>5, <1>7, <1>8 DEF ParseCalls
<1>10. <<>> \in Seq({"f", "n"}) /\ Len(<<>>) = 0
    BY EmptySeq
<1> QED
    BY ONLY c \in Seq(Pieces), <1>2, <1>3, <1>9, <1>10 DEF Reads

\* Text and calls are read back as they were written.
LEMMA CallsRead ==
    ASSUME NEW c \in Seq(Pieces), Clean(c),
           NEW calls \in Seq({"f", "n"}), calls # <<>>,
           NEW s, s = Formatted(c, calls),
           NEW table, table \subseteq {"f", "n"},
           Find(s, OpenCall) # 0 => ToSet(s) \cap {"f", "n"} \subseteq table
    PROVE  s \in Seq(Pieces) /\ Reads(s, table, c, calls)
<1> DEFINE e == IF c # <<>> THEN <<"nl", "nl">> ELSE <<>>
<1>1. e \in Seq(Pieces) /\ Breaks(e) /\ (c = <<>> <=> Len(e) = 0) /\ Len(e) \in {0, 2}
    <2>1. Breaks(e)
        BY BreaksFacts
    <2>2. c = <<>> => Len(e) = 0
        OBVIOUS
    <2>3. c # <<>> => Len(e) = 2
        OBVIOUS
    <2> QED
        BY <2>1, <2>2, <2>3 DEF Breaks
<1>2. PICK cb \in Seq(Pieces) : cb = CallBlocks(calls)
    BY CallBlocksTypes
<1>3. s = c \o (e \o cb)
    BY ONLY <1>2, calls # <<>>, s = Formatted(c, calls) DEF Formatted, Only
<1> HIDE DEF e
<1>4. PICK a \in Seq(Pieces) : a = c \o e
    BY <1>1, JoinFacts
<1>5. s = a \o cb
    <2>1. PICK x \in Seq(Pieces) : x = e
        BY <1>1
    <2>2. Associates(c, x, cb)
        BY ThreeTexts
    <2> QED
        BY ONLY <1>3, <1>4, <2>1, <2>2 DEF Associates
<1>6. PICK p \in Nat : p = Len(a)
    BY LenProperties
<1>7. CallsAt(s, p, calls) /\ \A i \in 1 .. p : s[i] = a[i]
    <2>1. s = a \o CallBlocks(calls)
        BY ONLY <1>2, <1>5
    <2>2. RowBehind(a, s, p, calls)
        BY <1>6, <2>1, RowStands
    <2> QED
        BY ONLY <2>2 DEF RowBehind
<1>8. Hits(a, OpenCall) = {}
    BY <1>1, <1>4, BreaksBehind
<1>9. Find(s, OpenCall) = p + 1 /\ TagsBehind(s, p, calls)
    BY <1>6, <1>7, <1>8, RowFound
<1>10. s \in Seq(Pieces) /\ DOMAIN s = 1 .. Len(s)
    BY <1>7, LenProperties DEF CallsAt
<1>t. ToSet(s) \cap {"f", "n"} \subseteq table
    <2>1. Find(s, OpenCall) # 0
        BY ONLY <1>9, p \in Nat
    <2> QED
        BY ONLY <2>1, Find(s, OpenCall) # 0 => ToSet(s) \cap {"f", "n"} \subseteq table
<1>11. ASSUME NEW k \in 1 .. Len(calls)
       PROVE  calls[k] \in table /\ calls[k] \in ToSet(s)
    <2>1. calls[k] \in {"f", "n"} /\ BlockAt(s, Place(p, k), calls[k]) /\ Place(p, k) \in Nat
        BY <1>7 DEF CallsAt
    <2>2. PICK o \in Nat : o = Place(p, k)
        BY <2>1
    <2>3. o \in 1 .. Len(s) /\ o + 7 \in 1 .. Len(s) /\ s[o + 3] = calls[k]
        BY <2>1, <2>2 DEF BlockAt
    <2>4. o + 3 \in DOMAIN s
        BY ONLY <1>10, <2>3, o \in Nat
    <2>5. s[o + 3] \in ToSet(s)
        BY ONLY <2>4 DEF ToSet
    <2> QED
        BY ONLY <1>t, <2>1, <2>3, <2>5
<1>12. Pick(s, InCalls(s, table)) = calls
    BY ONLY p \in Nat, calls \in Seq({"f", "n"}), table \subseteq {"f", "n"},
            <1>7, <1>9, <1>11, RowParsed
<1>13. Upto(s, p + 1) = a
    BY <1>5, <1>6, CutJoin
<1>14. Strip(StripNoise(a)) = c
    BY <1>1, <1>4, CleanLeading
<1>15. ParseCalls(s, table) = [leading |-> c, calls |-> calls]
    <2>1. Find(s, OpenCall) # 0
        BY ONLY <1>9, p \in Nat
    <2>2. Strip(StripNoise(IF Find(s, OpenCall) = 0 THEN s ELSE Upto(s, Find(s, OpenCall)))) = c
        BY ONLY <1>9, <1>13, <1>14, <2>1
    <2> QED
        BY ONLY <1>12, <2>2 DEF ParseCalls, InCalls
<1>16. c = <<>> <=> p = 0
    <2>1. Len(a) = Len(c) + Len(e) /\ Len(c) \in Nat
        BY <1>1, <1>4, JoinFacts
    <2>2. c = <<>> <=> Len(c) = 0
        BY EmptySeq
    <2> QED
        BY ONLY <1>1, <1>6, <2>1, <2>2
<1>17. (calls = <<>> <=> Find(s, OpenCall) = 0) /\ (c = <<>> <=> Find(s, OpenCall) = 1)
    BY ONLY <1>9, <1>16, calls # <<>>, p \in Nat
<1>18. Strip(c) = c
    BY DEF Clean
<1> QED
    BY ONLY c \in Seq(Pieces), calls \in Seq({"f", "n"}), s = Formatted(c, calls),
            <1>10, <1>11, <1>15, <1>17, <1>18 DEF Reads

\* So every reply in the template's format can be read.
LEMMA FormatRead ==
    ASSUME NEW s \in Seq(Pieces), InFormat(s), NEW table, table \subseteq {"f", "n"},
           Find(s, OpenCall) # 0 => ToSet(s) \cap {"f", "n"} \subseteq table
    PROVE  \E c, calls : Reads(s, table, c, calls)
<1>1. PICK i \in 1 .. Len(s) + 1, n \in 0 .. Len(s) :
         \E calls \in [1 .. n -> {"f", "n"}] :
             Clean(Upto(s, i)) /\ s = Formatted(Upto(s, i), calls)
    BY DEF InFormat
<1>2. PICK calls \in [1 .. n -> {"f", "n"}] :
         Clean(Upto(s, i)) /\ s = Formatted(Upto(s, i), calls)
    BY <1>1
<1>3. calls \in Seq({"f", "n"})
    <2>1. n \in Nat
        BY LenProperties
    <2> QED
        BY <2>1
<1>4. PICK c \in Seq(Pieces) : c = Upto(s, i)
    BY CutFacts
<1>5. Clean(c) /\ s = Formatted(c, calls)
    BY ONLY <1>2, <1>4
<1>6. CASE calls = <<>>
    <2>1. s = c
        <3>1. c \o <<>> = c
            BY ConcatEmptySeq
        <3> QED
            BY ONLY <1>5, <1>6, <3>1 DEF Formatted, Only
    <2>2. Reads(c, table, c, <<>>)
        BY <1>5, NoCallsRead
    <2> QED
        BY ONLY <2>1, <2>2
<1>7. CASE calls # <<>>
    <2>1. Reads(s, table, c, calls)
        BY <1>3, <1>5, <1>7, CallsRead
    <2> QED
        BY ONLY <2>1
<1> QED
    BY <1>6, <1>7

-----------------------------------------------------------------------------
(* A request whose history has grown.                                      *)

\* A turn is printed alike where its item and its neighbours are alike.
LEMMA SameTurn ==
    ASSUME NEW g, NEW i, NEW h, NEW j, g[i] = h[j],
           Opens(g, i) <=> Opens(h, j), Closes(g, i) <=> Closes(h, j)
    PROVE  Turn(g, i) = Turn(h, j)
<1>1. PICK x : x = g[i] /\ x = h[j]
    OBVIOUS
<1>2. \A s : Only(Opens(g, i), s) = Only(Opens(h, j), s)
    BY DEF Only
<1>3. \A s : Only(Closes(g, i), s) = Only(Closes(h, j), s)
    BY DEF Only
<1>4. ToolTurn(g, i) = ToolTurn(h, j)
    BY ONLY <1>1, <1>2, <1>3 DEF ToolTurn
<1>5. CallItem(g, i) = CallItem(h, j)
    <2>1. (IF Opens(g, i) THEN EmptyThink ELSE <<"nl">>) = (IF Opens(h, j) THEN EmptyThink ELSE <<"nl">>)
        OBVIOUS
    <2> QED
        BY ONLY <1>1, <1>3, <2>1 DEF CallItem
<1> QED
    BY ONLY <1>1, <1>4, <1>5 DEF Turn

\* Items behind others of another role leave the turns of those as they are.
LEMMA TurnsConcat ==
    ASSUME NEW W, NEW a \in Seq(Messages(W)), NEW x \in Seq(Messages(W)),
           a # <<>>, x # <<>>, a[Len(a)].role # x[1].role
    PROVE  Turns(a \o x) = Turns(a) \o Turns(x)
<1>1. PICK w \in Seq(Messages(W)) : w = a \o x
    BY JoinFacts
<1>2. PICK n \in Nat \ {0} : n = Len(a)
    BY LenProperties, EmptySeq
<1>3. PICK m \in Nat \ {0} : m = Len(x)
    BY LenProperties, EmptySeq
<1>4. /\ Len(w) = n + m
      /\ \A i \in 1 .. n : w[i] = a[i]
      /\ \A i \in 1 .. m : w[n + i] = x[i]
    BY <1>1, <1>2, <1>3, JoinFacts
<1>5. PICK l \in 1 .. n : l = n
    OBVIOUS
<1>6. PICK f \in 1 .. m : f = 1
    OBVIOUS
<1>7. a[l].role # x[f].role
    BY <1>2, <1>5, <1>6
<1>8. ASSUME NEW i \in 1 .. n
      PROVE  Turn(w, i) = Turn(a, i)
    <2>1. w[i] = a[i]
        BY <1>4
    <2>2. Opens(w, i) <=> Opens(a, i)
        <3>1. i # 1 => i - 1 \in 1 .. n
            OBVIOUS
        <3>2. i # 1 => w[i - 1] = a[i - 1]
            BY ONLY <1>4, <3>1
        <3> QED
            BY ONLY <2>1, <3>2 DEF Opens
    <2>3. Closes(w, i) <=> Closes(a, i)
        <3>1. CASE i = n
            <4>1. Closes(a, i)
                BY ONLY <1>2, <3>1 DEF Closes
            <4>2. w[n + f] = x[f]
                BY ONLY <1>4, f \in 1 .. m
            <4>3. w[i + 1].role # w[i].role
                BY ONLY <1>5, <1>6, <1>7, <2>1, <3>1, <4>2
            <4> QED
                BY ONLY <4>1, <4>3 DEF Closes
        <3>2. CASE i # n
            <4>1. i + 1 \in 1 .. n /\ i # Len(w)
                BY ONLY <1>4, <3>2, i \in 1 .. n, n \in Nat, m \in Nat
            <4>2. w[i + 1] = a[i + 1]
                BY ONLY <1>4, <4>1
            <4> QED
                BY ONLY <1>2, <2>1, <3>2, <4>1, <4>2 DEF Closes
        <3> QED
            BY ONLY <3>1, <3>2
    <2> QED
        BY ONLY <2>1, <2>2, <2>3, SameTurn
<1>9. ASSUME NEW j \in 1 .. m
      PROVE  Turn(w, n + j) = Turn(x, j)
    <2>1. w[n + j] = x[j]
        BY <1>4
    <2>2. Closes(w, n + j) <=> Closes(x, j)
        <3>a. n + j = n + m <=> j = m
            BY ONLY j \in 1 .. m, n \in Nat, m \in Nat
        <3>1. n + j = Len(w) <=> j = Len(x)
            BY ONLY <1>3, <1>4, <3>a
        <3>2. j # m => j + 1 \in 1 .. m /\ (n + j) + 1 = n + (j + 1)
            BY ONLY j \in 1 .. m, n \in Nat, m \in Nat
        <3>3. j # m => w[(n + j) + 1] = x[j + 1]
            BY ONLY <1>4, <3>2
        <3> QED
            BY ONLY <1>3, <2>1, <3>1, <3>3 DEF Closes
    <2>3. Opens(w, n + j) <=> Opens(x, j)
        <3>1. CASE j = 1
            <4>1. Opens(x, j)
                BY ONLY <3>1 DEF Opens
            <4>2. w[l] = a[l]
                BY ONLY <1>4, l \in 1 .. n
            <4>3. (n + j) - 1 = l
                BY ONLY <1>5, <3>1, n \in Nat
            <4>4. w[(n + j) - 1].role # w[n + j].role
                BY ONLY <1>6, <1>7, <2>1, <3>1, <4>2, <4>3
            <4> QED
                BY ONLY <4>1, <4>4 DEF Opens
        <3>2. CASE j # 1
            <4>1. j - 1 \in 1 .. m /\ (n + j) - 1 = n + (j - 1) /\ n + j # 1
                BY ONLY <3>2, j \in 1 .. m, n \in Nat, m \in Nat
            <4>2. w[(n + j) - 1] = x[j - 1]
                BY ONLY <1>4, <4>1
            <4> QED
                BY ONLY <2>1, <3>2, <4>1, <4>2 DEF Opens
        <3> QED
            BY ONLY <3>1, <3>2
    <2> QED
        BY ONLY <2>1, <2>2, <2>3, SameTurn
<1>t. PICK T : T = Seq(Spoken(W))
    OBVIOUS
<1>10. PICK u \in Seq(T) : u = Turns(a) /\ Len(u) = n /\ \A i \in 1 .. n : u[i] = Turn(a, i)
    BY <1>2, <1>t, TurnsWords
<1>11. PICK v \in Seq(T) : v = Turns(x) /\ Len(v) = m /\ \A i \in 1 .. m : v[i] = Turn(x, i)
    BY <1>3, <1>t, TurnsWords
<1>12. PICK y \in Seq(T) : y = Turns(w) /\ Len(y) = n + m /\ \A i \in 1 .. n + m : y[i] = Turn(w, i)
    BY <1>4, <1>t, TurnsWords
<1>13. PICK z \in Seq(T) : /\ z = u \o v /\ Len(z) = n + m
                           /\ \A i \in 1 .. n : z[i] = u[i]
                           /\ \A i \in 1 .. m : z[n + i] = v[i]
    <2>1. /\ u \o v \in Seq(T) /\ Len(u \o v) = Len(u) + Len(v)
          /\ \A i \in 1 .. Len(u) : (u \o v)[i] = u[i]
          /\ \A i \in 1 .. Len(v) : (u \o v)[Len(u) + i] = v[i]
        BY ONLY u \in Seq(T), v \in Seq(T), JoinFacts
    <2>2. Len(u) = n /\ Len(v) = m
        BY ONLY <1>10, <1>11
    <2> QED
        BY ONLY <2>1, <2>2
<1>14. ASSUME NEW i \in 1 .. n + m
       PROVE  y[i] = z[i]
    <2>1. CASE i \in 1 .. n
        BY ONLY <1>8, <1>10, <1>12, <1>13, <2>1, i \in 1 .. n + m
    <2>2. CASE i \notin 1 .. n
        <3>1. i - n \in 1 .. m /\ i = n + (i - n)
            BY ONLY <2>2, i \in 1 .. n + m, n \in Nat, m \in Nat
        <3>2. PICK j \in 1 .. m : i = n + j
            BY ONLY <3>1
        <3>3. z[n + j] = v[j] /\ v[j] = Turn(x, j) /\ Turn(w, n + j) = Turn(x, j)
            BY ONLY <1>9, <1>11, <1>13, j \in 1 .. m
        <3>4. y[i] = Turn(w, i)
            BY ONLY <1>12, i \in 1 .. n + m
        <3> QED
            BY ONLY <3>2, <3>3, <3>4
    <2> QED
        BY ONLY <2>1, <2>2
<1>15. y = z
    BY ONLY y \in Seq(T), z \in Seq(T), <1>12, <1>13, <1>14, SeqEqual
<1> QED
    BY ONLY <1>1, <1>10, <1>11, <1>12, <1>13, <1>15

\* Joining three texts either way.
LEMMA Grouped ==
    ASSUME NEW T, NEW a \in Seq(T), NEW b \in Seq(T), NEW c \in Seq(T)
    PROVE  Associates(a, b, c)
<1>1. (a \o b) \o c = a \o (b \o c)
    BY ONLY a \in Seq(T), b \in Seq(T), c \in Seq(T), ConcatAssociative, SMTT(60)
<1> QED
    BY ONLY <1>1 DEF Associates

\* One text, flattened.
LEMMA FlatOne ==
    ASSUME NEW T, NEW g \in Seq(T)
    PROVE  FlattenSeq(<< g >>) = g
<1>1. PICK s \in Seq(Seq(T)) : s = << g >> /\ Len(s) = 1 /\ s[1] = g
    <2>1. PICK S : S = Seq(T)
        OBVIOUS
    <2>2. g \in S
        BY <2>1
    <2>3. << g >> \in Seq(S) /\ Len(<< g >>) = 1 /\ << g >>[1] = g
        BY ONLY <2>2
    <2> QED
        BY ONLY <2>1, <2>3
<1>2. PICK f : IsSums(s, f, T) /\ FlattenSeq(s) = f[Len(s)]
    BY FlatSums
<1>3. f[1] = f[0] \o s[1] /\ f[0] = <<>>
    <2>1. f[0] = <<>> /\ \A i \in 1 .. 1 : f[i] = f[i - 1] \o s[i]
        BY ONLY <1>1, <1>2 DEF IsSums
    <2>2. PICK i \in 1 .. 1 : i = 1 /\ i - 1 = 0
        OBVIOUS
    <2>3. f[i] = f[i - 1] \o s[i]
        BY ONLY <2>1, i \in 1 .. 1
    <2> QED
        BY ONLY <2>1, <2>2, <2>3
<1>4. <<>> \o g = g
    BY ConcatEmptySeq
<1> QED
    BY ONLY <1>1, <1>2, <1>3, <1>4

\* What is behind a place grows with the text.
LEMMA FromConcat ==
    ASSUME NEW T, NEW h \in Seq(T), NEW x \in Seq(T), NEW i \in 1 .. Len(h) + 1
    PROVE  From(h \o x, i) = From(h, i) \o x
<1>1. /\ Upto(h, i) \in Seq(T) /\ From(h, i) \in Seq(T) /\ Upto(h, i) \o From(h, i) = h
      /\ Len(Upto(h, i)) = i - 1
    BY CutFacts
<1>2. PICK u \in Seq(T) : u = Upto(h, i)
    BY <1>1
<1>3. PICK f \in Seq(T) : f = From(h, i)
    BY <1>1
<1>4. PICK y \in Seq(T) : y = f \o x
    BY JoinFacts
<1>5. h \o x = u \o y
    <2>1. Associates(u, f, x)
        BY Grouped
    <2> QED
        BY ONLY <1>1, <1>2, <1>3, <1>4, <2>1 DEF Associates
<1>6. From(u \o y, Len(u) + 1) = y
    BY CutJoin
<1>7. Len(u) + 1 = i
    BY <1>1, <1>2, LenProperties
<1> QED
    BY ONLY <1>3, <1>4, <1>5, <1>6, <1>7

\* The items that join the system turn, and the ones behind them.
Lead      == IF Chat THEN (IF Begin[1].role = "system" THEN 1 ELSE 0) ELSE Developers(Begin)
Behind(h) == From(h, Lead + 1)

\* The question itself does not lead.
LEMMA LeadFacts ==
    ASSUME NEW W, OpeningShape(W), mode \in Modes
    PROVE  Lead \in Nat /\ Lead < Len(Begin)
<1>1. /\ Begin \in Seq(Messages(W)) /\ Len(Begin) \in Nat \ {0}
      /\ Begin[Len(Begin)] = Item("user", <<"ask">>)
    BY BeginFacts
<1>2. CASE Chat /\ Begin[1].role = "system"
    <2>1. Begin[Len(Begin)].role = "user"
        BY ONLY <1>1 DEF Item
    <2>2. Len(Begin) # 1
        BY ONLY <1>2, <2>1
    <2>3. Lead = 1
        BY ONLY <1>2 DEF Lead
    <2> QED
        BY ONLY <1>1, <2>2, <2>3
<1>3. CASE Chat /\ Begin[1].role # "system"
    <2>1. Lead = 0
        BY ONLY <1>3 DEF Lead
    <2> QED
        BY ONLY <1>1, <2>1
<1>4. CASE ~Chat
    <2>1. Lead = Developers(Begin)
        BY ONLY <1>4 DEF Lead
    <2>2. Extends(Begin)
        BY ONLY <1>1 DEF Extends
    <2>3. Developers(Begin) \in 0 .. Len(Begin) - 1
        BY <1>1, <2>2, DeveloperFacts
    <2> QED
        BY ONLY <1>1, <2>1, <2>3
<1> QED
    BY ONLY <1>2, <1>3, <1>4

\* What is behind the system turn is not empty and ends as the history does.
LEMMA BehindFacts ==
    ASSUME NEW W, OpeningShape(W), mode \in Modes,
           NEW h \in Seq(Messages(W)), Extends(h)
    PROVE  /\ Behind(h) \in Seq(Messages(W)) /\ Behind(h) # <<>>
           /\ Behind(h)[Len(Behind(h))] = h[Len(h)]
           /\ Lead + 1 \in 1 .. Len(h) + 1
<1>1. PICK d \in Nat : d = Lead /\ d < Len(Begin)
    BY LeadFacts
<1>2. PICK n \in Nat : n = Len(h)
    BY LenProperties
<1>3. Len(h) >= Len(Begin) /\ Len(Begin) \in Nat
    BY BeginFacts DEF Extends
<1>4. PICK i \in 1 .. n + 1 : i = d + 1 /\ n - i + 1 \in 1 .. n
    BY ONLY <1>1, <1>2, <1>3, n \in Nat, d \in Nat
<1>5. /\ From(h, i) \in Seq(Messages(W)) /\ Len(From(h, i)) = Len(h) - i + 1
      /\ \A k \in 1 .. Len(h) - i + 1 : From(h, i)[k] = h[i + k - 1]
    BY ONLY <1>2, h \in Seq(Messages(W)), i \in 1 .. n + 1, CutFacts
<1>6. PICK k \in 1 .. n : k = n - i + 1 /\ i + k - 1 = n
    BY ONLY <1>4, n \in Nat, i \in 1 .. n + 1
<1>7. From(h, i)[k] = h[n] /\ Len(From(h, i)) = k
    <2>1. \A l \in 1 .. k : From(h, i)[l] = h[i + l - 1]
        BY ONLY <1>2, <1>5, <1>6
    <2>2. k \in 1 .. k
        BY ONLY k \in 1 .. n, n \in Nat
    <2>3. From(h, i)[k] = h[i + k - 1]
        BY ONLY <2>1, <2>2
    <2> QED
        BY ONLY <1>2, <1>5, <1>6, <2>3
<1>8. From(h, i) # <<>>
    BY ONLY <1>5, <1>7, k \in 1 .. n, EmptySeq
<1> QED
    BY ONLY <1>1, <1>2, <1>4, <1>5, <1>7, <1>8, i \in 1 .. n + 1 DEF Behind

\* A request is the system turn, the turns behind it and the generation prompt.
LEMMA Printed ==
    ASSUME NEW W, OpeningShape(W), mode \in Modes,
           NEW h \in Seq(Messages(W)), Extends(h)
    PROVE  Render(h).prompt = FlattenSeq((FirstHead \o Turns(Behind(h))) \o << Generation >>)
<1>1. /\ Len(Begin) \in Nat \ {0} /\ Len(h) \in Nat /\ Len(h) >= Len(Begin)
      /\ \A i \in 1 .. Len(Begin) : h[i] = Begin[i]
    BY BeginFacts, LenProperties DEF Extends
<1>2. CASE Chat
    <2> DEFINE own  == h # <<>> /\ h[1].role = "system"
               rest == IF own THEN Tail(h) ELSE h
    <2>1. h # <<>> /\ h[1] = Begin[1]
        <3>1. PICK i \in 1 .. Len(Begin) : i = 1
            BY <1>1
        <3>2. h[i] = Begin[i]
            BY ONLY <1>1, i \in 1 .. Len(Begin)
        <3>3. Len(h) # 0
            BY ONLY <1>1
        <3> QED
            BY ONLY <3>1, <3>2, <3>3, EmptySeq
    <2>2. FirstHead = SystemTurn(IF own THEN << StripBlocks(h[1].text) >> ELSE <<>>)
        BY ONLY <1>2, <2>1 DEF FirstHead
    <2>3. rest = Behind(h)
        <3>1. CASE own
            <4>1. Lead = 1
                BY ONLY <1>2, <2>1, <3>1 DEF Lead
            <4>2. From(h, 2) = Tail(h)
                BY ONLY <2>1, h \in Seq(Messages(W)), HeadTailProperties DEF From
            <4> QED
                BY ONLY <3>1, <4>1, <4>2 DEF Behind
        <3>2. CASE ~own
            <4>1. Lead = 0
                BY ONLY <1>2, <2>1, <3>2 DEF Lead
            <4>2. From(h, 1) = h
                BY ONLY h \in Seq(Messages(W)) DEF From
            <4> QED
                BY ONLY <3>2, <4>1, <4>2 DEF Behind
        <3> QED
            BY ONLY <3>1, <3>2
    <2>4. Render(h) = [prompt |-> FlattenSeq(FirstHead \o Turns(rest) \o << Generation >>),
                       prefix |-> FlattenSeq(FirstHead)]
        BY ONLY <1>2, <2>2 DEF Render, RenderChat
    <2> HIDE DEF own, rest
    <2> QED
        BY ONLY <2>3, <2>4
<1>3. CASE ~Chat
    <2> DEFINE n     == Developers(Begin)
               items == From(h, n + 1)
               parts == FirstHead \o Turns(items) \o << Generation >>
    <2>1. Developers(h) = n /\ n \in 0 .. Len(Begin) - 1
        BY DeveloperFacts
    <2>2. [i \in 1 .. n |-> StripBlocks(h[i].text)] = [i \in 1 .. n |-> StripBlocks(Begin[i].text)]
        <3>1. \A i \in 1 .. n : i \in 1 .. Len(Begin)
            BY ONLY <1>1, <2>1
        <3> HIDE DEF n
        <3> QED
            BY ONLY <1>1, <3>1
    <2>3. FirstHead = SystemTurn([i \in 1 .. n |-> StripBlocks(h[i].text)])
        BY ONLY <1>3, <2>2 DEF FirstHead
    <2>4. Render(h) = [prompt |-> FlattenSeq(parts),
                       prefix |-> FlattenSeq(Declared(FirstHead, parts, IsOpening(items)))]
        BY ONLY <1>3, <2>1, <2>3 DEF Render, RenderResponses, Developers
    <2>5. items = Behind(h)
        BY ONLY <1>3 DEF Behind, Lead
    <2> HIDE DEF n, items
    <2>6. Render(h).prompt = FlattenSeq(parts)
        BY ONLY <2>4
    <2> QED
        BY ONLY <2>5, <2>6 DEF parts
<1> QED
    BY ONLY <1>2, <1>3

\* When items of another role follow, the request is what it was up to the
\* generation prompt, and then their turns.
LEMMA PromptGrows ==
    ASSUME NEW W, OpeningShape(W), mode \in Modes,
           NEW h \in Seq(Messages(W)), Extends(h),
           NEW x \in Seq(Messages(W)), x # <<>>, h[Len(h)].role # x[1].role
    PROVE  \E a \in Seq(Spoken(W)) :
               /\ Render(h).prompt = a \o Generation
               /\ Render(h \o x).prompt = (a \o FlattenSeq(Turns(x))) \o Generation
<1>s. PICK T : T = Spoken(W)
    OBVIOUS
<1>1. PICK w \in Seq(Messages(W)) : w = h \o x
    BY JoinFacts
<1>2. Extends(w)
    <2>1. Len(w) = Len(h) + Len(x) /\ Len(h) \in Nat /\ Len(x) \in Nat
          /\ \A i \in 1 .. Len(h) : w[i] = h[i]
        BY <1>1, JoinFacts
    <2>2. Len(Begin) \in Nat /\ Len(h) >= Len(Begin) /\ \A i \in 1 .. Len(Begin) : h[i] = Begin[i]
        BY BeginFacts DEF Extends
    <2>3. Len(w) >= Len(Begin) /\ \A i \in 1 .. Len(Begin) : i \in 1 .. Len(h)
        BY ONLY <2>1, <2>2
    <2> QED
        BY ONLY <2>1, <2>2, <2>3 DEF Extends
<1>3. PICK b \in Seq(Messages(W)) :
         /\ b = Behind(h) /\ b # <<>> /\ b[Len(b)] = h[Len(h)] /\ Lead + 1 \in 1 .. Len(h) + 1
    BY BehindFacts
<1>4. Behind(w) = b \o x
    <2>1. PICK i \in 1 .. Len(h) + 1 : i = Lead + 1
        BY ONLY <1>3
    <2>2. From(h \o x, i) = From(h, i) \o x
        BY FromConcat
    <2> QED
        BY ONLY <1>1, <1>3, <2>1, <2>2 DEF Behind
<1>5. Turns(b \o x) = Turns(b) \o Turns(x)
    BY <1>3, TurnsConcat
<1>6. PICK f \in Seq(Seq(T)) : f = FirstHead
    BY <1>s, HeadSpoken
<1>7. PICK t \in Seq(Seq(T)) : t = Turns(b)
    BY <1>s, TurnsWords
<1>8. PICK y \in Seq(Seq(T)) : y = Turns(x)
    BY <1>s, TurnsWords
<1>9. PICK e \in Seq(Seq(T)) : e = << Generation >>
    BY <1>s, GenerationWords
<1>10. Render(h).prompt = FlattenSeq((f \o t) \o e)
    <2>1. Render(h).prompt = FlattenSeq((FirstHead \o Turns(Behind(h))) \o << Generation >>)
        BY Printed
    <2> QED
        BY ONLY <1>3, <1>6, <1>7, <1>9, <2>1
<1>11. Render(w).prompt = FlattenSeq((f \o (t \o y)) \o e)
    <2>1. Render(w).prompt = FlattenSeq((FirstHead \o Turns(Behind(w))) \o << Generation >>)
        BY <1>2, Printed
    <2> QED
        BY ONLY <1>4, <1>5, <1>6, <1>7, <1>8, <1>9, <2>1
<1>12. PICK S : S = Seq(T)
    OBVIOUS
<1>13. Associates(f, t, y)
    <2>1. f \in Seq(S) /\ t \in Seq(S) /\ y \in Seq(S)
        BY ONLY <1>12, f \in Seq(Seq(T)), t \in Seq(Seq(T)), y \in Seq(Seq(T))
    <2> QED
        BY ONLY <2>1, Grouped
<1>14. PICK u \in Seq(Seq(T)) : u = f \o t
    <2>1. f \o t \in Seq(Seq(T))
        BY ONLY f \in Seq(Seq(T)), t \in Seq(Seq(T)), ConcatProperties
    <2> QED
        BY ONLY <2>1
<1>15. PICK v \in Seq(Seq(T)) : v = u \o y
    <2>1. u \o y \in Seq(Seq(T))
        BY ONLY u \in Seq(Seq(T)), y \in Seq(Seq(T)), ConcatProperties
    <2> QED
        BY ONLY <2>1
<1>16. FlattenSeq(e) = Generation
    <2>1. Generation \in Seq(T)
        <3>1. PICK i \in 1 .. Len(e) : i = 1
            BY ONLY <1>9
        <3>2. e[i] \in Seq(T)
            BY ONLY e \in Seq(Seq(T)), i \in 1 .. Len(e), ElementOfSeq
        <3> QED
            BY ONLY <1>9, <3>1, <3>2
    <2> QED
        BY ONLY <1>9, <2>1, FlatOne
<1>17. /\ FlattenSeq(u \o e) = FlattenSeq(u) \o FlattenSeq(e)
       /\ FlattenSeq(v \o e) = FlattenSeq(v) \o FlattenSeq(e)
       /\ FlattenSeq(u \o y) = FlattenSeq(u) \o FlattenSeq(y)
       /\ FlattenSeq(u) \in Seq(T)
    <2>1. FlattenSeq(u \o e) = FlattenSeq(u) \o FlattenSeq(e)
        BY ONLY u \in Seq(Seq(T)), e \in Seq(Seq(T)), FlatConcat
    <2>2. FlattenSeq(v \o e) = FlattenSeq(v) \o FlattenSeq(e)
        BY ONLY v \in Seq(Seq(T)), e \in Seq(Seq(T)), FlatConcat
    <2>3. FlattenSeq(u \o y) = FlattenSeq(u) \o FlattenSeq(y)
        BY ONLY u \in Seq(Seq(T)), y \in Seq(Seq(T)), FlatConcat
    <2>4. FlattenSeq(u) \in Seq(T)
        BY ONLY u \in Seq(Seq(T)), FlatTypes
    <2> QED
        BY ONLY <2>1, <2>2, <2>3, <2>4
<1>18. PICK a \in Seq(T) : a = FlattenSeq(u)
    BY ONLY <1>17
<1>19. Render(h).prompt = a \o Generation
    BY ONLY <1>10, <1>14, <1>16, <1>17, <1>18
<1>20. Render(w).prompt = (a \o FlattenSeq(y)) \o Generation
    <2>1. f \o (t \o y) = v
        BY ONLY <1>13, <1>14, <1>15 DEF Associates
    <2> QED
        BY ONLY <1>11, <1>15, <1>16, <1>17, <1>18, <2>1
<1> QED
    BY ONLY <1>s, <1>1, <1>8, <1>19, <1>20, a \in Seq(T)

\* The texts around a turn are texts of a prompt.
LEMMA FrameTexts ==
    ASSUME NEW W
    PROVE  /\ ThinkOpen \in Seq(Spoken(W)) /\ EmptyThink \in Seq(Spoken(W))
           /\ <<"nl">> \in Seq(Spoken(W)) /\ <<"nl", "nl">> \in Seq(Spoken(W))
           /\ <<"end">> \in Seq(Spoken(W)) /\ CloseThink \in Seq(Spoken(W))
<1>1. PICK T : T = Spoken(W)
    OBVIOUS
<1>2. /\ "assistant" \in T /\ "<think>" \in T /\ "nl" \in T /\ "end" \in T
      /\ "<" \in T /\ "/" \in T /\ "think>" \in T
    BY <1>1 DEF Spoken, Frame, Pieces
<1>3. ThinkOpen \in Seq(T)
    BY ONLY <1>2 DEF ThinkOpen
<1>4. CloseThink \in Seq(T)
    BY ONLY <1>2 DEF CloseThink
<1>5. <<"nl">> \in Seq(T) /\ <<"nl", "nl">> \in Seq(T) /\ <<"end">> \in Seq(T)
    BY ONLY <1>2
<1>6. EmptyThink \in Seq(T)
    <2>1. PICK a \in Seq(T) : a = ThinkOpen \o <<"nl">>
        BY <1>3, <1>5, ConcatProperties
    <2>2. PICK b \in Seq(T) : b = a \o CloseThink
        BY <1>4, ConcatProperties
    <2>3. b \o <<"nl", "nl">> \in Seq(T)
        BY <1>5, ConcatProperties
    <2> QED
        BY ONLY <2>1, <2>2, <2>3 DEF EmptyThink
<1> QED
    BY ONLY <1>1, <1>3, <1>4, <1>5, <1>6

\* The turn of one item alone.
LEMMA TurnAlone ==
    ASSUME NEW W, NEW m \in Messages(W), NEW x, x = << m >>
    PROVE  x \in Seq(Messages(W)) /\ FlattenSeq(Turns(x)) = Turn(x, 1)
<1>1. PICK M : M = Messages(W)
    OBVIOUS
<1>2. x \in Seq(M) /\ Len(x) = 1
    <2>1. m \in M
        BY <1>1
    <2> QED
        BY ONLY <2>1, x = << m >>
<1>3. x \in Seq(Messages(W))
    BY ONLY <1>1, <1>2
<1>4. PICK S : S = Seq(Spoken(W))
    OBVIOUS
<1>5. Turns(x) \in Seq(S) /\ Len(Turns(x)) = 1 /\ \A i \in 1 .. 1 : Turns(x)[i] = Turn(x, i)
    BY <1>2, <1>3, <1>4, TurnsWords
<1>6. PICK i \in 1 .. 1 : i = 1
    OBVIOUS
<1>7. PICK t \in Seq(S) : t = Turns(x) /\ Len(t) = 1 /\ t[1] = Turn(x, 1)
    BY ONLY <1>5, <1>6
<1>8. Turn(x, 1) \in Seq(Spoken(W))
    <2>1. i \in 1 .. Len(x)
        BY <1>2
    <2>2. Turn(x, i) \in Seq(Spoken(W))
        BY <1>3, <2>1, TurnWords
    <2> QED
        BY ONLY <1>6, <2>2
<1>9. t = << Turn(x, 1) >>
    BY ONLY <1>7, t \in Seq(S)
<1>10. FlattenSeq(<< Turn(x, 1) >>) = Turn(x, 1)
    BY ONLY <1>8, FlatOne
<1> QED
    BY ONLY <1>3, <1>7, <1>9, <1>10

\* A chat client's item is printed as the model wrote it.
LEMMA ChatPrinted ==
    ASSUME NEW W, Chat, NEW m \in Messages(W), m.role = "assistant", m.reason = <<>>,
           m.text \in Seq(Pieces), Strip(m.text) = m.text, NEW x, x = << m >>
    PROVE  FlattenSeq(Turns(x)) = (EmptyThink \o Formatted(m.text, m.calls)) \o <<"end">>
<1>1. PICK T : T = Spoken(W)
    OBVIOUS
<1>2. FlattenSeq(Turns(x)) = Turn(x, 1)
    BY TurnAlone
<1>3. Turn(x, 1) = ChatAssistant(m)
    BY ONLY Chat, m.role = "assistant", x = << m >> DEF Turn
<1>4. PICK c \in Seq(T) : c = m.text
    <2>1. m.text \in Seq(T)
        BY <1>1, WordFacts, SeqMonotonic
    <2> QED
        BY ONLY <2>1
<1> DEFINE rest == Only(m.calls # <<>>, Only(c # <<>>, <<"nl", "nl">>) \o CallBlocks(m.calls))
<1>5. rest \in Seq(T)
    <2>1. Pieces \subseteq T /\ m.calls \in Seq({"f", "n"})
        BY <1>1, WordFacts DEF Messages
    <2>2. PICK cb \in Seq(T) : cb = CallBlocks(m.calls)
        BY <2>1, CallBlocksTypes
    <2>3. Only(c # <<>>, <<"nl", "nl">>) \in Seq(T)
        BY <1>1, FrameTexts, OnlyTypes
    <2>4. Only(c # <<>>, <<"nl", "nl">>) \o cb \in Seq(T)
        BY <2>3, ConcatProperties
    <2> QED
        BY ONLY <2>2, <2>4, OnlyTypes
<1>6. ThinkOpen \o <<>> = ThinkOpen
    BY FrameTexts, ConcatEmptySeq
<1>7. ChatAssistant(m) = ((EmptyThink \o c) \o rest) \o <<"end">>
    <2>1. Strip(m.text) = c
        BY ONLY <1>4, Strip(m.text) = m.text
    <2> QED
        BY ONLY <1>4, <1>6, <2>1, m.reason = <<>> DEF ChatAssistant, EmptyThink
<1>8. Formatted(m.text, m.calls) = c \o rest
    BY ONLY <1>4 DEF Formatted
<1> HIDE DEF rest
<1>9. PICK e \in Seq(T) : e = EmptyThink
    BY <1>1, FrameTexts
<1>10. Associates(e, c, rest)
    BY ONLY e \in Seq(T), c \in Seq(T), <1>5, Grouped
<1> QED
    BY ONLY <1>2, <1>3, <1>7, <1>8, <1>9, <1>10 DEF Associates

\* A Responses message is printed as the model wrote it.
LEMMA MessagePrinted ==
    ASSUME NEW W, ~Chat, NEW m \in Messages(W), m.role = "assistant", NEW x, x = << m >>
    PROVE  FlattenSeq(Turns(x)) = (EmptyThink \o m.text) \o <<"end">>
<1>1. FlattenSeq(Turns(x)) = Turn(x, 1)
    BY TurnAlone
<1>2. Turn(x, 1) = ItemAssistant(m)
    BY ONLY ~Chat, m.role = "assistant", x = << m >> DEF Turn
<1> QED
    BY ONLY <1>1, <1>2 DEF ItemAssistant

\* Calls without a namespace, and the items of a run of calls.
Plain(calls)      == \A k \in 1 .. Len(calls) : calls[k] = "f"
ItemsOf(x, calls) == /\ Len(x) = Len(calls)
                     /\ \A i \in 1 .. Len(calls) : x[i] = Item("call", << calls[i] >>)

\* The turns of a run of calls.
RunTurn(x, calls, k) ==
    Turn(x, k) = ((IF k = 1 THEN EmptyThink ELSE <<"nl">>) \o CallBlock(calls[k]))
                 \o Only(k = Len(calls), <<"end">>)

\* Calls next to each other share a turn.
LEMMA CallTurns ==
    ASSUME NEW calls \in Seq({"f", "n"}), Plain(calls), NEW x, ItemsOf(x, calls),
           NEW k \in 1 .. Len(calls)
    PROVE  RunTurn(x, calls, k)
<1>1. PICK n \in Nat : n = Len(calls)
    BY LenProperties
<1>2. \A i \in 1 .. n : x[i].role = "call" /\ x[i].text = << calls[i] >>
    <2> SUFFICES ASSUME NEW i \in 1 .. n
                 PROVE  x[i].role = "call" /\ x[i].text = << calls[i] >>
        OBVIOUS
    <2>1. x[i] = Item("call", << calls[i] >>)
        BY ONLY <1>1, ItemsOf(x, calls), i \in 1 .. n DEF ItemsOf
    <2> QED
        BY ONLY <2>1 DEF Item
<1>3. x[k].role = "call" /\ Bare(x[k].text[1]) = calls[k]
    <2>1. calls[k] = "f" /\ x[k].text = << calls[k] >> /\ x[k].role = "call"
        BY <1>1, <1>2 DEF Plain
    <2> QED
        BY ONLY <2>1 DEF Bare
<1>4. Opens(x, k) <=> k = 1
    <2>1. k # 1 => k - 1 \in 1 .. n
        BY ONLY <1>1, k \in 1 .. Len(calls)
    <2>2. k # 1 => x[k - 1].role = "call"
        BY ONLY <1>2, <2>1
    <2> QED
        BY ONLY <1>3, <2>2 DEF Opens
<1>5. Closes(x, k) <=> k = n
    <2>1. k # n => k + 1 \in 1 .. n
        BY ONLY <1>1, k \in 1 .. Len(calls)
    <2>2. k # n => x[k + 1].role = "call"
        BY ONLY <1>2, <2>1
    <2> QED
        BY ONLY <1>1, <1>3, <2>2, ItemsOf(x, calls) DEF Closes, ItemsOf
<1>6. Turn(x, k) = CallItem(x, k)
    BY ONLY <1>3 DEF Turn
<1>7. Only(Closes(x, k), <<"end">>) = Only(k = Len(calls), <<"end">>)
    BY ONLY <1>1, <1>5 DEF Only
<1>8. (IF Opens(x, k) THEN EmptyThink ELSE <<"nl">>) = (IF k = 1 THEN EmptyThink ELSE <<"nl">>)
    BY ONLY <1>4
<1> QED
    BY ONLY <1>3, <1>6, <1>7, <1>8 DEF CallItem, RunTurn

\* The layers of a run of calls are texts of a prompt.
LEMMA SpokenLayers ==
    ASSUME NEW W, NEW calls \in Seq({"f", "n"})
    PROVE  BlockLayers(calls) \in Seq(Seq(Spoken(W)))
<1>1. PICK p \in Seq(Seq(Pieces)) : p = BlockLayers(calls)
    BY LayersFacts
<1>2. \A s \in Seq(Pieces) : s \in Seq(Spoken(W))
    BY WordFacts, SeqMonotonic
<1>3. PICK A, B : A = Seq(Pieces) /\ B = Seq(Spoken(W))
    OBVIOUS
<1>4. A \subseteq B /\ p \in Seq(A)
    BY <1>2, <1>3
<1>5. p \in Seq(B)
    BY ONLY <1>4, SeqMonotonic
<1> QED
    BY ONLY <1>1, <1>3, <1>5

\* A run of calls is printed as the model wrote it.
LEMMA CallsPrinted ==
    ASSUME NEW W, NEW calls \in Seq({"f", "n"}), calls # <<>>,
           Plain(calls), NEW x \in Seq(Messages(W)), ItemsOf(x, calls)
    PROVE  FlattenSeq(Turns(x)) = (EmptyThink \o CallBlocks(calls)) \o <<"end">>
<1>1. PICK T : T = Spoken(W)
    OBVIOUS
<1>2. PICK n \in Nat \ {0} : n = Len(calls)
    BY LenProperties, EmptySeq
<1>3. PICK e \in Seq(T) : e = EmptyThink
    BY <1>1, FrameTexts
<1>4. PICK b \in Seq(T) : b = <<"nl">>
    BY <1>1, FrameTexts
<1>5. PICK z \in Seq(T) : z = <<"end">>
    BY <1>1, FrameTexts
<1>6. PICK l \in Seq(Seq(T)) : /\ l = BlockLayers(calls) /\ Len(l) = n
                               /\ CallBlocks(calls) = FlattenSeq(l)
    BY <1>1, <1>2, SpokenLayers, LayersFacts
<1>7. \A k \in 1 .. n : l[k] = IF k = 1 THEN CallBlock(calls[k]) ELSE b \o CallBlock(calls[k])
    BY ONLY <1>2, <1>4, <1>6 DEF BlockLayers
<1>8. \A k \in 1 .. n : CallBlock(calls[k]) \in Seq(T)
    <2>1. Pieces \subseteq T /\ {"f", "n"} \subseteq T
        BY <1>1, WordFacts DEF Pieces
    <2>2. \A k \in 1 .. n : calls[k] \in T
        BY <1>2, <2>1, ElementOfSeq
    <2> QED
        BY <2>1, <2>2, CallBlockTypes
<1>9. PICK y \in Seq(Seq(T)) : y = Turns(x) /\ Len(y) = n /\ \A k \in 1 .. n : y[k] = Turn(x, k)
    BY <1>1, <1>2, TurnsWords DEF ItemsOf
<1>10. \A k \in 1 .. n :
          y[k] = ((IF k = 1 THEN e ELSE b) \o CallBlock(calls[k])) \o Only(k = n, z)
    <2> SUFFICES ASSUME NEW k \in 1 .. n
                 PROVE  y[k] = ((IF k = 1 THEN e ELSE b) \o CallBlock(calls[k])) \o Only(k = n, z)
        OBVIOUS
    <2>1. k \in 1 .. Len(calls)
        BY ONLY <1>2, k \in 1 .. n
    <2>2. RunTurn(x, calls, k)
        BY <2>1, CallTurns
    <2>3. y[k] = Turn(x, k)
        BY ONLY <1>9, k \in 1 .. n
    <2> QED
        BY ONLY <1>2, <1>3, <1>4, <1>5, <2>2, <2>3 DEF RunTurn
<1>11. PICK g : IsSums(l, g, T) /\ FlattenSeq(l) = g[Len(l)]
    BY FlatSums
<1>12. PICK f : IsSums(y, f, T) /\ FlattenSeq(y) = f[Len(y)]
    BY FlatSums
<1>13. /\ g[0] = <<>> /\ \A k \in 0 .. n : g[k] \in Seq(T)
       /\ \A k \in 1 .. n : g[k] = g[k - 1] \o l[k]
    BY ONLY <1>6, <1>11 DEF IsSums
<1>14. f[0] = <<>> /\ \A k \in 1 .. n : f[k] = f[k - 1] \o y[k]
    BY ONLY <1>9, <1>12 DEF IsSums
<1> DEFINE Good(k) == f[k] = (e \o g[k]) \o Only(k = n, z)
           Bad     == {k \in 1 .. n : ~Good(k)}
<1>o. \A k \in 1 .. n : Only(k = n, z) \in Seq(T)
    BY OnlyTypes
<1>15. ASSUME NEW k \in 1 .. n, k = 1
       PROVE  Good(k)
    <2>1. PICK c \in Seq(T) : c = CallBlock(calls[k])
        BY <1>8
    <2>2. PICK o \in Seq(T) : o = Only(k = n, z)
        BY <1>o
    <2>3. f[k] = f[k - 1] \o y[k] /\ g[k] = g[k - 1] \o l[k]
        BY ONLY <1>13, <1>14, k \in 1 .. n
    <2>4. k - 1 = 0
        BY ONLY <1>15
    <2>5. y[k] = (e \o c) \o o
        BY ONLY <1>10, <1>15, <2>1, <2>2, k \in 1 .. n
    <2>6. l[k] = c
        BY ONLY <1>7, <1>15, <2>1, k \in 1 .. n
    <2>7. PICK v \in Seq(T) : v = (e \o c) \o o
        <3>1. PICK u \in Seq(T) : u = e \o c
            BY ConcatProperties
        <3>2. u \o o \in Seq(T)
            BY ConcatProperties
        <3> QED
            BY ONLY <3>1, <3>2
    <2>8. <<>> \o v = v /\ <<>> \o c = c
        BY ConcatEmptySeq
    <2>9. g[k] = c /\ f[k] = v
        BY ONLY <1>13, <1>14, <2>3, <2>4, <2>5, <2>6, <2>7, <2>8
    <2> QED
        BY ONLY <2>2, <2>7, <2>9
<1>16. ASSUME NEW k \in 1 .. n, k # 1, Good(k - 1)
       PROVE  Good(k)
    <2>1. PICK c \in Seq(T) : c = CallBlock(calls[k])
        BY <1>8
    <2>2. PICK o \in Seq(T) : o = Only(k = n, z)
        BY <1>o
    <2>3. f[k] = f[k - 1] \o y[k] /\ g[k] = g[k - 1] \o l[k]
        BY ONLY <1>13, <1>14, k \in 1 .. n
    <2>4. k - 1 \in 0 .. n /\ k - 1 # n
        BY ONLY <1>16, k \in 1 .. n, n \in Nat
    <2>5. PICK m \in Seq(T) : m = g[k - 1]
        BY ONLY <1>13, <2>4
    <2>6. PICK u \in Seq(T) : u = e \o m
        BY ConcatProperties
    <2>7. u \o <<>> = u
        BY ConcatEmptySeq
    <2>8. f[k - 1] = u
        <3>1. Only(k - 1 = n, z) = <<>>
            BY ONLY <2>4 DEF Only
        <3>2. f[k - 1] = (e \o g[k - 1]) \o Only(k - 1 = n, z)
            BY <1>16
        <3> QED
            BY ONLY <2>5, <2>6, <2>7, <3>1, <3>2
    <2>9. y[k] = (b \o c) \o o
        BY ONLY <1>10, <1>16, <2>1, <2>2, k \in 1 .. n
    <2>10. PICK r \in Seq(T) : r = b \o c
        BY ConcatProperties
    <2>11. l[k] = r
        BY ONLY <1>7, <1>16, <2>1, <2>10, k \in 1 .. n
    <2>12. Associates(u, r, o) /\ Associates(e, m, r)
        BY ONLY u \in Seq(T), r \in Seq(T), o \in Seq(T), e \in Seq(T), m \in Seq(T), Grouped
    <2>13. f[k] = (u \o r) \o o
        BY ONLY <2>3, <2>8, <2>9, <2>10, <2>12 DEF Associates
    <2>14. u \o r = e \o g[k]
        BY ONLY <2>3, <2>5, <2>6, <2>11, <2>12 DEF Associates
    <2> QED
        BY ONLY <2>2, <2>13, <2>14
<1>17. Bad = {}
    <2> SUFFICES ASSUME Bad # {}
                 PROVE  FALSE
        OBVIOUS
    <2>1. PICK k \in Bad : \A j \in Bad : k <= j
        <3>a. Bad \subseteq 1 .. n
            OBVIOUS
        <3> HIDE DEF Bad
        <3>1. Bad \subseteq Nat
            BY ONLY <3>a, n \in Nat
        <3> QED
            BY <3>1, Least
    <2>2. k \in 1 .. n /\ ~Good(k)
        BY DEF Bad
    <2>3. k # 1
        BY <1>15, <2>2
    <2>4. k - 1 \in 1 .. n /\ ~(k <= k - 1)
        BY ONLY <2>2, <2>3, n \in Nat
    <2>5. Good(k - 1)
        <3>1. k - 1 \notin Bad
            BY ONLY <2>1, <2>4
        <3> QED
            BY ONLY <2>4, <3>1 DEF Bad
    <2> QED
        BY <1>16, <2>2, <2>3, <2>5
<1>18. Good(n)
    <2>1. n \in 1 .. n
        OBVIOUS
    <2> QED
        BY ONLY <1>17, <2>1 DEF Bad
<1>19. f[n] = (e \o g[n]) \o z
    BY ONLY <1>18 DEF Good, Only
<1> QED
    BY ONLY <1>3, <1>5, <1>6, <1>9, <1>11, <1>12, <1>19

-----------------------------------------------------------------------------
(* A reply in the template's format, from the engine to the next request.  *)

\* The replies PlainTurnsExtend speaks of.
Regular ==
    /\ ~mode.thinking /\ text \in WellFormed[FALSE]
    /\ CallAt > 0 => mode.tools /\ ToSet(text) \cap {"f", "n"} \subseteq Table \ {"n"}
    /\ CallAt > 1 => Chat /\ ~mode.stream

\* Without reasoning the answer is what was delivered of the reply.
Straight == Streaming /\ ~mode.thinking =>
                think.done /\ got.reason = <<>> /\ answer = Upto(text, sent + 1)

LastAsks == history # <<>> /\ history[Len(history)].role \in {"user", "tool"}
Asked(W) == phase # "client" =>
                \A h \in Seq(Messages(W)) : h = history => prompt = Render(h).prompt

\* What an answered client holds of such a reply.
AsWritten == /\ answer = text /\ got.reason = <<>>
             /\ got.calls = ParseCalls(text, Table).calls
             /\ Chat => got.content = ParseCalls(text, Table).leading
Received  == phase = "answered" => resident = prompt \o text /\ (Regular => AsWritten)

\* Its next request is what is resident, and more.
Returned(W) == phase = "client" /\ resident # <<>> /\ Regular =>
                   \A h \in Seq(Messages(W)) :
                       h = history => IsPrefix(resident, Render(h).prompt)

ExtendInv(W) == /\ SessionInv(W) /\ OpenedInv /\ Unsplit /\ Straight
                /\ LastAsks /\ Asked(W) /\ Received /\ Returned(W)

\* Such a reply is read as it was written.
LEMMA RegularReads ==
    ASSUME WellFormedTexts, TypeOK, Regular
    PROVE  /\ text # <<>> /\ CallAt \in Nat
           /\ \E c, calls : Reads(text, Table, c, calls)
<1>1. text \in Seq(Pieces) /\ text # <<>> /\ InFormat(text)
    BY TypeFacts DEF WellFormedTexts, Regular
<1>2. CallAt \in Nat
    BY <1>1, FoundOpenCall, LenProperties DEF CallAt
<1>3. Find(text, OpenCall) # 0 => ToSet(text) \cap {"f", "n"} \subseteq Table
    BY <1>2 DEF Regular, CallAt
<1> QED
    BY ONLY <1>1, <1>2, <1>3, TableFacts, FormatRead

\* What a stream of such a reply has shown before its end.
LEMMA ShownWritten ==
    ASSUME WellFormedTexts, TypeOK, CallFlow, Unsplit, Streaming, Regular, answer = text
    PROVE  got.content \o Left = ParseCalls(text, Table).leading
<1>1. PICK c, calls : Reads(text, Table, c, calls)
    BY RegularReads
<1>2. /\ c \in Seq(Pieces) /\ text = Formatted(c, calls)
      /\ ParseCalls(text, Table).leading = c
      /\ calls = <<>> <=> Find(text, OpenCall) = 0
      /\ calls # <<>> => (c = <<>> <=> Find(text, OpenCall) = 1)
    BY ONLY <1>1 DEF Reads
<1>3. /\ got.content \in Seq(Pieces) /\ text \in Seq(Pieces) /\ splitter \in CallStates
      /\ splitter.stopped => splitter.buffer = <<>>
      /\ CallAt \in Nat
    BY RegularReads, TypeFacts
<1>4. Left = IF Splitting THEN (IF splitter.stopped THEN <<>> ELSE splitter.buffer) ELSE <<>>
    BY DEF Left, CallFlush
<1>5. CASE Find(text, OpenCall) = 0
    <2>1. c = text
        <3>1. c \o <<>> = c
            BY <1>2, ConcatEmptySeq
        <3> QED
            BY ONLY <1>2, <1>5, <3>1 DEF Formatted, Only
    <2>2. CASE Splitting
        <3>1. CallFlowOf(got.content, splitter, text)
            BY <2>2 DEF CallFlow
        <3>2. ~splitter.stopped /\ got.content \o splitter.buffer = text
            BY ONLY <1>5, <3>1 DEF CallFlowOf
        <3> QED
            BY ONLY <1>2, <1>4, <2>1, <2>2, <3>2
    <2>3. CASE ~Splitting
        <3>1. got.content = text /\ Left = <<>>
            BY <1>4, <2>3 DEF Unsplit
        <3>2. text \o <<>> = text
            BY <1>3, ConcatEmptySeq
        <3> QED
            BY ONLY <1>2, <2>1, <3>1, <3>2
    <2> QED
        BY <2>2, <2>3
<1>6. CASE Find(text, OpenCall) # 0
    <2>1. mode.stream
        BY DEF Streaming
    <2>2. CallAt = 1 /\ mode.tools
        <3>1. CallAt # 0
            BY <1>6 DEF CallAt
        <3> QED
            BY <1>3, <2>1, <3>1 DEF Regular
    <2>3. c = <<>>
        BY <1>2, <1>6, <2>2 DEF CallAt
    <2>4. Splitting
        BY <2>2 DEF Splitting
    <2>5. CallFlowOf(got.content, splitter, text)
        BY <2>4 DEF CallFlow
    <2>6. splitter.stopped
        BY ONLY <1>6, <2>5 DEF CallFlowOf
    <2>7. PICK a \in Seq(Pieces), b \in Seq(Pieces) :
              a \o b = Upto(text, Find(text, OpenCall)) /\ got.content = a \o StripNoise(b)
        BY ONLY <2>5, <2>6 DEF CallFlowOf
    <2>8. Upto(text, Find(text, OpenCall)) = <<>>
        <3>1. SubSeq(text, 1, 0) = <<>>
            BY <1>3, SubSeqEmpty
        <3> QED
            BY ONLY <2>2, <3>1 DEF Upto, CallAt
    <2>9. a = <<>> /\ b = <<>>
        <3>1. Len(a \o b) = Len(a) + Len(b) /\ Len(a) \in Nat /\ Len(b) \in Nat
            BY ONLY a \in Seq(Pieces), b \in Seq(Pieces), ConcatProperties, LenProperties
        <3>2. Len(a) = 0 /\ Len(b) = 0
            <4>1. Len(a \o b) = 0
                BY ONLY <2>7, <2>8
            <4> QED
                BY ONLY <3>1, <4>1
        <3> QED
            BY ONLY <3>2, a \in Seq(Pieces), b \in Seq(Pieces), EmptySeq
    <2>10. StripNoise(<<>>) = <<>>
        <3>1. <<>> \in Seq(Pieces)
            OBVIOUS
        <3> QED
            BY <3>1, StripNoiseTypes
    <2>11. got.content = <<>> /\ Left = <<>>
        <3>1. <<>> \o <<>> = <<>>
            OBVIOUS
        <3> QED
            BY ONLY <1>4, <2>4, <2>6, <2>7, <2>9, <2>10, <3>1
    <2> QED
        BY ONLY <1>2, <2>3, <2>11
<1> QED
    BY <1>5, <1>6

\* The items of the reply, and how the template prints them.
ComesBack(W) ==
    /\ Items \in Seq(Messages(W)) /\ Items # <<>>
    /\ \A i \in 1 .. Len(Items) : Items[i].role \in {"assistant", "call"}
    /\ FlattenSeq(Turns(Items)) = (EmptyThink \o text) \o <<"end">>

\* A chat client holds one item of it, with the text and the calls.
LEMMA ChatComesBack ==
    ASSUME NEW W, WellFormedTexts, TypeOK, Regular, AsWritten, Chat
    PROVE  ComesBack(W)
<1>1. PICK c, calls : Reads(text, Table, c, calls)
    BY RegularReads
<1>2. /\ c \in Seq(Pieces) /\ Strip(c) = c /\ text = Formatted(c, calls)
      /\ ParseCalls(text, Table) = [leading |-> c, calls |-> calls]
    BY ONLY <1>1 DEF Reads
<1>3. got.content = c /\ got.reason = <<>> /\ got.calls = calls
    BY ONLY <1>2, Chat, AsWritten DEF AsWritten
<1>4. PICK m : m = [Item("assistant", got.content) EXCEPT !.reason = got.reason,
                                                          !.calls = got.calls]
    OBVIOUS
<1>5. m.role = "assistant" /\ m.text = c /\ m.reason = <<>> /\ m.calls = calls
    BY ONLY <1>3, <1>4 DEF Item
<1>6. PICK x : x = << m >>
    OBVIOUS
<1>7. Items = x
    BY ONLY <1>4, <1>6, Chat DEF Items
<1>8. x \in Seq(Messages(W))
    BY <1>7, AnswerParts DEF Parts
<1>9. Len(x) = 1 /\ \A i \in 1 .. 1 : x[i] = m
    BY ONLY <1>6
<1>10. PICK i \in 1 .. 1 : i \in 1 .. Len(x) /\ x[i] = m
    BY ONLY <1>9
<1>11. m \in Messages(W)
    BY <1>8, <1>10, ElementOfSeq
<1>12. FlattenSeq(Turns(x)) = (EmptyThink \o Formatted(m.text, m.calls)) \o <<"end">>
    BY <1>2, <1>5, <1>6, <1>11, ChatPrinted
<1>13. x # <<>>
    BY ONLY <1>9
<1> QED
    BY ONLY <1>2, <1>5, <1>7, <1>8, <1>9, <1>12, <1>13 DEF ComesBack

\* A Responses client holds one message of a reply without calls,
LEMMA MessageComesBack ==
    ASSUME NEW W, WellFormedTexts, TypeOK, Regular, AsWritten, ~Chat, got.calls = <<>>
    PROVE  ComesBack(W)
<1>1. PICK c, calls : Reads(text, Table, c, calls)
    BY RegularReads
<1>2. /\ c \in Seq(Pieces) /\ text = Formatted(c, calls)
      /\ ParseCalls(text, Table) = [leading |-> c, calls |-> calls]
    BY ONLY <1>1 DEF Reads
<1>3. ParseCalls(answer, Table).leading = c /\ calls = <<>>
    BY ONLY <1>2, AsWritten, got.calls = <<>> DEF AsWritten
<1>4. c = text
    <2>1. c \o <<>> = c
        BY <1>2, ConcatEmptySeq
    <2> QED
        BY ONLY <1>2, <1>3, <2>1 DEF Formatted, Only
<1>5. c # <<>>
    BY <1>4, RegularReads
<1>6. PICK m : m = Item("assistant", c)
    OBVIOUS
<1>7. m.role = "assistant" /\ m.text = text
    BY ONLY <1>4, <1>6 DEF Item
<1>8. PICK x : x = << m >>
    OBVIOUS
<1>9. Items = x
    <2>1. [i \in DOMAIN got.calls |-> Item("call", << got.calls[i] >>)] = <<>>
        BY ONLY got.calls = <<>>
    <2>2. << m >> \o <<>> = << m >>
        OBVIOUS
    <2> QED
        BY ONLY <1>3, <1>5, <1>6, <1>8, <2>1, <2>2, ~Chat DEF Items, Only
<1>10. x \in Seq(Messages(W))
    BY <1>9, AnswerParts DEF Parts
<1>11. Len(x) = 1 /\ \A i \in 1 .. 1 : x[i] = m
    BY ONLY <1>8
<1>12. PICK i \in 1 .. 1 : i \in 1 .. Len(x) /\ x[i] = m
    BY ONLY <1>11
<1>13. m \in Messages(W)
    BY <1>10, <1>12, ElementOfSeq
<1>14. FlattenSeq(Turns(x)) = (EmptyThink \o m.text) \o <<"end">>
    BY <1>7, <1>8, <1>13, MessagePrinted
<1>15. x # <<>>
    BY ONLY <1>11
<1> QED
    BY ONLY <1>7, <1>9, <1>10, <1>11, <1>14, <1>15 DEF ComesBack

\* and one item for each call of a reply that begins with them.
LEMMA CallsComeBack ==
    ASSUME NEW W, WellFormedTexts, TypeOK, Regular, AsWritten, ~Chat, got.calls # <<>>
    PROVE  ComesBack(W)
<1>1. PICK c, calls : Reads(text, Table, c, calls)
    BY RegularReads
<1>2. /\ c \in Seq(Pieces) /\ calls \in Seq({"f", "n"}) /\ text = Formatted(c, calls)
      /\ ParseCalls(text, Table) = [leading |-> c, calls |-> calls]
      /\ \A k \in 1 .. Len(calls) : calls[k] \in ToSet(text)
      /\ calls = <<>> <=> Find(text, OpenCall) = 0
      /\ calls # <<>> => (c = <<>> <=> Find(text, OpenCall) = 1)
    BY ONLY <1>1 DEF Reads
<1>3. ParseCalls(answer, Table).leading = c /\ got.calls = calls /\ calls # <<>>
    BY ONLY <1>2, AsWritten, got.calls # <<>> DEF AsWritten
<1>4. CallAt = 1 /\ ToSet(text) \cap {"f", "n"} \subseteq Table \ {"n"}
    <2>1. CallAt # 0 /\ CallAt \in Nat
        BY <1>2, <1>3, RegularReads DEF CallAt
    <2> QED
        BY <2>1 DEF Regular
<1>5. c = <<>>
    BY ONLY <1>2, <1>3, <1>4 DEF CallAt
<1>6. Plain(calls)
    <2> SUFFICES ASSUME NEW k \in 1 .. Len(calls)
                 PROVE  calls[k] = "f"
        BY DEF Plain
    <2>1. calls[k] \in {"f", "n"}
        BY <1>2, ElementOfSeq
    <2> QED
        BY <1>2, <1>4, <2>1
<1>7. PICK n \in Nat \ {0} : n = Len(calls) /\ DOMAIN calls = 1 .. n
    BY <1>2, <1>3, LenProperties, EmptySeq
<1>8. PICK x : x = [i \in 1 .. n |-> Item("call", << calls[i] >>)]
    OBVIOUS
<1>9. Items = x
    <2>1. x \in Seq({Item("call", << calls[i] >>) : i \in 1 .. n})
        BY ONLY <1>8, n \in Nat \ {0}
    <2>2. <<>> \o x = x
        BY ONLY <2>1, ConcatEmptySeq
    <2> QED
        BY ONLY <1>3, <1>5, <1>7, <1>8, <2>2, ~Chat DEF Items, Only
<1>10. x \in Seq(Messages(W))
    BY <1>9, AnswerParts DEF Parts
<1>11. Len(x) = n /\ \A i \in 1 .. n : x[i] = Item("call", << calls[i] >>)
    BY ONLY <1>8, n \in Nat \ {0}
<1>12. ItemsOf(x, calls)
    BY ONLY <1>7, <1>11 DEF ItemsOf
<1>13. FlattenSeq(Turns(x)) = (EmptyThink \o CallBlocks(calls)) \o <<"end">>
    BY <1>2, <1>3, <1>6, <1>10, <1>12, CallsPrinted
<1>14. text = CallBlocks(calls)
    <2>1. CallBlocks(calls) \in Seq(Pieces)
        BY <1>2, CallBlocksTypes
    <2>2. <<>> \o CallBlocks(calls) = CallBlocks(calls)
        BY ONLY <2>1, ConcatEmptySeq
    <2> QED
        BY ONLY <1>2, <1>3, <1>5, <2>2 DEF Formatted, Only
<1>15. x # <<>>
    BY ONLY <1>11, n \in Nat \ {0}
<1>16. \A i \in 1 .. n : x[i].role = "call"
    BY ONLY <1>11 DEF Item
<1> QED
    BY ONLY <1>9, <1>10, <1>11, <1>13, <1>14, <1>15, <1>16 DEF ComesBack

\* What the client appends to a reply in the template's format makes its next
\* request the resident conversation, and more.
LEMMA AppendedExtends ==
    ASSUME NEW W, OpeningShape(W), mode \in Modes, ~mode.thinking, text \in Seq(Pieces),
           NEW h \in Seq(Messages(W)), Extends(h), h # <<>>, h[Len(h)].role \in {"user", "tool"},
           NEW a \in Seq(Messages(W)), a # <<>>,
           \A i \in 1 .. Len(a) : a[i].role \in {"assistant", "call"},
           FlattenSeq(Turns(a)) = (EmptyThink \o text) \o <<"end">>,
           NEW b \in Seq(Messages(W)), Len(b) > 0,
           \A i \in 1 .. Len(b) : b[i].role \in {"user", "tool"},
           NEW g, g = (h \o a) \o b
    PROVE  IsPrefix(Render(h).prompt \o text, Render(g).prompt)
<1>s. PICK T : T = Spoken(W)
    OBVIOUS
<1>1. PICK n \in Nat \ {0} : n = Len(a)
    BY LenProperties, EmptySeq
<1>2. PICK m \in Nat \ {0} : m = Len(b)
    BY LenProperties
<1>3. PICK i \in 1 .. n : i = 1
    OBVIOUS
<1>4. PICK k \in 1 .. n : k = n
    OBVIOUS
<1>5. PICK j \in 1 .. m : j = 1
    OBVIOUS
<1>6. a[Len(a)].role # b[1].role
    BY <1>1, <1>2, <1>4, <1>5
<1>7. Turns(a \o b) = Turns(a) \o Turns(b)
    BY <1>2, <1>6, TurnsConcat
<1>8. PICK x \in Seq(Messages(W)) : x = a \o b
    BY JoinFacts
<1>9. x # <<>> /\ x[1] = a[1]
    <2>1. /\ Len(a \o b) = Len(a) + Len(b)
          /\ \A l \in 1 .. Len(a) : (a \o b)[l] = a[l]
        BY JoinFacts
    <2>2. Len(x) = n + m /\ x[i] = a[i]
        BY ONLY <1>1, <1>2, <1>8, <2>1, i \in 1 .. n
    <2>3. Len(x) # 0
        BY ONLY <2>2, n \in Nat \ {0}, m \in Nat \ {0}
    <2> QED
        BY ONLY <1>3, <2>2, <2>3, EmptySeq
<1>10. h[Len(h)].role # x[1].role
    BY <1>1, <1>3, <1>9
<1>11. g = h \o x
    <2>1. Associates(h, a, b)
        BY Grouped
    <2> QED
        BY ONLY <1>8, <2>1, g = (h \o a) \o b DEF Associates
<1>12. PICK p \in Seq(T) :
           /\ Render(h).prompt = p \o Generation
           /\ Render(g).prompt = (p \o FlattenSeq(Turns(x))) \o Generation
    <2>1. x # <<>>
        BY <1>9
    <2>2. \E p \in Seq(Spoken(W)) :
              /\ Render(h).prompt = p \o Generation
              /\ Render(h \o x).prompt = (p \o FlattenSeq(Turns(x))) \o Generation
        BY ONLY OpeningShape(W), mode \in Modes, h \in Seq(Messages(W)), Extends(h),
                x \in Seq(Messages(W)), <1>10, <2>1, PromptGrows
    <2> QED
        BY ONLY <1>s, <1>11, <2>2
<1>13. PICK e \in Seq(T) : e = EmptyThink /\ e = Generation
    BY <1>s, FrameTexts DEF Generation
<1>14. PICK t \in Seq(T) : t = text
    <2>1. Pieces \subseteq T
        BY <1>s, WordFacts
    <2> QED
        BY <2>1, SeqMonotonic
<1>15. PICK z \in Seq(T) : z = <<"end">>
    BY <1>s, FrameTexts
<1>16. PICK y \in Seq(T) : y = FlattenSeq(Turns(b))
    <2>1. PICK u \in Seq(Seq(T)) : u = Turns(b)
        BY <1>s, TurnsWords
    <2> QED
        BY ONLY <2>1, u \in Seq(Seq(T)), FlatTypes
<1>17. FlattenSeq(Turns(x)) = ((e \o t) \o z) \o y
    <2>1. PICK u \in Seq(Seq(T)) : u = Turns(a)
        BY <1>s, TurnsWords
    <2>2. PICK v \in Seq(Seq(T)) : v = Turns(b)
        BY <1>s, TurnsWords
    <2>3. FlattenSeq(u \o v) = FlattenSeq(u) \o FlattenSeq(v)
        BY ONLY u \in Seq(Seq(T)), v \in Seq(Seq(T)), FlatConcat
    <2>4. FlattenSeq(u) = (e \o t) \o z
        BY ONLY <1>13, <1>14, <1>15, <2>1,
                FlattenSeq(Turns(a)) = (EmptyThink \o text) \o <<"end">>
    <2> QED
        BY ONLY <1>7, <1>8, <1>16, <2>1, <2>2, <2>3, <2>4
<1>18. PICK et \in Seq(T) : et = e \o t
    BY ONLY e \in Seq(T), t \in Seq(T), ConcatProperties
<1>19. PICK zy \in Seq(T) : zy = z \o y
    BY ONLY z \in Seq(T), y \in Seq(T), ConcatProperties
<1>20. PICK r \in Seq(T) : r = p \o et
    BY ONLY p \in Seq(T), et \in Seq(T), ConcatProperties
<1>21. PICK q \in Seq(T) : q = zy \o e
    BY ONLY zy \in Seq(T), e \in Seq(T), ConcatProperties
<1>22. Render(h).prompt \o text = r
    <2>1. Associates(p, e, t)
        BY ONLY p \in Seq(T), e \in Seq(T), t \in Seq(T), Grouped
    <2> QED
        BY ONLY <1>12, <1>13, <1>14, <1>18, <1>20, <2>1 DEF Associates
<1>23. Render(g).prompt = r \o q
    <2>1. FlattenSeq(Turns(x)) = et \o zy
        <3>1. Associates(et, z, y)
            BY ONLY et \in Seq(T), z \in Seq(T), y \in Seq(T), Grouped
        <3> QED
            BY ONLY <1>17, <1>18, <1>19, <3>1 DEF Associates
    <2>2. p \o (et \o zy) = r \o zy
        <3>1. Associates(p, et, zy)
            BY ONLY p \in Seq(T), et \in Seq(T), zy \in Seq(T), Grouped
        <3> QED
            BY ONLY <1>20, <3>1 DEF Associates
    <2>3. Associates(r, zy, e)
        BY ONLY r \in Seq(T), zy \in Seq(T), e \in Seq(T), Grouped
    <2> QED
        BY ONLY <1>12, <1>13, <1>21, <2>1, <2>2, <2>3 DEF Associates
<1>24. IsPrefix(r, r \o q)
    BY ONLY r \in Seq(T), q \in Seq(T), LeadsConcat
<1> QED
    BY ONLY <1>22, <1>23, <1>24

\* Either way the items are printed as the model wrote them.
LEMMA ComingBack ==
    ASSUME NEW W, WellFormedTexts, TypeOK, Regular, AsWritten
    PROVE  ComesBack(W)
BY ChatComesBack, MessageComesBack, CallsComeBack

\* So when the client has appended them, its next request extends what is
\* resident.
LEMMA ContinuedExtends ==
    ASSUME NEW W, OpeningShape(W), WellFormedTexts, ExtendInv(W), Continue
    PROVE  Returned(W)'
<1>1. /\ TypeOK /\ mode \in Modes /\ history \in Seq(Messages(W)) /\ Extends(history)
      /\ LastAsks /\ Received /\ Asked(W)
    BY DEF ExtendInv, SessionInv, TypeOK
<1>2. /\ phase = "answered" /\ mode' = mode /\ text' = text /\ resident' = resident
      /\ history' = (history \o Items) \o FollowUp
    BY DEF Continue, FollowUp
<1>3. Regular' = Regular
    BY <1>2 DEF Regular, CallAt, Table, Chat
<1> SUFFICES ASSUME Regular, NEW g \in Seq(Messages(W)), g = history'
             PROVE  IsPrefix(resident, Render(g).prompt)
    <2>1. \A g \in Seq(Messages(W)) : Render(g)' = Render(g)
        BY <1>2, RenderKept
    <2> QED
        BY <1>2, <1>3, <2>1 DEF Returned
<1>4. PICK h \in Seq(Messages(W)) : h = history
    BY <1>1
<1>5. /\ h # <<>> /\ h[Len(h)].role \in {"user", "tool"} /\ Extends(h)
      /\ resident = Render(h).prompt \o text
    BY <1>1, <1>2, <1>4 DEF LastAsks, Received, Asked
<1>6. ComesBack(W)
    BY <1>1, <1>2, ComingBack DEF Received
<1>7. PICK a \in Seq(Messages(W)) : a = Items
    BY <1>6 DEF ComesBack
<1>8. /\ a # <<>> /\ \A i \in 1 .. Len(a) : a[i].role \in {"assistant", "call"}
      /\ FlattenSeq(Turns(a)) = (EmptyThink \o text) \o <<"end">>
    BY ONLY <1>6, <1>7 DEF ComesBack
<1>9. Parts(W)
    BY <1>1, AnswerParts
<1>10. PICK b \in Seq(Messages(W)) : b = FollowUp
    BY ONLY <1>9 DEF Parts
<1>11. Len(b) > 0 /\ \A i \in 1 .. Len(b) : b[i].role \in {"user", "tool"}
    BY ONLY <1>9, <1>10 DEF Parts
<1>12. g = (h \o a) \o b
    BY ONLY <1>2, <1>4, <1>7, <1>10, g = history'
<1>13. ~mode.thinking /\ text \in Seq(Pieces)
    BY <1>1, TypeFacts DEF Regular
<1> QED
    BY <1>1, <1>5, <1>8, <1>11, <1>12, <1>13, AppendedExtends

\* Without thinking the splitter of a new request is done at once,
LEMMA StraightAsked ==
    ASSUME TypeOK, TypeOK', Ask
    PROVE  Straight'
<1>1. /\ mode' = mode /\ sent' = 0 /\ answer' = <<>> /\ got' = Nothing
      /\ think' = [buffer |-> <<>>, done |-> ~mode.thinking]
    BY DEF Ask, NewThink
<1>2. got'.reason = <<>> /\ think'.done = ~mode.thinking
    BY <1>1 DEF Nothing
<1>3. Upto(text', 1) = <<>>
    <2>1. SubSeq(text', 1, 0) = <<>>
        BY SubSeqEmpty
    <2> QED
        BY ONLY <2>1 DEF Upto
<1>4. Upto(text', sent' + 1) = <<>>
    BY <1>1, <1>3
<1> QED
    BY <1>1, <1>2, <1>4 DEF Straight, Streaming

\* and hands every chunk on.
LEMMA StraightDelivered ==
    ASSUME TypeOK, Straight, NEW n \in 1 .. Len(text), Deliver(n)
    PROVE  Straight'
<1>1. /\ phase = "engine" /\ mode.stream /\ sent + n <= Len(text) /\ sent' = sent + n
      /\ think' = Fed(n).next /\ answer' = answer \o Fed(n).rest
      /\ got'.reason = got.reason \o Fed(n).reason
      /\ mode' = mode /\ text' = text
    BY DeliverFacts DEF session
<1> SUFFICES ASSUME ~mode.thinking
             PROVE  think'.done /\ got'.reason = <<>> /\ answer' = Upto(text, sent + n + 1)
    BY <1>1 DEF Straight, Streaming
<1>2. think.done /\ got.reason = <<>> /\ answer = Upto(text, sent + 1)
    BY <1>1 DEF Straight, Streaming
<1>3. Fed(n) = [next |-> think, reason |-> <<>>, rest |-> Chunk(n)]
    BY <1>2 DEF Fed, ThinkFeed
<1>4. <<>> \o <<>> = <<>>
    OBVIOUS
<1>5. Upto(text, sent + 1) \o Chunk(n) = Upto(text, sent + n + 1)
    <2>1. text \in Seq(Pieces) /\ Len(text) \in Nat /\ sent \in 0 .. Len(text)
        BY TypeFacts
    <2>2. PICK k \in Nat : k = sent
        BY <2>1
    <2>3. PICK l \in Nat : l = k + n
        OBVIOUS
    <2>4. 1 \in 1 .. Len(text) + 1 /\ k \in 1 - 1 .. Len(text) /\ l \in k .. Len(text)
        BY ONLY <1>1, <2>1, <2>2, <2>3, n \in 1 .. Len(text), l \in Nat, k \in Nat
    <2>5. SubSeq(text, 1, k) \o SubSeq(text, k + 1, l) = SubSeq(text, 1, l)
        BY ONLY <2>1, <2>4, ConcatAdjacentSubSeq
    <2>6. (sent + 1) - 1 = k /\ (sent + n + 1) - 1 = l /\ sent + n = l
        BY ONLY <2>2, <2>3, n \in 1 .. Len(text), <2>1
    <2> QED
        BY ONLY <2>2, <2>5, <2>6 DEF Upto, Chunk
<1> QED
    BY ONLY <1>1, <1>2, <1>3, <1>4, <1>5

\* What a client holds when the reply is complete.
LEMMA StreamReceived ==
    ASSUME WellFormedTexts, TypeOK, CallFlow, Unsplit, Straight, FinishStream
    PROVE  Received'
<1>1. /\ phase = "engine" /\ mode.stream /\ sent = Len(text)
      /\ got'.reason = IF Chat THEN got.reason \o ThinkFlush(think, mode.tools) ELSE got.reason
      /\ got'.content = got.content \o Left
      /\ got'.calls = ParseCalls(answer, Table).calls
      /\ mode' = mode /\ text' = text /\ answer' = answer /\ prompt' = prompt
    BY FinishFacts
<1>2. resident' = prompt \o text
    BY DEF FinishStream
<1>3. Regular' = Regular /\ Table' = Table /\ Chat' = Chat
    BY <1>1 DEF Regular, CallAt, Table, Chat
<1>4. ASSUME Regular
      PROVE  AsWritten'
    <2>1. ~mode.thinking /\ Streaming
        BY <1>1, <1>4 DEF Regular, Streaming
    <2>2. think.done /\ got.reason = <<>> /\ answer = Upto(text, Len(text) + 1)
        BY <1>1, <2>1 DEF Straight
    <2>3. answer = text
        <3>1. text \in Seq(Pieces) /\ Len(text) \in Nat
            BY TypeFacts
        <3>2. (Len(text) + 1) - 1 = Len(text)
            BY ONLY <3>1
        <3>3. SubSeq(text, 1, Len(text)) = text
            BY ONLY <3>1, SubSeqFull
        <3> QED
            BY ONLY <2>2, <3>2, <3>3 DEF Upto
    <2>4. got'.reason = <<>>
        <3>1. ThinkFlush(think, mode.tools) = <<>>
            BY <2>2, FlushDone
        <3>2. <<>> \o <<>> = <<>>
            OBVIOUS
        <3> QED
            BY ONLY <1>1, <2>2, <3>1, <3>2
    <2>5. got.content \o Left = ParseCalls(text, Table).leading
        BY <1>4, <2>1, <2>3, ShownWritten
    <2> QED
        BY ONLY <1>1, <1>3, <2>3, <2>4, <2>5 DEF AsWritten
<1> QED
    BY ONLY <1>1, <1>2, <1>3, <1>4 DEF Received

LEMMA PlainReceived ==
    ASSUME WellFormedTexts, TypeOK, AnswerPlain
    PROVE  Received'
<1>1. /\ mode' = mode /\ text' = text /\ prompt' = prompt /\ resident' = prompt \o text
      /\ got' = PlainReply
      /\ answer' = SplitFinished(text, mode.thinking, mode.tools).rest
    BY DEF AnswerPlain
<1>2. Regular' = Regular /\ Table' = Table /\ Chat' = Chat
    BY <1>1 DEF Regular, CallAt, Table, Chat
<1>3. ASSUME Regular
      PROVE  AsWritten'
    <2>1. SplitFinished(text, mode.thinking, mode.tools) = [reason |-> <<>>, rest |-> text]
        BY <1>3 DEF Regular, SplitFinished
    <2>2. PlainReply = [content |-> IF Chat /\ ParseCalls(text, Table).calls = <<>> THEN text
                                    ELSE ParseCalls(text, Table).leading,
                        reason |-> <<>>, calls |-> ParseCalls(text, Table).calls,
                        opened |-> FALSE]
        BY ONLY <2>1 DEF PlainReply
    <2>3. PICK c, calls : Reads(text, Table, c, calls)
        BY <1>3, RegularReads
    <2>4. /\ c \in Seq(Pieces) /\ text = Formatted(c, calls)
          /\ ParseCalls(text, Table) = [leading |-> c, calls |-> calls]
        BY ONLY <2>3 DEF Reads
    <2>5. calls = <<>> => text = c
        <3>1. c \o <<>> = c
            BY <2>4, ConcatEmptySeq
        <3> QED
            BY ONLY <2>4, <3>1 DEF Formatted, Only
    <2>6. Chat => PlainReply.content = ParseCalls(text, Table).leading
        BY ONLY <2>2, <2>4, <2>5
    <2>7. PlainReply.reason = <<>> /\ PlainReply.calls = ParseCalls(text, Table).calls
        BY ONLY <2>2
    <2>8. answer' = text
        BY ONLY <1>1, <2>1
    <2> QED
        BY ONLY <1>1, <1>2, <2>6, <2>7, <2>8 DEF AsWritten
<1> QED
    BY ONLY <1>1, <1>2, <1>3 DEF Received

\* What the client appends ends with a question or a result.
LEMMA LastAsksContinued ==
    ASSUME NEW W, TypeOK, history \in Seq(Messages(W)), Continue
    PROVE  LastAsks'
<1>1. history' = (history \o Items) \o FollowUp
    BY DEF Continue, FollowUp
<1>2. Parts(W)
    BY AnswerParts
<1>3. PICK M : M = Messages(W)
    OBVIOUS
<1>4. PICK b \in Seq(M) : b = FollowUp
    BY ONLY <1>2, <1>3 DEF Parts
<1>5. PICK m \in Nat \ {0} : m = Len(b) /\ \A i \in 1 .. m : b[i].role \in {"user", "tool"}
    <2>1. Len(b) > 0 /\ \A i \in 1 .. Len(b) : b[i].role \in {"user", "tool"}
        BY ONLY <1>2, <1>4 DEF Parts
    <2>2. Len(b) \in Nat
        BY ONLY b \in Seq(M), LenProperties
    <2> QED
        BY ONLY <2>1, <2>2
<1>6. PICK a \in Seq(M) : a = history \o Items
    <2>1. history \in Seq(M) /\ Items \in Seq(M)
        BY ONLY <1>2, <1>3, history \in Seq(Messages(W)) DEF Parts
    <2> QED
        BY ONLY <2>1, ConcatProperties
<1>7. PICK g \in Seq(M) : /\ g = a \o b /\ Len(g) = Len(a) + m
                          /\ \A i \in 1 .. m : g[Len(a) + i] = b[i]
    <2>1. /\ a \o b \in Seq(M) /\ Len(a \o b) = Len(a) + Len(b)
          /\ \A i \in 1 .. Len(b) : (a \o b)[Len(a) + i] = b[i]
        BY ONLY a \in Seq(M), b \in Seq(M), JoinFacts
    <2> QED
        BY ONLY <1>5, <2>1
<1>8. history' = g
    BY ONLY <1>1, <1>4, <1>6, <1>7
<1>9. g[Len(g)].role \in {"user", "tool"} /\ Len(g) # 0
    <2>1. PICK i \in 1 .. m : i = m
        BY ONLY m \in Nat \ {0}
    <2>2. g[Len(g)] = b[i]
        BY ONLY <1>7, <2>1
    <2>3. Len(a) \in Nat
        BY ONLY a \in Seq(M), LenProperties
    <2> QED
        BY ONLY <1>5, <1>7, <2>2, <2>3
<1>10. g # <<>>
    BY ONLY <1>9, g \in Seq(M), EmptySeq
<1> QED
    BY ONLY <1>8, <1>9, <1>10 DEF LastAsks

\* A step that leaves the request and the conversation alone.
LEMMA AskedKept ==
    ASSUME NEW W, Asked(W), mode' = mode, history' = history, prompt' = prompt,
           phase' # "client" => phase # "client"
    PROVE  Asked(W)'
<1>1. \A h \in Seq(Messages(W)) : Render(h)' = Render(h)
    BY RenderKept
<1> QED
    BY <1>1 DEF Asked

\* The opening is the client's own question, and nothing is resident.
LEMMA ExtendInit ==
    ASSUME NEW W, OpeningShape(W)
    PROVE  Init => ExtendInv(W)
<1> SUFFICES ASSUME Init
             PROVE  ExtendInv(W)
    OBVIOUS
<1>1. SessionInv(W) /\ OpenedInv
    BY SessionInit, OpenedInit
<1>2. history = Begin /\ phase = "client" /\ resident = <<>> /\ mode \in Modes
    BY DEF Init, Begin
<1>3. Begin # <<>> /\ Begin[Len(Begin)] = Item("user", <<"ask">>)
    BY <1>2, BeginFacts
<1>4. LastAsks
    BY ONLY <1>2, <1>3 DEF LastAsks, Item
<1>5. Unsplit /\ Straight /\ Asked(W) /\ Received /\ Returned(W)
    BY <1>2 DEF Unsplit, Straight, Asked, Received, Returned, Streaming
<1> QED
    BY <1>1, <1>4, <1>5 DEF ExtendInv

\* Each step of a session keeps the invariant.
LEMMA ExtendStep ==
    ASSUME NEW W, OpeningShape(W), WellFormedTexts, ExtendInv(W), [Next]_vars
    PROVE  ExtendInv(W)'
<1>1. /\ SessionInv(W) /\ OpenedInv /\ Unsplit /\ Straight
      /\ LastAsks /\ Asked(W) /\ Received /\ Returned(W)
    BY DEF ExtendInv
<1>2. TypeOK /\ CallFlow /\ history \in Seq(Messages(W)) /\ mode \in Modes
    BY <1>1 DEF SessionInv, OpenedInv, TypeOK
<1>3. SessionInv(W)' /\ OpenedInv' /\ TypeOK'
    BY <1>1, <1>2, SessionStep, OpenedStep, TypeStep
<1>4. CASE Ask
    <2>1. /\ phase' = "engine" /\ mode' = mode /\ history' = history /\ answer' = <<>>
          /\ got'.content = <<>> /\ prompt' = Render(history).prompt
        BY <1>4 DEF Ask, Nothing
    <2>2. Straight'
        BY <1>2, <1>3, <1>4, StraightAsked
    <2>3. Unsplit' /\ Received' /\ Returned(W)'
        BY <2>1 DEF Unsplit, Received, Returned
    <2>4. Asked(W)'
        <3>1. \A h \in Seq(Messages(W)) : Render(h)' = Render(h)
            BY <2>1, RenderKept
        <3> QED
            BY <2>1, <3>1 DEF Asked
    <2>5. LastAsks'
        BY <1>1, <2>1 DEF LastAsks
    <2> QED
        BY <1>3, <2>2, <2>3, <2>4, <2>5 DEF ExtendInv
<1>5. ASSUME NEW n \in 1 .. Len(text), Deliver(n)
      PROVE  ExtendInv(W)'
    <2>1. /\ phase = "engine" /\ phase' = "engine" /\ mode' = mode /\ history' = history
          /\ prompt' = prompt
        BY <1>2, <1>5, DeliverFacts DEF session
    <2>2. Straight' /\ Unsplit'
        BY <1>1, <1>2, <1>5, StraightDelivered, UnsplitDelivered
    <2>3. Received' /\ Returned(W)'
        BY <2>1 DEF Received, Returned
    <2>4. Asked(W)'
        BY <1>1, <2>1, AskedKept
    <2>5. LastAsks'
        BY <1>1, <2>1 DEF LastAsks
    <2> QED
        BY <1>3, <2>2, <2>3, <2>4, <2>5 DEF ExtendInv
<1>6. ASSUME FinishStream \/ AnswerPlain
      PROVE  ExtendInv(W)'
    <2>1. /\ phase = "engine" /\ phase' = "answered" /\ mode' = mode /\ history' = history
          /\ prompt' = prompt
        BY <1>6 DEF FinishStream, AnswerPlain
    <2>2. Received'
        BY <1>1, <1>2, <1>6, StreamReceived, PlainReceived
    <2>3. Straight' /\ Unsplit' /\ Returned(W)'
        BY <2>1 DEF Straight, Unsplit, Returned, Streaming
    <2>4. Asked(W)'
        BY <1>1, <2>1, AskedKept
    <2>5. LastAsks'
        BY <1>1, <2>1 DEF LastAsks
    <2> QED
        BY <1>3, <2>2, <2>3, <2>4, <2>5 DEF ExtendInv
<1>7. CASE Abort
    <2>1. /\ phase' = "client" /\ resident' = <<>> /\ history' = history
        BY <1>7 DEF Abort
    <2>2. Straight' /\ Unsplit' /\ Received' /\ Returned(W)' /\ Asked(W)'
        BY <2>1 DEF Straight, Unsplit, Received, Returned, Asked, Streaming
    <2>3. LastAsks'
        BY <1>1, <2>1 DEF LastAsks
    <2> QED
        BY <1>3, <2>2, <2>3 DEF ExtendInv
<1>8. CASE Continue
    <2>1. phase' = "client"
        BY <1>8 DEF Continue
    <2>2. Returned(W)'
        BY <1>8, ContinuedExtends
    <2>3. Straight' /\ Unsplit' /\ Received' /\ Asked(W)'
        BY <2>1 DEF Straight, Unsplit, Received, Asked, Streaming
    <2>4. LastAsks'
        BY <1>2, <1>8, LastAsksContinued
    <2> QED
        BY <1>3, <2>2, <2>3, <2>4 DEF ExtendInv
<1>9. CASE UNCHANGED vars
    <2>1. /\ mode' = mode /\ phase' = phase /\ answer' = answer /\ got' = got /\ think' = think
          /\ text' = text /\ sent' = sent /\ history' = history /\ prompt' = prompt
          /\ resident' = resident
        BY <1>9 DEF vars, session
    <2>2. /\ Streaming' = Streaming /\ Splitting' = Splitting /\ Chat' = Chat /\ Table' = Table
          /\ Regular' = Regular
        BY <2>1 DEF Streaming, Splitting, Chat, Table, Regular, CallAt
    <2>3. Unsplit' /\ Straight' /\ LastAsks'
        BY <1>1, <2>1, <2>2 DEF Unsplit, Straight, LastAsks
    <2>4. Asked(W)'
        BY <1>1, <2>1, AskedKept
    <2>5. Received'
        BY <1>1, <2>1, <2>2 DEF Received, AsWritten
    <2>6. Returned(W)'
        <3>1. \A h \in Seq(Messages(W)) : Render(h)' = Render(h)
            BY <2>1, RenderKept
        <3> QED
            BY <1>1, <2>1, <2>2, <3>1 DEF Returned
    <2> QED
        BY <1>3, <2>3, <2>4, <2>5, <2>6 DEF ExtendInv
<1> QED
    BY <1>4, <1>5, <1>6, <1>7, <1>8, <1>9 DEF Next

\* A follow-up request of a session begins with the whole conversation that
\* is resident, so the engine has to prefill only what was added (the claim of
\* render_template), for a reply of any length in the template's own format,
\* with the two exceptions PlainTurnsExtend names.
THEOREM PlainTurnsAreExtended ==
    ASSUME NEW W, OpeningShape(W), WellFormedTexts
    PROVE  Spec => PlainTurnsExtend
<1>1. Init => ExtendInv(W)
    BY ExtendInit
<1>2. ExtendInv(W) /\ [Next]_vars => ExtendInv(W)'
    BY ExtendStep
<1>3. ASSUME ExtendInv(W), [Next]_vars
      PROVE  [/\ phase = "client" /\ phase' = "engine" /\ resident # <<>>
              /\ ~mode.thinking /\ text \in WellFormed[FALSE]
              /\ CallAt > 0 => mode.tools /\ ToSet(text) \cap {"f", "n"} \subseteq Table \ {"n"}
              /\ CallAt > 1 => Chat /\ ~mode.stream
              => IsPrefix(resident, prompt')]_vars
    <2> SUFFICES ASSUME phase = "client", phase' = "engine", resident # <<>>, Regular
                 PROVE  IsPrefix(resident, prompt')
        BY DEF Regular
    <2>1. Ask
        BY <1>3 DEF Next, FinishStream, AnswerPlain, Abort, Continue, Deliver, vars, session
    <2>2. prompt' = Render(history).prompt
        BY <2>1 DEF Ask
    <2>3. PICK h \in Seq(Messages(W)) : h = history
        BY <1>3 DEF ExtendInv, SessionInv
    <2>4. IsPrefix(resident, Render(h).prompt)
        BY <1>3, <2>3 DEF ExtendInv, Returned
    <2> QED
        BY ONLY <2>2, <2>3, <2>4
<1> QED
    BY <1>1, <1>2, <1>3, PTL DEF Spec, PlainTurnsExtend

=============================================================================
