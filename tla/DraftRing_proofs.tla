--------------------------- MODULE DraftRing_proofs ---------------------------
(***************************************************************************)
(* The draft context follows the text and is as long as it can be, for     *)
(* every size of the rings, of the blocks and of the chunks, and over any  *)
(* sequence of requests and failures.                                      *)
(***************************************************************************)
EXTENDS DraftRing, LayerState_proofs, WellFoundedInduction

-----------------------------------------------------------------------------
(* Slots of a ring.                                                        *)

LEMMA SlotRange ==
    ASSUME NEW n \in Nat \ {0}, NEW p \in Nat
    PROVE  p % n \in 0 .. n - 1
OBVIOUS

LEMMA NoMultiple ==
    ASSUME NEW n \in Nat \ {0}, NEW k \in Int, k # 0
    PROVE  ~ (0 < n * k /\ n * k < n)
OBVIOUS

\* Two positions less than a ring apart are in different slots.
LEMMA SlotsDiffer ==
    ASSUME NEW n \in Nat \ {0}, NEW p \in Nat, NEW q \in Nat, p < q, q - p < n
    PROVE  p % n # q % n
<1>1. /\ p = n * (p \div n) + (p % n)
      /\ q = n * (q \div n) + (q % n)
      /\ p \div n \in Int /\ q \div n \in Int
    OBVIOUS
<1> DEFINE k == (q \div n) - (p \div n)
<1>2. k \in Int /\ (p % n = q % n => q - p = n * k)
    BY <1>1
<1>3. k = 0 => n * k = 0
    OBVIOUS
<1> HIDE DEF k
<1> SUFFICES ASSUME p % n = q % n
             PROVE  FALSE
    OBVIOUS
<1>4. 0 < n * k /\ n * k < n
    BY <1>2
<1> QED
    BY <1>2, <1>3, <1>4, NoMultiple

\* A non-empty set of numbers has a least one, and a bounded one a greatest.
LEMMA Least ==
    ASSUME NEW S, S \subseteq Nat, S # {}
    PROVE  \E m \in S : \A n \in S : m <= n
<1> DEFINE R == {p \in Nat \X Nat : p[1] < p[2]}
<1>1. IsWellFoundedOn(R, Nat)
    BY ONLY NatLessThanWellFounded DEF OpToRel
<1> HIDE DEF R
<1>2. PICK m \in S : \A n \in S : ~ (<<n, m>> \in R)
    BY <1>1, WFMin
<1>3. \A n \in S : ~ (n < m)
    BY <1>2 DEF R
<1> QED
    BY <1>3

LEMMA Greatest ==
    ASSUME NEW S, S \subseteq Nat, S # {}, NEW top \in Nat, \A n \in S : n <= top
    PROVE  \E m \in S : \A n \in S : n <= m
<1> DEFINE D == {k \in Nat : k <= top /\ top - k \in S}
<1>1. D \subseteq Nat /\ D # {}
    <2>1. PICK n \in S : TRUE
        OBVIOUS
    <2>2. top - n \in D
        BY <2>1
    <2> QED
        BY <2>2
<1>2. PICK k \in D : \A j \in D : k <= j
    BY <1>1, Least
<1>3. \A n \in S : top - n \in D
    OBVIOUS
<1>4. top - k \in S /\ \A n \in S : n <= top - k
    BY <1>2, <1>3
<1> QED
    BY <1>4

LEMMA LastOnFacts ==
    ASSUME NEW size \in Nat \ {0}, NEW from \in Nat, NEW to \in Nat, NEW i,
           NEW p \in Positions(from, to), p % size = i
    PROVE  LET last == LastOn(i, size, Positions(from, to))
           IN  /\ last \in Positions(from, to)
               /\ last % size = i
               /\ p <= last
<1> DEFINE S == {q \in Positions(from, to) : q % size = i}
<1>1. S \subseteq Nat /\ p \in S /\ \A q \in S : q <= to
    BY DEF Positions
<1>2. PICK m \in S : \A q \in S : q <= m
    BY <1>1, Greatest
<1> QED
    BY <1>2 DEF LastOn

-----------------------------------------------------------------------------
(* The invariant.                                                          *)

\* A step in hand fits the context.
Fits == phase = "step" => block \in 2 .. Block /\ Position + block <= Capacity

\* The tag of a slot names a position of that slot; below n, and where it is
\* not in doubt, the tap is that of the text s.
TapsTell(someTags, someTaps, s, n, odd) ==
    \A i \in TapRows : someTags[i] # 0 =>
        /\ (someTags[i] - 1) % (Window + 1) = i
        /\ someTags[i] <= n /\ someTags[i] - 1 \notin odd =>
               someTaps[i] = FirstTokens(s, someTags[i])

TapsFollow == TapsTell(tags, taps, text, Position, oddTaps)

\* The rows the drafter believes to hold are of the text, or in doubt.
RowsFollow ==
    \A p \in Positions(contextEnd - contextCount, contextEnd) \ oddRows :
        p < Position /\ FollowsText(p)

OddBelow == oddRows \subseteq Positions(0, contextEnd)

\* Only a start or a failure leaves no text; then the context is empty too.
EmptyContext == text = << >> => phase = "idle" /\ contextEnd = 0 /\ tags = NoTags

\* A TURN checkpoint is a beginning of the text, until a failure forgets it.
TurnKept == turn # << >> /\ text # << >> =>
                Len(turn) <= Position /\ FirstTokens(text, Len(turn)) = turn

\* A step has the taps it still has to project.
Covered == phase = "step" => contextEnd <= Position /\ TagsCover(contextEnd, Position)

\* The first position of the context.
Low == contextEnd - contextCount

Longest ==
    oddRows = {} =>
        /\ contextEnd <= Position
        /\ \/ Low = 0 \/ contextCount = Window
           \/ ~ Tagged(Low - 1)
           \/ phase = "step" /\ Low = Position - Window

Inv == /\ TypeOK /\ Fits /\ TapsFollow /\ RowsFollow /\ OddBelow
       /\ EmptyContext /\ TurnKept /\ Covered /\ Longest

-----------------------------------------------------------------------------
(* Texts and captures.                                                     *)

\* Texts that agree up to n agree on every beginning of that part.
LEMMA Agree ==
    ASSUME NEW s \in Seq(Token), NEW t \in Seq(Token), NEW n \in 0 .. Len(s),
           n <= Len(t), FirstTokens(s, n) = FirstTokens(t, n), NEW k \in 1 .. n
    PROVE  FirstTokens(s, k) = FirstTokens(t, k)
<1>1. Len(s) \in Nat /\ Len(t) \in Nat
    BY LenProperties
<1>2. n \in 0 .. Len(t)
    BY <1>1
<1> QED
    BY <1>2, FirstOfFirst

LEMMA FirstTokensContent ==
    ASSUME NEW s \in Seq(Token), NEW n \in 0 .. Len(s)
    PROVE  FirstTokens(s, n) \in Content
BY FirstTokensFacts, ContentFacts

\* What a run of forwards leaves in the ring.
LEMMA CaptureFacts ==
    ASSUME taps \in [TapRows -> Content],
           NEW oldTags \in [TapRows -> 0 .. Capacity],
           NEW s \in Seq(Token), Len(s) <= Capacity, NEW from \in 0 .. Len(s),
           NEW odd, NEW doubtful,
           Capture(oldTags, s, from, odd),
           TapsTell(oldTags, taps, s, from, doubtful)
    PROVE  /\ taps' \in [TapRows -> Content]
           /\ tags' \in [TapRows -> 0 .. Capacity]
           /\ TapsTell(tags', taps', s, Len(s),
                       (doubtful \ Positions(from, Len(s))) \cup odd)
           /\ \A i \in TapRows : tags'[i] # 0 /\ tags'[i] <= from =>
                                     tags'[i] = oldTags[i]
<1> DEFINE written == Positions(from, Len(s))
           last(i) == LastOn(i, Window + 1, written)
           Hit(i) == \E p \in written : p % (Window + 1) = i
<1>0. /\ Len(s) \in Nat /\ Window + 1 \in Nat \ {0} /\ Capacity \in Nat
      /\ written \subseteq 0 .. Len(s) - 1 /\ from \in Nat
    BY LenProperties, RingAssumption, LayerAssumption DEF Positions
<1>1. /\ tags' = [i \in TapRows |-> IF Hit(i) THEN last(i) + 1 ELSE oldTags[i]]
      /\ taps' = [i \in TapRows |->
                     IF ~ Hit(i) THEN taps[i]
                     ELSE IF last(i) \in odd THEN Garbage
                     ELSE FirstTokens(s, last(i) + 1)]
    BY DEF Capture
<1>2. ASSUME NEW i \in TapRows, Hit(i)
      PROVE  last(i) \in written /\ last(i) % (Window + 1) = i
    <2>1. PICK p \in written : p % (Window + 1) = i
        BY <1>2
    <2>2. PICK size \in Nat \ {0} : size = Window + 1
        BY <1>0
    <2>3. from \in Nat /\ Len(s) \in Nat /\ p \in Positions(from, Len(s)) /\ p % size = i
        BY <1>0, <2>1, <2>2
    <2>4. LET l == LastOn(i, size, Positions(from, Len(s)))
          IN  l \in Positions(from, Len(s)) /\ l % size = i
        BY ONLY <2>3, LastOnFacts, size \in Nat \ {0}
    <2> QED
        BY <2>2, <2>4
<1> HIDE DEF last
<1>3. ASSUME NEW i \in TapRows, Hit(i)
      PROVE  /\ tags'[i] \in 0 .. Capacity /\ taps'[i] \in Content
             /\ (tags'[i] - 1) % (Window + 1) = i
             /\ tags'[i] - 1 \notin odd => taps'[i] = FirstTokens(s, tags'[i])
             /\ tags'[i] > from
    <2>1. /\ last(i) \in written /\ last(i) % (Window + 1) = i
          /\ tags'[i] = last(i) + 1
          /\ taps'[i] = IF last(i) \in odd THEN Garbage ELSE FirstTokens(s, last(i) + 1)
        BY <1>1, <1>2, <1>3
    <2>2. /\ last(i) \in 0 .. Len(s) - 1 /\ last(i) >= from /\ last(i) + 1 \in 0 .. Len(s)
          /\ tags'[i] - 1 = last(i) /\ tags'[i] \in 0 .. Capacity
        BY <1>0, <2>1 DEF Positions
    <2>3. taps'[i] \in Content
        BY <2>1, <2>2, FirstTokensContent, ContentFacts
    <2> QED
        BY <1>0, <2>1, <2>2, <2>3
<1>4. ASSUME NEW i \in TapRows, ~ Hit(i)
      PROVE  tags'[i] = oldTags[i] /\ taps'[i] = taps[i]
    BY <1>1, <1>4
<1>5. ASSUME NEW i \in TapRows, ~ Hit(i), tags'[i] # 0, tags'[i] <= Len(s)
      PROVE  tags'[i] <= from
    <2>1. oldTags[i] \in 1 .. Len(s) /\ (oldTags[i] - 1) % (Window + 1) = i
          /\ tags'[i] = oldTags[i]
        BY <1>0, <1>4, <1>5 DEF TapsTell
    <2>2. oldTags[i] - 1 \notin written
        BY <1>5, <2>1
    <2> QED
        BY <1>0, <2>1, <2>2 DEF Positions
<1>6. tags' \in [TapRows -> 0 .. Capacity] /\ taps' \in [TapRows -> Content]
    <2>1. \A i \in TapRows : tags'[i] \in 0 .. Capacity /\ taps'[i] \in Content
        BY <1>3, <1>4
    <2> QED
        BY <1>1, <2>1
<1>7. ASSUME NEW i \in TapRows, tags'[i] # 0
      PROVE  /\ (tags'[i] - 1) % (Window + 1) = i
             /\ tags'[i] <= Len(s) /\ tags'[i] - 1 \notin (doubtful \ written) \cup odd =>
                    taps'[i] = FirstTokens(s, tags'[i])
    <2>1. CASE Hit(i)
        BY <1>3, <2>1
    <2>2. CASE ~ Hit(i)
        <3>1. /\ tags'[i] = oldTags[i] /\ taps'[i] = taps[i]
              /\ (oldTags[i] - 1) % (Window + 1) = i
              /\ oldTags[i] <= from /\ oldTags[i] - 1 \notin doubtful =>
                     taps[i] = FirstTokens(s, oldTags[i])
            BY <1>4, <1>7, <2>2 DEF TapsTell
        <3>2. ASSUME tags'[i] <= Len(s) PROVE tags'[i] <= from /\ tags'[i] - 1 \notin written
            BY <1>0, <1>5, <1>6, <1>7, <2>2, <3>2 DEF Positions
        <3> QED
            BY <3>1, <3>2
    <2> QED
        BY <2>1, <2>2
<1>8. \A i \in TapRows : tags'[i] # 0 /\ tags'[i] <= from => tags'[i] = oldTags[i]
    BY <1>0, <1>3, <1>4, <1>6
<1> QED
    BY <1>6, <1>7, <1>8 DEF TapsTell

-----------------------------------------------------------------------------
(* Requests.                                                               *)

LEMMA Sizes ==
    ASSUME TypeOK
    PROVE  /\ Window \in Nat \ {0} /\ Capacity \in Nat \ {0} /\ Block \in Nat
           /\ text \in Seq(Token) /\ turn \in Seq(Token) /\ system \in Seq(Token)
           /\ Position \in Nat /\ Len(turn) \in Nat /\ Len(system) \in Nat
           /\ contextEnd \in Nat /\ contextCount \in Nat /\ contextCount <= contextEnd
           /\ contextCount <= Window /\ contextEnd <= Capacity /\ Position <= Capacity
           /\ Low \in Nat
<1>1. text \in Seq(Token) /\ turn \in Seq(Token) /\ system \in Seq(Token)
    BY DEF TypeOK
<1>2. Window \in Nat \ {0} /\ Capacity \in Nat \ {0} /\ Block \in Nat
    BY RingAssumption, LayerAssumption
<1>3. Position \in Nat /\ Len(turn) \in Nat /\ Len(system) \in Nat
    BY <1>1, LenProperties DEF Position
<1> QED
    BY <1>1, <1>2, <1>3 DEF TypeOK, Smaller, Low

\* A prompt is a non-empty text.
LEMMA PromptFacts ==
    ASSUME NEW prompt \in Prompts
    PROVE  /\ prompt \in Seq(Token) /\ prompt # << >>
           /\ Len(prompt) \in Nat /\ Len(prompt) >= 1
<1>1. prompt \in Seq(Token) /\ prompt # << >>
    BY RingAssumption
<1> QED
    BY <1>1, LenProperties, EmptySeq

\* The positions of the wide chunks are among those that are read.
LEMMA WideFacts ==
    ASSUME NEW from \in Nat, NEW to \in Nat, from <= to
    PROVE  WidePositions(from, to) \subseteq Positions(from, to)
<1>1. PICK w \in Nat \ {0} : w = WideChunk
    BY RingAssumption
<1>2. PICK d \in Nat : d = to - from
    OBVIOUS
<1>3. (d \div w) * w <= d
    <2>1. d = w * (d \div w) + (d % w) /\ d % w >= 0 /\ d \div w \in Int
        OBVIOUS
    <2> QED
        BY <2>1
<1>4. (d \div w) * w \in Int
    OBVIOUS
<1>5. PICK m \in Int : m = (d \div w) * w
    BY <1>4
<1>6. from + m <= to
    BY <1>2, <1>3, <1>5
<1>7. WidePositions(from, to) \subseteq Positions(from, from + m)
    BY <1>1, <1>2, <1>5 DEF WidePositions
<1> QED
    BY <1>6, <1>7 DEF Positions

\* Reading a prompt from a base it extends.
LEMMA ReadStep ==
    ASSUME Inv, NEW prompt \in Prompts, NEW from \in Nat, NEW boundary \in Nat,
           from <= boundary, boundary < Len(prompt),
           NEW oldTags \in [TapRows -> 0 .. Capacity],
           NEW doubtful, doubtful \subseteq 0 .. Capacity,
           Read(prompt, from, boundary, oldTags, doubtful),
           TapsTell(oldTags, taps, prompt, from, doubtful)
    PROVE  /\ phase = "idle" /\ phase' \in {"plain", "reply"} /\ text' = prompt
           /\ turn' \in Seq(Token) /\ Position' = Len(prompt) /\ Position' <= Capacity
           /\ taps' \in [TapRows -> Content] /\ tags' \in [TapRows -> 0 .. Capacity]
           /\ oddTaps' \subseteq 0 .. Capacity /\ block' = block
           /\ Fits' /\ TapsFollow' /\ EmptyContext' /\ TurnKept' /\ Covered'
           /\ \A i \in TapRows : tags'[i] # 0 /\ tags'[i] <= from =>
                                     tags'[i] = oldTags[i]
<1> DEFINE odd == WidePositions(from, boundary)
                      \cup WidePositions(boundary, Len(prompt) - 1)
<1>0. /\ prompt \in Seq(Token) /\ prompt # << >> /\ Len(prompt) \in Nat
      /\ Len(prompt) - 1 \in Nat /\ from \in 0 .. Len(prompt) /\ Capacity \in Nat
    BY PromptFacts, LayerAssumption
<1>1. /\ phase = "idle" /\ phase' \in {"plain", "reply"} /\ text' = prompt
      /\ Len(prompt) < Capacity /\ turn' \in {prompt, << >>}
      /\ Capture(oldTags, prompt, from, odd)
      /\ oddTaps' = (doubtful \ Positions(from, Len(prompt))) \cup odd
      /\ block' = block
    BY DEF Read
<1>2. odd \subseteq 0 .. Capacity
    <2>1. odd \subseteq Positions(from, Len(prompt) - 1)
        BY <1>0, WideFacts DEF Positions
    <2> QED
        BY <1>0, <1>1, <2>1 DEF Positions
<1> HIDE DEF odd
<1>3. /\ taps' \in [TapRows -> Content]
      /\ tags' \in [TapRows -> 0 .. Capacity]
      /\ TapsTell(tags', taps', prompt, Len(prompt), oddTaps')
      /\ \A i \in TapRows : tags'[i] # 0 /\ tags'[i] <= from => tags'[i] = oldTags[i]
    <2>1. taps \in [TapRows -> Content]
        BY DEF Inv, TypeOK
    <2>2. Len(prompt) <= Capacity
        BY <1>0, <1>1
    <2>3. /\ taps' \in [TapRows -> Content]
          /\ tags' \in [TapRows -> 0 .. Capacity]
          /\ TapsTell(tags', taps', prompt, Len(prompt),
                      (doubtful \ Positions(from, Len(prompt))) \cup odd)
          /\ \A i \in TapRows : tags'[i] # 0 /\ tags'[i] <= from =>
                                    tags'[i] = oldTags[i]
        BY <1>0, <1>1, <2>1, <2>2, CaptureFacts, Zenon
    <2> QED
        BY <1>1, <2>3
<1>4. TapsFollow'
    BY <1>1, <1>3 DEF TapsFollow, Position
<1>5. turn' \in Seq(Token) /\ TurnKept'
    <2>1. FirstTokens(prompt, Len(prompt)) = prompt
        BY <1>0, SubSeqFull DEF FirstTokens
    <2>2. << >> \in Seq(Token)
        BY EmptySeq
    <2>3. turn' # << >> => turn' = text'
        BY <1>1
    <2>4. turn' # << >> => TurnKept'
        BY <1>0, <1>1, <2>1, <2>3 DEF TurnKept, Position
    <2> QED
        BY <1>0, <1>1, <2>2, <2>4 DEF TurnKept
<1>6. oddTaps' \subseteq 0 .. Capacity
    BY <1>1, <1>2
<1>7. phase' # "step" /\ text' # << >> /\ Position' = Len(prompt) /\ Position' <= Capacity
    BY <1>0, <1>1 DEF Position
<1>8. Fits' /\ EmptyContext' /\ Covered'
    BY <1>7 DEF Fits, EmptyContext, Covered
<1> QED
    BY <1>1, <1>3, <1>4, <1>5, <1>6, <1>7, <1>8

\* No tag appears at a place that is not read again.
LEMMA StaysUntagged ==
    ASSUME TypeOK, NEW p \in Nat, NEW from \in Nat, p < from, ~ Tagged(p),
           tags' \in [TapRows -> 0 .. Capacity],
           \A i \in TapRows : tags'[i] # 0 /\ tags'[i] <= from => tags'[i] = tags[i]
    PROVE  ~ Tagged(p)'
<1>1. p % (Window + 1) \in TapRows
    <2>1. PICK n \in Nat \ {0} : n = Window + 1
        BY RingAssumption
    <2>2. p % n \in 0 .. n - 1
        BY <2>1, SlotRange
    <2> QED
        BY <2>1, <2>2, RingAssumption DEF TapRows
<1> QED
    BY <1>1 DEF Tagged

\* A context that nothing is taken from stays as long as it can be.
LEMMA ContextKept ==
    ASSUME Inv, NEW from \in Nat, oddRows = {},
           contextEnd' = contextEnd, contextCount' = contextCount,
           contextEnd <= from, contextEnd <= Position',
           phase # "step" \/ (Low = Position - Window => contextCount = Window),
           tags' \in [TapRows -> 0 .. Capacity],
           \A i \in TapRows : tags'[i] # 0 /\ tags'[i] <= from => tags'[i] = tags[i]
    PROVE  /\ contextEnd' <= Position'
           /\ Low' = 0 \/ contextCount' = Window \/ ~ Tagged(Low - 1)'
<1>1. /\ Low' = Low /\ Low \in Nat /\ Low <= from
      /\ Low = 0 \/ contextCount = Window \/ ~ Tagged(Low - 1)
    <2>1. Low \in Nat /\ contextEnd \in Nat /\ contextCount \in Nat
        BY Sizes DEF Inv
    <2> QED
        BY <2>1 DEF Inv, Longest, Low
<1>2. ASSUME Low # 0, ~ Tagged(Low - 1)
      PROVE  ~ Tagged(Low - 1)'
    <2>1. PICK p \in Nat : p = Low - 1 /\ p = Low' - 1 /\ p < from
        BY <1>1, <1>2
    <2>2. ~ Tagged(p)'
        BY <1>2, <2>1, StaysUntagged DEF Inv
    <2> QED
        BY <2>1, <2>2
<1> QED
    BY <1>1, <1>2

LEMMA ContinueHistoryStep ==
    ASSUME Inv, NEW prompt \in Prompts, ContinueHistory(prompt)
    PROVE  Inv'
<1>0. prompt \in Seq(Token) /\ Len(prompt) \in Nat
    BY PromptFacts
<1>1. /\ Len(prompt) > Position /\ FirstTokens(prompt, Position) = text
      /\ Read(prompt, Position, Position, tags, oddTaps)
      /\ UNCHANGED <<system, contextVars>>
    BY DEF ContinueHistory, Extends, Position
<1>2. /\ text \in Seq(Token) /\ Position \in Nat /\ Position = Len(text)
      /\ tags \in [TapRows -> 0 .. Capacity] /\ oddTaps \subseteq 0 .. Capacity
      /\ FirstTokens(text, Position) = text
    <2>1. text \in Seq(Token) /\ Position \in Nat
        BY Sizes DEF Inv
    <2>2. FirstTokens(text, Position) = text
        BY <2>1, SubSeqFull DEF FirstTokens, Position
    <2> QED
        BY <2>1, <2>2 DEF Inv, TypeOK, Position
<1>3. \A k \in 1 .. Position : FirstTokens(text, k) = FirstTokens(prompt, k)
    BY <1>0, <1>1, <1>2, Agree
<1>4. TapsTell(tags, taps, prompt, Position, oddTaps)
    <2>1. \A i \in TapRows : tags[i] \in Nat
        BY <1>2
    <2> QED
        BY <1>2, <1>3, <2>1 DEF Inv, TapsFollow, TapsTell
<1>5. /\ phase' \in {"plain", "reply"} /\ text' = prompt
      /\ turn' \in Seq(Token) /\ Position' = Len(prompt) /\ Position' <= Capacity
      /\ taps' \in [TapRows -> Content] /\ tags' \in [TapRows -> 0 .. Capacity]
      /\ oddTaps' \subseteq 0 .. Capacity /\ block' = block
      /\ Fits' /\ TapsFollow' /\ EmptyContext' /\ TurnKept' /\ Covered' /\ phase = "idle"
      /\ \A i \in TapRows : tags'[i] # 0 /\ tags'[i] <= Position => tags'[i] = tags[i]
    <2>1. /\ Position < Len(prompt) /\ Position <= Position
          /\ Read(prompt, Position, Position, tags, oddTaps)
        BY <1>0, <1>1, <1>2
    <2> QED
        BY <1>2, <1>4, <2>1, ReadStep, Zenon
<1>6. TypeOK'
    BY <1>0, <1>1, <1>5 DEF Inv, TypeOK, contextVars, Position
<1>7. RowsFollow' /\ OddBelow'
    <2>1. \A p \in Positions(contextEnd - contextCount, contextEnd) : p \in Nat
        BY Sizes DEF Inv, Positions, Low
    <2> QED
        BY <1>1, <1>2, <1>3, <1>5, <2>1 DEF Inv, RowsFollow, OddBelow, contextVars, FollowsText,
           RowOfPosition
<1>8. Longest'
    <2> SUFFICES ASSUME oddRows' = {}
                 PROVE  /\ contextEnd' <= Position'
                        /\ Low' = 0 \/ contextCount' = Window \/ ~ Tagged(Low - 1)'
        BY DEF Longest
    <2>1. /\ contextEnd' = contextEnd /\ contextCount' = contextCount /\ oddRows = {}
          /\ phase # "step" /\ contextEnd <= Position /\ contextEnd <= Position'
        <3>1. contextEnd' = contextEnd /\ contextCount' = contextCount /\ oddRows = {}
            BY <1>1 DEF contextVars
        <3>2. contextEnd <= Position
            BY <3>1 DEF Inv, Longest
        <3> QED
            BY <1>0, <1>1, <1>2, <1>5, <3>1, <3>2, Sizes DEF Inv
    <2> QED
        BY <1>2, <1>5, <2>1, ContextKept
<1> QED
    BY <1>5, <1>6, <1>7, <1>8 DEF Inv

LEMMA RestoreTurnStep ==
    ASSUME Inv, NEW prompt \in Prompts, RestoreTurn(prompt)
    PROVE  Inv'
<1> DEFINE from == Len(turn)
<1>0. /\ prompt \in Seq(Token) /\ Len(prompt) \in Nat /\ turn \in Seq(Token)
      /\ text \in Seq(Token) /\ from \in Nat /\ Position \in Nat
    BY PromptFacts, Sizes DEF Inv
<1>1. /\ turn # << >> /\ from < Len(prompt) /\ FirstTokens(prompt, from) = turn
      /\ Read(prompt, from, from, tags, oddTaps)
      /\ oddRows' = oddRows \cup Positions(from, contextEnd)
      /\ rows' = rows /\ contextEnd' = contextEnd /\ contextCount' = contextCount
      /\ system' = system
    BY <1>0 DEF RestoreTurn, ExtendsTurn, Extends
<1>2. tags \in [TapRows -> 0 .. Capacity] /\ oddTaps \subseteq 0 .. Capacity
    BY DEF Inv, TypeOK
<1>3. ASSUME text # << >>
      PROVE  /\ from <= Position
             /\ \A k \in 1 .. from : FirstTokens(text, k) = FirstTokens(prompt, k)
    <2>1. from <= Position /\ FirstTokens(text, from) = turn
        BY <1>1, <1>3 DEF Inv, TurnKept
    <2>2. from \in 0 .. Len(text) /\ from <= Len(prompt)
        BY <1>0, <1>1, <2>1 DEF Position
    <2> QED
        BY <1>0, <1>1, <2>1, <2>2, Agree
<1>4. ASSUME text = << >>
      PROVE  contextEnd = 0 /\ tags = NoTags
    BY <1>4 DEF Inv, EmptyContext
<1>5. TapsTell(tags, taps, prompt, from, oddTaps)
    <2>1. CASE text = << >>
        BY <1>4, <2>1 DEF TapsTell, NoTags
    <2>2. CASE text # << >>
        <3>1. \A i \in TapRows : tags[i] \in Nat
            BY <1>2
        <3> QED
            BY <1>0, <1>3, <2>2, <3>1 DEF Inv, TapsFollow, TapsTell
    <2> QED
        BY <2>1, <2>2
<1>6. /\ phase' \in {"plain", "reply"} /\ text' = prompt
      /\ turn' \in Seq(Token) /\ Position' = Len(prompt) /\ Position' <= Capacity
      /\ taps' \in [TapRows -> Content] /\ tags' \in [TapRows -> 0 .. Capacity]
      /\ oddTaps' \subseteq 0 .. Capacity /\ block' = block
      /\ Fits' /\ TapsFollow' /\ EmptyContext' /\ TurnKept' /\ Covered' /\ phase = "idle"
      /\ \A i \in TapRows : tags'[i] # 0 /\ tags'[i] <= from => tags'[i] = tags[i]
    <2>1. from < Len(prompt) /\ from <= from
        BY <1>0, <1>1
    <2> QED
        BY <1>0, <1>1, <1>2, <1>5, <2>1, ReadStep, Zenon
<1>7. TypeOK'
    <2>1. oddRows \subseteq 0 .. Capacity /\ contextEnd \in 0 .. Capacity /\ Capacity \in Nat
        BY LayerAssumption DEF Inv, TypeOK
    <2>2. Positions(from, contextEnd) \subseteq 0 .. Capacity
        BY <1>0, <2>1 DEF Positions
    <2> QED
        BY <1>0, <1>1, <1>6, <2>1, <2>2 DEF Inv, TypeOK, Position
<1>8. RowsFollow'
    <2> SUFFICES ASSUME NEW p \in Positions(contextEnd - contextCount, contextEnd),
                        p \notin oddRows, p \notin Positions(from, contextEnd)
                 PROVE  p < Len(prompt) /\ RowOfPosition(p)' = FirstTokens(prompt, p + 1)
        BY <1>1, <1>6 DEF RowsFollow, FollowsText
    <2>1. p \in Nat /\ p < from /\ contextEnd # 0
        BY <1>0, Sizes DEF Inv, Positions, Low
    <2>2. RowOfPosition(p) = FirstTokens(text, p + 1)
        BY DEF Inv, RowsFollow, FollowsText
    <2>3. text # << >>
        BY <1>4, <2>1
    <2>4. p + 1 \in 1 .. from
        BY <1>0, <2>1
    <2> QED
        BY <1>0, <1>1, <1>3, <2>1, <2>2, <2>3, <2>4 DEF RowOfPosition
<1>9. OddBelow'
    <2>1. Positions(from, contextEnd) \subseteq Positions(0, contextEnd)
        BY <1>0 DEF Positions
    <2> QED
        BY <1>1, <2>1 DEF Inv, OddBelow
<1>10. Longest'
    <2> SUFFICES ASSUME oddRows' = {}
                 PROVE  /\ contextEnd' <= Position'
                        /\ Low' = 0 \/ contextCount' = Window \/ ~ Tagged(Low - 1)'
        BY DEF Longest
    <2>1. oddRows = {} /\ contextEnd <= from
        <3>1. oddRows = {} /\ Positions(from, contextEnd) = {}
            BY <1>1
        <3>2. contextEnd \in Nat
            BY Sizes DEF Inv
        <3>3. from < contextEnd => from \in Positions(from, contextEnd)
            BY <1>0, <3>2 DEF Positions
        <3> QED
            BY <1>0, <3>1, <3>2, <3>3
    <2>2. contextEnd <= Position' /\ phase # "step"
        BY <1>0, <1>1, <1>6, <2>1, Sizes DEF Inv
    <2> QED
        BY <1>0, <1>1, <1>6, <2>1, <2>2, ContextKept
<1> QED
    BY <1>6, <1>7, <1>8, <1>9, <1>10 DEF Inv

LEMMA RestoreSystemStep ==
    ASSUME Inv, NEW prompt \in Prompts, RestoreSystem(prompt)
    PROVE  Inv'
<1> DEFINE from == Len(system)
           doubtful == oddTaps \cup Positions(0, from)
<1>0. /\ prompt \in Seq(Token) /\ Len(prompt) \in Nat /\ system \in Seq(Token)
      /\ from \in Nat /\ Capacity \in Nat
    BY PromptFacts, Sizes DEF Inv
<1>1. /\ from < Len(prompt)
      /\ Read(prompt, from, from, tags, doubtful)
      /\ oddRows' = oddRows \cup Positions(0, contextEnd)
      /\ rows' = rows /\ contextEnd' = contextEnd /\ contextCount' = contextCount
      /\ system' = system
    BY <1>0 DEF RestoreSystem, ExtendsSystem, Extends
<1>2. /\ tags \in [TapRows -> 0 .. Capacity] /\ doubtful \subseteq 0 .. Capacity
      /\ Len(prompt) < Capacity
    <2>1. Len(prompt) < Capacity
        BY <1>1 DEF Read
    <2>2. tags \in [TapRows -> 0 .. Capacity] /\ oddTaps \subseteq 0 .. Capacity
        BY DEF Inv, TypeOK
    <2>3. Positions(0, from) \subseteq 0 .. Capacity
        BY <1>0, <1>1, <2>1 DEF Positions
    <2> QED
        BY <2>1, <2>2, <2>3
<1>3. TapsTell(tags, taps, prompt, from, doubtful)
    <2>1. \A i \in TapRows : tags[i] \in Nat
        BY <1>2
    <2> QED
        BY <1>0, <2>1 DEF Inv, TapsFollow, TapsTell, Positions
<1> HIDE DEF doubtful
<1>6. /\ phase' \in {"plain", "reply"} /\ text' = prompt
      /\ turn' \in Seq(Token) /\ Position' = Len(prompt) /\ Position' <= Capacity
      /\ taps' \in [TapRows -> Content] /\ tags' \in [TapRows -> 0 .. Capacity]
      /\ oddTaps' \subseteq 0 .. Capacity /\ block' = block
      /\ Fits' /\ TapsFollow' /\ EmptyContext' /\ TurnKept' /\ Covered' /\ phase = "idle"
    <2>1. from < Len(prompt) /\ from <= from
        BY <1>0, <1>1
    <2> QED
        BY <1>0, <1>1, <1>2, <1>3, <2>1, ReadStep, Zenon
<1>7. TypeOK'
    <2>1. oddRows' \subseteq 0 .. Capacity
        BY <1>0, <1>1, Sizes DEF Inv, TypeOK, Positions
    <2> QED
        BY <1>0, <1>1, <1>6, <2>1 DEF Inv, TypeOK, Position
<1>8. RowsFollow' /\ OddBelow'
    <2>1. \A p \in Positions(contextEnd - contextCount, contextEnd) :
              p \in Positions(0, contextEnd)
        BY Sizes DEF Inv, Positions, Low
    <2> QED
        BY <1>1, <2>1 DEF Inv, RowsFollow, OddBelow
<1>9. Longest'
    <2> SUFFICES ASSUME oddRows' = {}
                 PROVE  contextEnd' <= Position' /\ Low' = 0
        BY DEF Longest
    <2>1. Positions(0, contextEnd) = {} /\ contextEnd \in Nat
        BY <1>1, Sizes DEF Inv
    <2>2. contextEnd = 0 /\ contextCount = 0
        BY <2>1, Sizes DEF Inv, Positions
    <2> QED
        BY <1>0, <1>1, <1>6, <2>2 DEF Low
<1> QED
    BY <1>6, <1>7, <1>8, <1>9 DEF Inv

\* An empty context is right for any text.
LEMMA EmptyIsRight ==
    ASSUME contextEnd' = 0, contextCount' = 0, oddRows' = {}, Position' \in Nat
    PROVE  RowsFollow' /\ OddBelow' /\ Longest'
BY DEF RowsFollow, OddBelow, Longest, Low, Positions

LEMMA NoTagsType == NoTags \in [TapRows -> 0 .. Capacity]
BY LayerAssumption DEF NoTags

\* The span of a prompt that may be checkpointed.
LEMMA PrefixFacts ==
    ASSUME NEW prompt \in Prompts, NEW boundary \in Boundaries(prompt)
    PROVE  /\ boundary \in Nat /\ boundary < Len(prompt)
           /\ FirstTokens(prompt, boundary) \in Seq(Token)
<1>1. boundary \in Nat /\ boundary < Len(prompt) /\ boundary \in 0 .. Len(prompt)
    BY PromptFacts DEF Boundaries
<1> QED
    BY <1>1, PromptFacts, FirstTokensFacts

LEMMA StartOverStep ==
    ASSUME Inv, NEW prompt \in Prompts, NEW boundary \in Boundaries(prompt),
           StartOver(prompt, boundary)
    PROVE  Inv'
<1>0. /\ prompt \in Seq(Token) /\ Len(prompt) \in Nat /\ boundary \in Nat
      /\ boundary < Len(prompt) /\ FirstTokens(prompt, boundary) \in Seq(Token)
    BY PromptFacts, PrefixFacts
<1>1. /\ Read(prompt, 0, boundary, NoTags, {})
      /\ contextEnd' = 0 /\ contextCount' = 0 /\ oddRows' = {} /\ rows' = rows
    BY DEF StartOver, ResetContext
<1>2. system' \in Seq(Token)
    <2>1. system \in Seq(Token) /\ << >> \in Seq(Token)
        BY Sizes, EmptySeq DEF Inv
    <2>2. CASE boundary = 0
        BY <2>1, <2>2 DEF StartOver
    <2>3. CASE boundary > 0
        BY <1>0, <2>1, <2>3 DEF StartOver
    <2> QED
        BY <1>0, <2>2, <2>3
<1>3. TapsTell(NoTags, taps, prompt, 0, {})
    BY DEF TapsTell, NoTags
<1>4. /\ phase' \in {"plain", "reply"} /\ text' = prompt
      /\ turn' \in Seq(Token) /\ Position' = Len(prompt) /\ Position' <= Capacity
      /\ taps' \in [TapRows -> Content] /\ tags' \in [TapRows -> 0 .. Capacity]
      /\ oddTaps' \subseteq 0 .. Capacity /\ block' = block
      /\ Fits' /\ TapsFollow' /\ EmptyContext' /\ TurnKept' /\ Covered'
    <2>1. 0 \in Nat /\ 0 <= boundary /\ {} \subseteq 0 .. Capacity
        BY <1>0
    <2> QED
        BY <1>0, <1>1, <1>3, <2>1, NoTagsType, ReadStep, SMTT(20)
<1>5. TypeOK'
    BY <1>0, <1>1, <1>2, <1>4, LayerAssumption, RingAssumption
       DEF Inv, TypeOK, Position, Smaller
<1>6. RowsFollow' /\ OddBelow' /\ Longest'
    BY <1>0, <1>1, <1>4, EmptyIsRight
<1> QED
    BY <1>4, <1>5, <1>6 DEF Inv

LEMMA ForgetStep ==
    ASSUME Inv, Forget, system' \in Seq(Token)
    PROVE  Inv'
<1>1. /\ phase' = "idle" /\ text' = << >> /\ tags' = NoTags /\ oddTaps' = {}
      /\ contextEnd' = 0 /\ contextCount' = 0 /\ oddRows' = {} /\ rows' = rows
      /\ turn' = turn /\ taps' = taps /\ block' = block
    BY DEF Forget, ResetContext
<1>2. text' \in Seq(Token) /\ Position' = 0 /\ Capacity \in Nat
    BY <1>1, EmptySeq, LayerAssumption DEF Position
<1>3. TypeOK'
    BY <1>1, <1>2, NoTagsType, RingAssumption DEF Inv, TypeOK, Position, Smaller
<1>4. TapsFollow'
    BY <1>1 DEF TapsFollow, TapsTell, NoTags
<1>5. RowsFollow' /\ OddBelow' /\ Longest'
    BY <1>1, <1>2, EmptyIsRight
<1>6. EmptyContext' /\ TurnKept' /\ Fits' /\ Covered'
    BY <1>1 DEF EmptyContext, TurnKept, Fits, Covered, NoTags
<1> QED
    BY <1>3, <1>4, <1>5, <1>6 DEF Inv

-----------------------------------------------------------------------------
(* The reply and its steps.                                                *)

\* A text and a beginning of what follows it begin the whole.
LEMMA SplitConcat ==
    ASSUME NEW s \in Seq(Token), NEW t \in Seq(Token), NEW n \in 0 .. Len(t)
    PROVE  s \o FirstTokens(t, n) = FirstTokens(s \o t, Len(s) + n)
<1> DEFINE c == FirstTokens(t, n)
           w == s \o t
           f == FirstTokens(w, Len(s) + n)
<1>1. Len(s) \in Nat /\ Len(t) \in Nat /\ n \in Nat /\ n <= Len(t)
    BY LenProperties
<1>2. c \in Seq(Token) /\ Len(c) = n /\ \A i \in 1 .. n : c[i] = t[i]
    BY FirstTokensFacts
<1> HIDE DEF c
<1>3. /\ w \in Seq(Token) /\ Len(w) = Len(s) + Len(t)
      /\ \A i \in 1 .. Len(s) + Len(t) :
             w[i] = IF i <= Len(s) THEN s[i] ELSE t[i - Len(s)]
    BY ConcatProperties
<1>4. /\ s \o c \in Seq(Token) /\ Len(s \o c) = Len(s) + n
      /\ \A i \in 1 .. Len(s) + n :
             (s \o c)[i] = IF i <= Len(s) THEN s[i] ELSE c[i - Len(s)]
    BY <1>2, ConcatProperties
<1> HIDE DEF w
<1>5. /\ f \in Seq(Token) /\ Len(f) = Len(s) + n
      /\ \A i \in 1 .. Len(s) + n : f[i] = w[i]
    <2>1. Len(s) + n \in 0 .. Len(w)
        BY <1>1, <1>3
    <2> QED
        BY <1>3, <2>1, FirstTokensFacts
<1> HIDE DEF f
<1>6. ASSUME NEW i \in 1 .. Len(s) + n
      PROVE  (s \o c)[i] = f[i]
    <2>1. i \in Nat /\ i \in 1 .. Len(s) + Len(t)
        BY <1>1
    <2>2. CASE i <= Len(s)
        BY <1>3, <1>4, <1>5, <2>1, <2>2
    <2>3. CASE ~ (i <= Len(s))
        <3>1. i - Len(s) \in 1 .. n
            BY <1>1, <2>1, <2>3
        <3>2. /\ (s \o c)[i] = c[i - Len(s)] /\ w[i] = t[i - Len(s)] /\ f[i] = w[i]
            BY <1>3, <1>4, <1>5, <2>1, <2>3
        <3> QED
            BY <1>2, <3>1, <3>2
    <2> QED
        BY <2>2, <2>3
<1>7. s \o c = f
    BY <1>4, <1>5, <1>6, SeqEqual
<1> QED
    BY <1>7 DEF c, w, f

\* Text that grows by forwards from its end.
LEMMA GrowStep ==
    ASSUME Inv, NEW more \in Seq(Token), NEW kept \in 0 .. Len(more),
           phase \in {"plain", "step"}, phase' # "step", kept > 0,
           Position + Len(more) <= Capacity,
           Capture(tags, text \o more, Position, {}),
           text' = text \o FirstTokens(more, kept),
           oddTaps' = oddTaps \ Positions(Position, Position + Len(more)),
           UNCHANGED contextVars,
           phase = "step" => contextEnd = Position
    PROVE  /\ text' \in Seq(Token) /\ Position' <= Capacity
           /\ taps' \in [TapRows -> Content] /\ tags' \in [TapRows -> 0 .. Capacity]
           /\ oddTaps' \subseteq 0 .. Capacity
           /\ TapsFollow' /\ RowsFollow' /\ OddBelow' /\ EmptyContext' /\ Longest'
           /\ FirstTokens(text', Position) = text /\ Position < Position'
<1> DEFINE s == text \o more
           cut == FirstTokens(more, kept)
<1>0. /\ text \in Seq(Token) /\ Position \in Nat /\ Position = Len(text)
      /\ Len(more) \in Nat /\ Capacity \in Nat /\ kept \in Nat /\ kept <= Len(more)
      /\ contextEnd \in Nat /\ contextCount \in Nat /\ Low \in Nat
      /\ oddTaps \subseteq 0 .. Capacity
    <2>1. kept \in Nat /\ kept <= Len(more) /\ Len(more) \in Nat
        BY LenProperties
    <2> QED
        BY <2>1, Sizes DEF Inv, Position, TypeOK
<1>1. cut \in Seq(Token) /\ Len(cut) = kept
    BY FirstTokensFacts
<1>2. /\ s \in Seq(Token) /\ Len(s) = Position + Len(more)
      /\ text' \in Seq(Token) /\ Position' = Position + kept
    BY <1>0, <1>1, ConcatProperties DEF Position
<1>3. \A k \in 1 .. Position : /\ FirstTokens(s, k) = FirstTokens(text, k)
                               /\ FirstTokens(text', k) = FirstTokens(text, k)
    BY <1>0, <1>1, FirstOfConcat
<1>4. FirstTokens(text', Position) = text
    <2>1. FirstTokens(text', Position) = FirstTokens(text, Position)
        BY <1>0, <1>1, FirstOfConcat
    <2> QED
        BY <1>0, <2>1, SubSeqFull DEF FirstTokens
<1>5. text' = FirstTokens(s, Position + kept)
    BY <1>0, <1>1, SplitConcat
<1>6. \A k \in 1 .. Position' : FirstTokens(s, k) = FirstTokens(text', k)
    <2>1. Position + kept \in 0 .. Len(s)
        BY <1>0, <1>2
    <2>2. \A k \in 1 .. Position + kept :
              FirstTokens(FirstTokens(s, Position + kept), k) = FirstTokens(s, k)
        BY <1>2, <2>1, FirstOfFirst
    <2> QED
        BY <1>2, <1>5, <2>2
<1> HIDE DEF s, cut
<1>7. TapsTell(tags, taps, s, Position, oddTaps)
    <2>1. \A i \in TapRows : tags[i] \in Nat
        BY DEF Inv, TypeOK
    <2> QED
        BY <1>0, <1>3, <2>1 DEF Inv, TapsFollow, TapsTell
<1>8. /\ taps' \in [TapRows -> Content] /\ tags' \in [TapRows -> 0 .. Capacity]
      /\ TapsTell(tags', taps', s, Len(s), (oddTaps \ Positions(Position, Len(s))) \cup {})
      /\ \A i \in TapRows : tags'[i] # 0 /\ tags'[i] <= Position => tags'[i] = tags[i]
    <2>1. taps \in [TapRows -> Content] /\ tags \in [TapRows -> 0 .. Capacity]
        BY DEF Inv, TypeOK
    <2>2. Len(s) <= Capacity /\ Position \in 0 .. Len(s) /\ Capture(tags, s, Position, {})
        BY <1>0, <1>2 DEF s
    <2> QED
        BY <1>2, <1>7, <2>1, <2>2, CaptureFacts, Zenon
<1>9. TapsFollow'
    <2>1. oddTaps' = (oddTaps \ Positions(Position, Len(s))) \cup {}
        BY <1>2
    <2>2. \A i \in TapRows : tags'[i] \in Nat
        BY <1>8
    <2>3. TapsTell(tags', taps', s, Len(s), oddTaps')
        BY <1>8, <2>1
    <2> QED
        BY <1>0, <1>2, <1>6, <2>2, <2>3 DEF TapsFollow, TapsTell
<1>10. /\ rows' = rows /\ contextEnd' = contextEnd /\ contextCount' = contextCount
       /\ oddRows' = oddRows
    BY DEF contextVars
<1>11. RowsFollow' /\ OddBelow'
    <2> SUFFICES ASSUME NEW p \in Positions(contextEnd - contextCount, contextEnd),
                        p \notin oddRows
                 PROVE  p < Position' /\ RowOfPosition(p)' = FirstTokens(text', p + 1)
        BY <1>10 DEF RowsFollow, FollowsText, Inv, OddBelow
    <2>1. p < Position /\ RowOfPosition(p) = FirstTokens(text, p + 1)
        BY DEF Inv, RowsFollow, FollowsText
    <2>2. p \in Nat
        BY <1>0 DEF Positions, Low
    <2>3. p + 1 \in 1 .. Position
        BY <1>0, <2>1, <2>2
    <2> QED
        BY <1>0, <1>2, <1>3, <1>10, <2>1, <2>2, <2>3 DEF RowOfPosition
<1>12. EmptyContext'
    <2>1. Position' # 0
        BY <1>0, <1>2
    <2> QED
        BY <1>2, <2>1, EmptySeq DEF EmptyContext, Position
<1>13. Longest'
    <2> SUFFICES ASSUME oddRows' = {}
                 PROVE  /\ contextEnd' <= Position'
                        /\ Low' = 0 \/ contextCount' = Window \/ ~ Tagged(Low - 1)'
        BY DEF Longest
    <2>1. oddRows = {} /\ contextEnd <= Position
        BY <1>10 DEF Inv, Longest
    <2>2. contextEnd <= Position'
        BY <1>0, <1>2, <2>1
    <2>3. phase # "step" \/ (Low = Position - Window => contextCount = Window)
        BY <1>0, Sizes DEF Low, Inv
    <2> QED
        BY <1>0, <1>8, <1>10, <2>1, <2>2, <2>3, ContextKept
<1>14. oddTaps' \subseteq 0 .. Capacity /\ Position' <= Capacity /\ Position < Position'
    <2>1. Position' <= Capacity /\ Position < Position'
        BY <1>0, <1>2
    <2>2. oddTaps' \subseteq oddTaps
        OBVIOUS
    <2> QED
        BY <1>0, <2>1, <2>2
<1> QED
    BY <1>2, <1>4, <1>8, <1>9, <1>11, <1>12, <1>13, <1>14

\* A text that grew still begins with its checkpoint.
LEMMA TurnStays ==
    ASSUME Inv, turn' = turn, text' \in Seq(Token), Position < Position',
           text # << >>, FirstTokens(text', Position) = text
    PROVE  TurnKept'
<1> SUFFICES ASSUME turn # << >>
             PROVE  Len(turn) <= Position' /\ FirstTokens(text', Len(turn)) = turn
    BY DEF TurnKept
<1>1. /\ Len(turn) <= Position /\ FirstTokens(text, Len(turn)) = turn
      /\ Len(turn) \in Nat /\ Position \in Nat /\ Len(turn) >= 1 /\ Position' \in Nat
    <2>1. turn \in Seq(Token) /\ Len(turn) \in Nat /\ Position \in Nat
        BY Sizes DEF Inv
    <2> QED
        BY <2>1, EmptySeq, LenProperties DEF Inv, TurnKept, Position
<1>2. Position \in 0 .. Len(text') /\ Len(turn) \in 1 .. Position
    BY <1>1 DEF Position
<1>3. FirstTokens(FirstTokens(text', Position), Len(turn)) = FirstTokens(text', Len(turn))
    BY <1>2, FirstOfFirst
<1>4. Len(turn) <= Position'
    BY <1>1
<1>5. FirstTokens(text, Len(turn)) = FirstTokens(text', Len(turn))
    BY <1>3
<1> QED
    BY <1>1, <1>4, <1>5

LEMMA PlainTokenStep ==
    ASSUME Inv, NEW token \in Token, PlainToken(token)
    PROVE  Inv'
<1>0. /\ text \in Seq(Token) /\ Position \in Nat /\ Position = Len(text)
      /\ <<token>> \in Seq(Token) /\ Len(<<token>>) = 1 /\ Capacity \in Nat
    BY Sizes DEF Inv, Position
<1>1. /\ phase = "plain" /\ phase' = "plain" /\ Position + 1 < Capacity
      /\ text' = Append(text, token)
      /\ Capture(tags, text', Position, {}) /\ oddTaps' = oddTaps \ {Position}
      /\ turn' = turn /\ system' = system /\ UNCHANGED contextVars /\ block' = block
    BY DEF PlainToken, slotVars
<1>2. text' = text \o <<token>> /\ FirstTokens(<<token>>, 1) = <<token>>
    BY <1>0, <1>1, AppendIsConcat, SubSeqFull DEF FirstTokens
<1>3. Positions(Position, Position + 1) = {Position}
    BY <1>0 DEF Positions
<1>4. /\ text' \in Seq(Token) /\ Position' <= Capacity
      /\ taps' \in [TapRows -> Content] /\ tags' \in [TapRows -> 0 .. Capacity]
      /\ oddTaps' \subseteq 0 .. Capacity
      /\ TapsFollow' /\ RowsFollow' /\ OddBelow' /\ EmptyContext' /\ Longest'
      /\ FirstTokens(text', Position) = text /\ Position < Position'
    <2> DEFINE more == <<token>>
    <2>1. more \in Seq(Token) /\ Len(more) = 1
        BY <1>0
    <2>2. text' = text \o more /\ FirstTokens(more, 1) = more
        BY <1>2
    <2> HIDE DEF more
    <2>3. /\ 1 \in 0 .. Len(more) /\ 1 > 0 /\ Position + Len(more) <= Capacity
          /\ phase \in {"plain", "step"} /\ phase' # "step"
          /\ Capture(tags, text \o more, Position, {})
          /\ text' = text \o FirstTokens(more, 1)
          /\ oddTaps' = oddTaps \ Positions(Position, Position + Len(more))
          /\ phase = "step" => contextEnd = Position
        BY <1>0, <1>1, <1>3, <2>1, <2>2
    <2> QED
        BY <1>1, <2>1, <2>3, GrowStep
<1>5. TypeOK'
    BY <1>1, <1>4 DEF Inv, TypeOK, contextVars, Position
<1>6. TurnKept'
    <2>1. text # << >>
        BY <1>1 DEF Inv, EmptyContext
    <2> QED
        BY <1>1, <1>4, <2>1, TurnStays
<1>7. Fits' /\ Covered'
    BY <1>1 DEF Fits, Covered
<1> QED
    BY <1>4, <1>5, <1>6, <1>7 DEF Inv

LEMMA EndReplyStep ==
    ASSUME Inv, EndReply
    PROVE  Inv'
<1>1. /\ phase # "step" /\ phase' = "idle" /\ text' = text /\ turn' = turn /\ system' = system
      /\ taps' = taps /\ tags' = tags /\ oddTaps' = oddTaps /\ rows' = rows
      /\ contextEnd' = contextEnd /\ contextCount' = contextCount /\ oddRows' = oddRows
      /\ block' = block
    BY DEF EndReply, slotVars, tapVars, contextVars
<1>2. TypeOK' /\ Fits' /\ Covered'
    BY <1>1 DEF Inv, TypeOK, Fits, Covered, Position
<1>3. TapsFollow' /\ RowsFollow' /\ OddBelow' /\ EmptyContext' /\ TurnKept'
    BY <1>1 DEF Inv, TapsFollow, RowsFollow, OddBelow, EmptyContext, TurnKept, Position,
       FollowsText, RowOfPosition
<1>4. Longest'
    BY <1>1 DEF Inv, Longest, Low, Tagged, Position
<1> QED
    BY <1>2, <1>3, <1>4 DEF Inv

\* There is a longest run of tags up to the position, and it is the choice.
LEMMA RebuildFacts ==
    ASSUME Inv
    PROVE  /\ RebuildStart \in Nat /\ RebuildStart <= Position
           /\ TagsCover(RebuildStart, Position)
           /\ \/ RebuildStart = 0 \/ RebuildStart = Position - Window
              \/ ~ Tagged(RebuildStart - 1)
<1> DEFINE floor == Greater(0, Position - Window)
           S == {p \in floor .. Position : TagsCover(p, Position)}
<1>1. /\ Position \in Nat /\ Window \in Nat /\ floor \in Nat /\ floor <= Position
      /\ floor = 0 \/ floor = Position - Window
    BY Sizes DEF Inv, Greater
<1> HIDE DEF floor
<1>2. Position \in S
    BY <1>1 DEF TagsCover, Positions
<1>3. PICK p \in S : \A q \in S : p <= q
    <2>1. S \subseteq Nat
        BY <1>1
    <2> QED
        BY <1>2, <2>1, Least
<1>4. p > floor => ~ Tagged(p - 1)
    <2> SUFFICES ASSUME p > floor, Tagged(p - 1)
                 PROVE  FALSE
        OBVIOUS
    <2>1. p \in Nat /\ p - 1 \in floor .. Position /\ ~ (p <= p - 1)
        BY <1>1
    <2>2. \A q \in Positions(p - 1, Position) : q = p - 1 \/ q \in Positions(p, Position)
        BY <1>1, <2>1 DEF Positions
    <2>3. p - 1 \in S
        BY <2>1, <2>2 DEF TagsCover
    <2> QED
        BY <1>3, <2>1, <2>3
<1>5. \E r \in floor .. Position : /\ TagsCover(r, Position)
                                   /\ r > floor => ~ Tagged(r - 1)
    BY <1>4
<1>6. /\ RebuildStart \in floor .. Position
      /\ TagsCover(RebuildStart, Position)
      /\ RebuildStart > floor => ~ Tagged(RebuildStart - 1)
    BY <1>5 DEF RebuildStart, floor
<1> HIDE DEF S
<1> QED
    BY <1>1, <1>6

LEMMA BeginStepStep ==
    ASSUME Inv, BeginStep
    PROVE  Inv'
<1>0. /\ text \in Seq(Token) /\ Position \in Nat /\ Capacity \in Nat /\ Block \in Nat
      /\ Block >= 2 /\ contextEnd \in Nat /\ contextCount \in Nat /\ Window \in Nat
    BY Sizes, RingAssumption DEF Inv
<1>1. /\ phase = "reply" /\ Position + 2 <= Capacity /\ phase' = "step"
      /\ block' = Smaller(Block, Capacity - Position)
      /\ text' = text /\ turn' = turn /\ system' = system /\ taps' = taps /\ tags' = tags
      /\ oddTaps' = oddTaps /\ rows' = rows
    BY DEF BeginStep, slotVars, tapVars
<1>2. block' \in 2 .. Block /\ Position + block' <= Capacity /\ Position' = Position
    BY <1>0, <1>1 DEF Smaller, Position
<1>3. TapsFollow' /\ EmptyContext' /\ TurnKept' /\ Fits'
    <2>1. text # << >>
        BY <1>1 DEF Inv, EmptyContext
    <2> QED
        BY <1>1, <1>2, <2>1 DEF Inv, TapsFollow, EmptyContext, TurnKept, Fits
<1>4. CASE Appends /\ UNCHANGED <<contextEnd, contextCount, oddRows>>
    <2>1. /\ contextEnd <= Position /\ TagsCover(contextEnd, Position)
          /\ contextEnd' = contextEnd /\ contextCount' = contextCount /\ oddRows' = oddRows
        BY <1>4 DEF Appends
    <2>2. TypeOK'
        BY <1>0, <1>1, <1>2, <2>1 DEF Inv, TypeOK
    <2>3. Covered'
        BY <1>1, <1>2, <2>1 DEF Covered, TagsCover, Tagged
    <2>4. RowsFollow' /\ OddBelow' /\ Longest'
        BY <1>1, <1>2, <2>1 DEF Inv, RowsFollow, FollowsText, RowOfPosition, OddBelow,
           Longest, Low, Tagged
    <2> QED
        BY <1>3, <2>2, <2>3, <2>4 DEF Inv
<1>5. CASE /\ contextEnd' = RebuildStart /\ contextCount' = 0 /\ oddRows' = {}
    <2>1. /\ contextEnd' \in Nat /\ contextEnd' <= Position
          /\ TagsCover(contextEnd', Position)
          /\ \/ contextEnd' = 0 \/ contextEnd' = Position - Window
             \/ ~ Tagged(contextEnd' - 1)
        BY <1>5, RebuildFacts
    <2>2. TypeOK'
        <3>1. contextEnd' \in 0 .. Capacity /\ contextCount' \in 0 .. Smaller(Window, contextEnd')
            BY <1>0, <1>1, <1>5, <2>1 DEF Smaller
        <3>2. block' \in 0 .. Block
            BY <1>0, <1>2
        <3> QED
            BY <1>1, <1>2, <1>5, <3>1, <3>2 DEF Inv, TypeOK
    <2>3. Covered'
        BY <1>1, <1>2, <2>1 DEF Covered, TagsCover, Tagged
    <2>4. RowsFollow' /\ OddBelow'
        BY <1>5, <2>1 DEF RowsFollow, OddBelow, Positions
    <2>5. Low' = contextEnd'
        BY <1>5, <2>1 DEF Low
    <2>6. ~ Tagged(contextEnd' - 1) => ~ Tagged(Low - 1)'
        BY <1>1, <2>5 DEF Tagged
    <2>7. Longest'
        BY <1>1, <1>2, <2>1, <2>5, <2>6 DEF Longest
    <2> QED
        BY <1>3, <2>2, <2>3, <2>4, <2>7 DEF Inv
<1> QED
    BY <1>4, <1>5 DEF BeginStep

\* There is a largest chunk that fits.
LEMMA ChunkFacts ==
    ASSUME Inv, contextEnd < Position
    PROVE  /\ NextChunk \in Nat /\ NextChunk >= 1 /\ NextChunk <= Window
           /\ contextEnd + NextChunk <= Position
<1> DEFINE S == {n \in ChunkSizes : n <= Position - contextEnd}
<1>1. /\ Position \in Nat /\ contextEnd \in Nat /\ Window \in Nat
      /\ ChunkSizes \subseteq 1 .. Window /\ 1 \in ChunkSizes
    BY Sizes, RingAssumption DEF Inv
<1>2. S \subseteq Nat /\ 1 \in S /\ \A n \in S : n <= Window
    <2>1. \A n \in S : n \in Nat /\ n <= Window
        BY <1>1
    <2>2. 1 <= Position - contextEnd
        BY <1>1
    <2> QED
        BY <1>1, <2>1, <2>2
<1>3. PICK n \in S : \A m \in S : m <= n
    BY <1>1, <1>2, Greatest
<1>4. /\ NextChunk \in ChunkSizes /\ NextChunk <= Position - contextEnd
    BY <1>3 DEF NextChunk
<1> QED
    BY <1>1, <1>4

\* One chunk of the context: its rows come from taps of the text, and no row
\* that still counts is overwritten.
LEMMA FillContextStep ==
    ASSUME Inv, FillContext
    PROVE  Inv'
<1> DEFINE n == NextChunk
           filled == Positions(contextEnd, contextEnd + n)
<1>0. /\ text \in Seq(Token) /\ Position \in Nat /\ Capacity \in Nat /\ Window \in Nat \ {0}
      /\ contextEnd \in Nat /\ contextCount \in Nat /\ contextCount <= contextEnd
      /\ contextCount <= Window /\ Position <= Capacity
    BY Sizes DEF Inv
<1>1. /\ phase = "step" /\ contextEnd < Position /\ phase' = "step" /\ text' = text
      /\ rows' = [i \in DraftRows |->
                     IF \E p \in filled : p % Window = i
                     THEN TapOf(LastOn(i, Window, filled)) ELSE rows[i]]
      /\ contextEnd' = contextEnd + n /\ contextCount' = Smaller(Window, contextCount + n)
      /\ oddRows' = (oddRows \ filled) \cup (filled \cap oddTaps)
      /\ turn' = turn /\ system' = system /\ block' = block
      /\ taps' = taps /\ tags' = tags /\ oddTaps' = oddTaps
    BY DEF FillContext, GrownContext, slotVars, tapVars
<1>2. n \in Nat /\ n >= 1 /\ n <= Window /\ contextEnd + n <= Position
    BY <1>1, ChunkFacts
<1> HIDE DEF n
<1>3. /\ contextEnd' \in Nat /\ contextCount' \in Nat /\ contextEnd' <= Position
      /\ contextCount' <= contextEnd' /\ contextCount' <= Window
      /\ contextCount' = Window \/ contextCount' = contextCount + n
      /\ contextCount' <= contextCount + n
    BY <1>0, <1>1, <1>2 DEF Smaller
<1>4. \A p \in filled : /\ p \in Nat /\ p >= contextEnd /\ p < contextEnd + n /\ p < Position
    BY <1>0, <1>2 DEF Positions
<1>5. ASSUME NEW p \in filled
      PROVE  /\ TapOf(p) \in Content
             /\ p \notin oddTaps => TapOf(p) = FirstTokens(text, p + 1)
    <2>1. Tagged(p) /\ p \in Nat /\ p + 1 <= Position
        <3>1. p \in Positions(contextEnd, Position)
            BY <1>0, <1>2, <1>4 DEF Positions
        <3>2. TagsCover(contextEnd, Position)
            BY <1>1 DEF Inv, Covered
        <3> QED
            BY <1>0, <1>4, <3>1, <3>2 DEF TagsCover
    <2>2. p % (Window + 1) \in TapRows
        <3>1. PICK m \in Nat \ {0} : m = Window + 1
            BY <1>0
        <3>2. p % m \in 0 .. m - 1
            BY <2>1, <3>1, SlotRange
        <3> QED
            BY <1>0, <3>1, <3>2 DEF TapRows
    <2>3. PICK i \in TapRows : i = p % (Window + 1)
        BY <2>2
    <2>4. tags[i] = p + 1 /\ TapOf(p) = taps[i] /\ taps[i] \in Content
        BY <2>1, <2>3 DEF Tagged, TapOf, Inv, TypeOK
    <2>5. tags[i] # 0 /\ tags[i] <= Position /\ tags[i] - 1 = p
        BY <1>0, <2>1, <2>4
    <2> QED
        BY <2>4, <2>5 DEF Inv, TapsFollow, TapsTell
<1>6. ASSUME NEW p \in Nat
      PROVE  p % Window \in DraftRows
    BY <1>0, <1>6, SlotRange DEF DraftRows
<1>7. ASSUME NEW i, \E p \in filled : p % Window = i
      PROVE  LastOn(i, Window, filled) \in filled /\ LastOn(i, Window, filled) % Window = i
    <2>1. PICK p \in filled : p % Window = i
        BY <1>7
    <2>2. PICK to \in Nat : to = contextEnd + n
        BY <1>0, <1>2
    <2>3. p \in Positions(contextEnd, to) /\ filled = Positions(contextEnd, to)
        BY <2>2
    <2>4. LET l == LastOn(i, Window, Positions(contextEnd, to))
          IN  l \in Positions(contextEnd, to) /\ l % Window = i
        BY ONLY <1>0, <2>1, <2>3, LastOnFacts, to \in Nat
    <2> QED
        BY <2>3, <2>4
<1> HIDE DEF filled
<1>8. TypeOK'
    <2>1. \A i \in DraftRows : rows'[i] \in Content
        <3> SUFFICES ASSUME NEW i \in DraftRows
                     PROVE  rows'[i] \in Content
            OBVIOUS
        <3>1. CASE \E p \in filled : p % Window = i
            BY <1>1, <1>5, <1>7, <3>1
        <3>2. CASE ~ \E p \in filled : p % Window = i
            BY <1>1, <3>2 DEF Inv, TypeOK
        <3> QED
            BY <3>1, <3>2
    <2>2. rows' \in [DraftRows -> Content]
        BY <1>1, <2>1
    <2>3. contextEnd' \in 0 .. Capacity /\ contextCount' \in 0 .. Smaller(Window, contextEnd')
        BY <1>0, <1>3 DEF Smaller
    <2>4. oddRows' \subseteq 0 .. Capacity
        BY <1>1 DEF Inv, TypeOK
    <2> QED
        BY <1>1, <2>2, <2>3, <2>4 DEF Inv, TypeOK, Position
\* A row of a chunk is overwritten by no later one of it.
<1>9. ASSUME NEW p \in filled
      PROVE  rows'[p % Window] = TapOf(p)
    <2>1. PICK q \in filled : q = LastOn(p % Window, Window, filled) /\ q % Window = p % Window
        BY <1>7
    <2>2. rows'[p % Window] = TapOf(q)
        BY <1>1, <1>4, <1>6, <2>1
    <2>3. q = p
        <3>1. q - p < Window /\ p - q < Window /\ p \in Nat /\ q \in Nat
            BY <1>0, <1>2, <1>4
        <3>2. ~ (q < p) /\ ~ (p < q)
            BY <1>0, <2>1, <3>1, SlotsDiffer
        <3> QED
            BY <3>1, <3>2
    <2> QED
        BY <2>2, <2>3
\* A row of the context that still counts is not overwritten by the chunk.
<1>10. ASSUME NEW p \in Positions(contextEnd' - contextCount', contextEnd), p \notin filled
       PROVE  /\ p \in Nat /\ p \in Positions(contextEnd - contextCount, contextEnd)
              /\ rows'[p % Window] = rows[p % Window]
    <2>1. /\ p \in Nat /\ p < contextEnd /\ p >= contextEnd + n - Window
          /\ p \in Positions(contextEnd - contextCount, contextEnd)
        BY <1>0, <1>1, <1>2, <1>3 DEF Positions
    <2>2. ASSUME NEW q \in filled
          PROVE  q % Window # p % Window
        <3>1. q \in Nat /\ p < q /\ q - p < Window
            BY <1>0, <1>2, <1>4, <2>1
        <3> QED
            BY <1>0, <2>1, <3>1, SlotsDiffer
    <2> QED
        BY <1>1, <1>6, <2>1, <2>2
<1>11. RowsFollow'
    <2> SUFFICES ASSUME NEW p \in Positions(contextEnd' - contextCount', contextEnd'),
                        p \notin oddRows'
                 PROVE  p < Position /\ rows'[p % Window] = FirstTokens(text, p + 1)
        BY <1>1 DEF RowsFollow, FollowsText, RowOfPosition, Position
    <2>1. CASE p \in filled
        BY <1>1, <1>4, <1>5, <1>9, <2>1
    <2>2. CASE p \notin filled
        <3>1. p \in Positions(contextEnd' - contextCount', contextEnd)
            BY <1>0, <1>1, <1>2, <1>3, <2>2 DEF Positions, filled
        <3>2. p \in Positions(contextEnd - contextCount, contextEnd) /\ p \notin oddRows
              /\ rows'[p % Window] = rows[p % Window]
            BY <1>1, <1>10, <2>2, <3>1
        <3> QED
            BY <3>2 DEF Inv, RowsFollow, FollowsText, RowOfPosition
    <2> QED
        BY <2>1, <2>2
<1>12. OddBelow'
    <2>1. filled \subseteq Positions(0, contextEnd')
        BY <1>0, <1>1, <1>2, <1>4 DEF Positions
    <2>2. Positions(0, contextEnd) \subseteq Positions(0, contextEnd')
        BY <1>0, <1>1, <1>2 DEF Positions
    <2> QED
        BY <1>1, <2>1, <2>2 DEF Inv, OddBelow
<1>13. Longest'
    <2> SUFFICES ASSUME oddRows' = {}
                 PROVE  /\ contextEnd' <= Position'
                        /\ \/ Low' = 0 \/ contextCount' = Window
                           \/ ~ Tagged(Low - 1)'
                           \/ Low' = Position' - Window
        BY <1>1 DEF Longest
    <2>1. oddRows = {}
        <3>1. \A p \in oddRows : p \in Nat /\ p < contextEnd
            BY <1>0 DEF Inv, OddBelow, Positions
        <3>2. \A p \in oddRows : p \notin filled
            BY <1>0, <1>4, <3>1
        <3> QED
            BY <1>1, <3>2
    <2>2. \/ Low = 0 \/ contextCount = Window \/ ~ Tagged(Low - 1) \/ Low = Position - Window
        BY <2>1 DEF Inv, Longest
    <2>3. contextCount' = Window \/ Low' = Low
        BY <1>0, <1>1, <1>2, <1>3 DEF Low
    <2>4. contextCount = Window => contextCount' = Window
        BY <1>0, <1>1, <1>2 DEF Smaller
    <2>5. Low' = Low /\ ~ Tagged(Low - 1) => ~ Tagged(Low - 1)'
        BY <1>1 DEF Tagged
    <2>6. Position' = Position
        BY <1>1 DEF Position
    <2> QED
        BY <1>3, <2>2, <2>3, <2>4, <2>5, <2>6
<1>14. Covered'
    <2>1. \A p \in Positions(contextEnd', Position) : p \in Positions(contextEnd, Position)
        BY <1>0, <1>1, <1>2, <1>3 DEF Positions
    <2> QED
        BY <1>1, <1>3, <2>1 DEF Inv, Covered, TagsCover, Tagged, Position
<1>15. TapsFollow' /\ EmptyContext' /\ TurnKept' /\ Fits'
    <2>1. text # << >>
        BY <1>1 DEF Inv, EmptyContext
    <2> QED
        BY <1>1, <2>1 DEF Inv, TapsFollow, EmptyContext, TurnKept, Fits, Position
<1> QED
    BY <1>8, <1>11, <1>12, <1>13, <1>14, <1>15 DEF Inv

LEMMA VerifyStep ==
    ASSUME Inv, NEW chain \in Chains, NEW kept \in 1 .. Len(chain), Verify(chain, kept)
    PROVE  Inv'
<1>0. chain \in Seq(Token) /\ Len(chain) \in Nat
    <2>1. PICK n \in 2 .. Block : chain \in [1 .. n -> Token]
        BY DEF Chains
    <2>2. n \in Nat
        BY <2>1, RingAssumption
    <2>3. chain \in Seq(Token)
        BY <2>1, <2>2, SeqDef
    <2> QED
        BY <2>3, LenProperties
<1>1. /\ phase = "step" /\ contextEnd = Position /\ Len(chain) = block
      /\ text' = text \o FirstTokens(chain, kept)
      /\ Capture(tags, text \o chain, Position, {})
      /\ oddTaps' = oddTaps \ Positions(Position, Position + Len(chain))
      /\ phase' = "reply" /\ turn' = turn /\ system' = system /\ UNCHANGED contextVars
      /\ block' = block
    BY DEF Verify, Proposing, slotVars
<1>2. /\ text' \in Seq(Token) /\ Position' <= Capacity
      /\ taps' \in [TapRows -> Content] /\ tags' \in [TapRows -> 0 .. Capacity]
      /\ oddTaps' \subseteq 0 .. Capacity
      /\ TapsFollow' /\ RowsFollow' /\ OddBelow' /\ EmptyContext' /\ Longest'
      /\ FirstTokens(text', Position) = text /\ Position < Position'
    <2>1. /\ kept \in 0 .. Len(chain) /\ kept > 0
          /\ Position + Len(chain) <= Capacity
          /\ phase \in {"plain", "step"} /\ phase' # "step"
        BY <1>0, <1>1 DEF Inv, Fits
    <2> QED
        BY <1>0, <1>1, <2>1, GrowStep
<1>3. TypeOK'
    BY <1>1, <1>2 DEF Inv, TypeOK, contextVars, Position
<1>4. TurnKept'
    <2>1. text # << >>
        BY <1>1 DEF Inv, EmptyContext
    <2> QED
        BY <1>1, <1>2, <2>1, TurnStays
<1>5. Fits' /\ Covered'
    BY <1>1 DEF Fits, Covered
<1> QED
    BY <1>2, <1>3, <1>4, <1>5 DEF Inv

-----------------------------------------------------------------------------
(* The theorems.                                                           *)

LEMMA InvInit == Init => Inv
<1> SUFFICES ASSUME Init
             PROVE  Inv
    OBVIOUS
<1>1. /\ phase = "idle" /\ text = << >> /\ turn = << >> /\ system = << >>
      /\ taps = [i \in TapRows |-> Zeroed] /\ tags = NoTags
      /\ rows = [i \in DraftRows |-> Zeroed] /\ contextEnd = 0 /\ contextCount = 0
      /\ block = 0 /\ oddTaps = {} /\ oddRows = {}
    BY DEF Init, NoTags
<1>2. << >> \in Seq(Token) /\ Position = 0 /\ Capacity \in Nat
    BY <1>1, EmptySeq, LayerAssumption DEF Position
<1>3. TypeOK
    BY <1>1, <1>2, NoTagsType, ContentFacts, RingAssumption DEF TypeOK, Position, Smaller
<1>4. TapsFollow
    BY <1>1 DEF TapsFollow, TapsTell, NoTags
<1>5. RowsFollow /\ OddBelow /\ Longest
    BY <1>1, <1>2 DEF RowsFollow, OddBelow, Longest, Low, Positions
<1>6. EmptyContext /\ TurnKept /\ Fits /\ Covered
    BY <1>1 DEF EmptyContext, TurnKept, Fits, Covered
<1> QED
    BY <1>3, <1>4, <1>5, <1>6 DEF Inv

LEMMA InvNext == Inv /\ [Next]_vars => Inv'
<1> SUFFICES ASSUME Inv, [Next]_vars
             PROVE  Inv'
    OBVIOUS
<1>1. ASSUME NEW prompt \in Prompts, NEW boundary \in Boundaries(prompt),
             FailAfterPrefix(prompt, boundary)
      PROVE  Inv'
    BY <1>1, PrefixFacts, ForgetStep DEF FailAfterPrefix
<1>2. CASE Request
    BY <1>1, <1>2, ContinueHistoryStep, RestoreTurnStep, RestoreSystemStep, StartOverStep
       DEF Request
<1>3. CASE Fail
    BY <1>3, Sizes, ForgetStep DEF Fail, Inv
<1>4. CASE \E token \in Token : PlainToken(token)
    BY <1>4, PlainTokenStep
<1>5. CASE EndReply
    BY <1>5, EndReplyStep
<1>6. CASE Step
    BY <1>6, BeginStepStep, FillContextStep, VerifyStep DEF Step
<1>7. CASE UNCHANGED vars
    <2>1. /\ phase' = phase /\ text' = text /\ turn' = turn /\ system' = system
          /\ taps' = taps /\ tags' = tags /\ oddTaps' = oddTaps /\ rows' = rows
          /\ contextEnd' = contextEnd /\ contextCount' = contextCount /\ oddRows' = oddRows
          /\ block' = block
        BY <1>7 DEF vars, slotVars, tapVars, contextVars
    <2>2. TypeOK' /\ Fits' /\ Covered'
        BY <2>1 DEF Inv, TypeOK, Fits, Covered, Position, TagsCover, Tagged
    <2>3. TapsFollow' /\ RowsFollow' /\ OddBelow' /\ EmptyContext' /\ TurnKept'
        BY <2>1 DEF Inv, TapsFollow, RowsFollow, OddBelow, EmptyContext, TurnKept, Position,
           FollowsText, RowOfPosition
    <2>4. Longest'
        BY <2>1 DEF Inv, Longest, Low, Tagged, Position
    <2> QED
        BY <2>2, <2>3, <2>4 DEF Inv
<1> QED
    BY <1>2, <1>3, <1>4, <1>5, <1>6, <1>7 DEF Next

\* The rings agree with the text in every phase of a request, also between
\* a rewind and the next proposal: the invariant of every property below.
THEOREM RingInvariant == Spec => []Inv
BY InvInit, InvNext, PTL DEF Spec

\* Rings, tags and spans have their ranges; a count never exceeds its ring
\* nor the positions there are (DraftRing!TypeOK).
THEOREM RingTypes == Spec => []TypeOK
<1>1. Inv => TypeOK
    BY DEF Inv
<1> QED
    BY <1>1, RingInvariant, PTL

\* When a step proposes, every row the drafter attends to is of the present
\* text, but for the rows in doubt: for any sizes of the two rings, any block
\* and any chunks (dflash_update_context, dflash_propose).
THEOREM ContextCorrect == Spec => []ContextFollowsText
<1>1. Inv => ContextFollowsText
    BY DEF Inv, RowsFollow, ContextFollowsText, Proposing, Attended
<1> QED
    BY <1>1, RingInvariant, PTL

\* It attends to as many positions as it can: its context ends where the tap
\* is gone, or fills the window, or is the whole text.
THEOREM ContextLongest == Spec => []ContextIsLongest
<1>1. ASSUME Inv, Proposing, oddRows = {}, contextCount < Smaller(Window, Position)
      PROVE  ~ Tagged(Position - contextCount - 1)
    <2>1. /\ Position \in Nat /\ Window \in Nat /\ contextCount \in Nat
          /\ contextCount < Window /\ contextCount < Position
          /\ contextEnd = Position /\ Low = Position - contextCount
        BY <1>1, Sizes DEF Inv, Smaller, Proposing, Low
    <2>2. ~ Tagged(Low - 1)
        BY <1>1, <2>1 DEF Inv, Longest
    <2> QED
        BY <2>1, <2>2
<1>2. Inv => ContextIsLongest
    BY <1>1 DEF ContextIsLongest
<1> QED
    BY <1>2, RingInvariant, PTL

=============================================================================
