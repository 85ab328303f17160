-------------------------- MODULE ModelBuild_proofs --------------------------
(***************************************************************************)
(* What the model compiler keeps, for every set of layers and checkpoints, *)
(* any arguments, and any number of invocations, kills and full disks.     *)
(***************************************************************************)
EXTENDS ModelBuild, WellFoundedInduction, SequenceTheorems, TLAPS

-----------------------------------------------------------------------------
(* Images, their order and their plans.                                    *)

\* A set of layers has a least one.
LEMMA LeastLayer ==
    ASSUME NEW S, S \subseteq Nat, S # {}
    PROVE  \E l \in S : \A n \in S : l <= n
<1> DEFINE R == {p \in Nat \X Nat : p[1] < p[2]}
<1>1. IsWellFoundedOn(R, Nat)
    BY ONLY NatLessThanWellFounded DEF OpToRel
<1> HIDE DEF R
<1>2. PICK l \in S : \A n \in S : ~ (<<n, l>> \in R)
    BY <1>1, WFMin
<1>3. \A n \in S : ~ (n < l)
    BY <1>2 DEF R
<1> QED
    BY <1>3

\* An image is a layer or one of the five others.
LEMMA ImageCases ==
    ASSUME NEW i \in Images
    PROVE  \/ \E l \in Layers : i = Layer(l)
           \/ i \in {Global, Tokenizer, Draft, MtpLayer, Mtp}
BY DEF Images, Targets

\* The phase a set of images is worked in has a first one, and it is in it.
LEMMA FirstFacts ==
    ASSUME NEW S, S \subseteq Images, S # {}
    PROVE  First(S) \in S
<1>1. ASSUME \E l \in Layers : Layer(l) \in S
      PROVE  \E i \in S : \A j \in S : Before(i, j)
    <2> DEFINE L == {l \in Layers : Layer(l) \in S}
    <2>1. L \subseteq Nat /\ L # {}
        BY <1>1, BuildAssumption
    <2>2. PICK l \in L : \A n \in L : l <= n
        BY <2>1, LeastLayer
    <2>3. \A j \in S : Before(Layer(l), j)
        <3> SUFFICES ASSUME NEW j \in S
                     PROVE  Before(Layer(l), j)
            OBVIOUS
        <3>1. CASE \E n \in Layers : j = Layer(n)
            <4>1. PICK n \in Layers : j = Layer(n)
                BY <3>1
            <4>2. l <= n
                BY <2>2, <4>1
            <4> QED
                BY <4>1, <4>2 DEF Before, Layer, Position
        <3>2. CASE j \in {Global, Tokenizer, Draft, MtpLayer, Mtp}
            BY <3>2 DEF Before, Layer, Position, Global, Tokenizer, Draft, MtpLayer, Mtp
        <3> QED
            BY <3>1, <3>2, ImageCases
    <2> QED
        BY <2>2, <2>3
<1>2. ASSUME ~ \E l \in Layers : Layer(l) \in S
      PROVE  \E i \in S : \A j \in S : Before(i, j)
    <2>1. S \subseteq {Global, Tokenizer, Draft, MtpLayer, Mtp}
        BY <1>2, ImageCases
    <2>2. /\ \A j \in {Global, Tokenizer, Draft, MtpLayer, Mtp} : Before(Global, j)
          /\ \A j \in {Tokenizer, Draft, MtpLayer, Mtp} : Before(Tokenizer, j)
          /\ \A j \in {Draft, MtpLayer, Mtp} : Before(Draft, j)
          /\ \A j \in {MtpLayer, Mtp} : Before(MtpLayer, j)
          /\ Before(Mtp, Mtp)
        BY DEF Before, Position, Global, Tokenizer, Draft, MtpLayer, Mtp
    <2> QED
        BY <2>1, <2>2
<1> QED
    BY <1>1, <1>2 DEF First

Kinds == {"header", "q4", "vec", "q8", "source"}

\* Which plan an image has.
LEMMA PlanCases ==
    ASSUME NEW i \in Images
    PROVE  \/ i \in Delta /\ Plan(i) = DeltaPlan
           \/ i \in Targets \ (Delta \cup {Global}) /\ Plan(i) = AttentionPlan
           \/ i = Global /\ Plan(i) = GlobalPlan
           \/ /\ i \notin Targets
              /\ Plan(i) \in {TokenizerPlan, MtpLayerPlan, MtpPlan, DraftPlan}
<1>1. \A l : Layer(l) \notin {Global, Tokenizer, Draft, MtpLayer, Mtp}
    BY DEF Layer, Global, Tokenizer, Draft, MtpLayer, Mtp
<1>2. /\ Tokenizer # Global /\ Draft \notin {Global, Tokenizer}
      /\ MtpLayer \notin {Global, Tokenizer, Draft}
      /\ Mtp \notin {Global, Tokenizer, Draft, MtpLayer}
    BY DEF Global, Tokenizer, Draft, MtpLayer, Mtp
<1>3. Delta \subseteq Targets \ {Global}
    BY <1>1 DEF Delta, Targets
<1>4. CASE i \in Targets \ {Global}
    <2>1. i \notin {Global, Tokenizer, Draft, MtpLayer, Mtp}
        BY <1>1, <1>4 DEF Targets
    <2> QED
        BY <1>4, <2>1 DEF Plan
<1>5. CASE i = Global
    <2>1. i \notin Delta /\ i \notin {Tokenizer, Draft, MtpLayer, Mtp}
        BY <1>2, <1>3, <1>5
    <2> QED
        BY <1>5, <2>1 DEF Plan
<1>6. CASE i \in {Tokenizer, Draft, MtpLayer, Mtp}
    <2>1. i \notin Targets /\ i \notin Delta
        BY <1>1, <1>2, <1>3, <1>6 DEF Targets
    <2> QED
        BY <1>2, <1>6, <2>1 DEF Plan
<1> QED
    BY <1>4, <1>5, <1>6 DEF Images

\* A plan is not empty; what it takes from the planes is there to be taken;
\* and a layer's ends with a segment that is compared.
LEMMA PlanFacts ==
    ASSUME NEW i \in Images
    PROVE  /\ Len(Plan(i)) \in Nat \ {0}
           /\ DOMAIN Plan(i) = 1 .. Len(Plan(i))
           /\ \A k \in 1 .. Len(Plan(i)) :
                  /\ Plan(i)[k] \in {"q4", "vec"} => i \in Targets
                  /\ Plan(i)[k] = "q8" => i \in Delta
           /\ i \in Targets \ {Global} => Plan(i)[Len(Plan(i))] = "q4"
<1> DEFINE Sound(p) == /\ Len(p) \in Nat \ {0}
                       /\ DOMAIN p = 1 .. Len(p)
<1>1. CASE i \in Delta /\ Plan(i) = DeltaPlan
    <2>1. /\ DeltaPlan \in Seq(Kinds) /\ Len(DeltaPlan) = 5
          /\ DeltaPlan[5] = "q4"
        BY DEF DeltaPlan, Kinds
    <2>2. Sound(DeltaPlan)
        BY <2>1, LenProperties
    <2> QED
        BY <1>1, <2>1, <2>2 DEF Delta, Targets
<1>2. CASE i \in Targets \ (Delta \cup {Global}) /\ Plan(i) = AttentionPlan
    <2>1. /\ AttentionPlan \in Seq(Kinds) /\ Len(AttentionPlan) = 4
          /\ AttentionPlan[4] = "q4"
          /\ \A k \in 1 .. 4 : AttentionPlan[k] # "q8"
        BY DEF AttentionPlan, Kinds
    <2>2. Sound(AttentionPlan)
        BY <2>1, LenProperties
    <2> QED
        BY <1>2, <2>1, <2>2
<1>3. CASE i = Global /\ Plan(i) = GlobalPlan
    <2>1. /\ GlobalPlan \in Seq(Kinds) /\ Len(GlobalPlan) = 3
          /\ \A k \in 1 .. 3 : GlobalPlan[k] # "q8"
        BY DEF GlobalPlan, Kinds
    <2>2. Sound(GlobalPlan)
        BY <2>1, LenProperties
    <2> QED
        BY <1>3, <2>1, <2>2 DEF Targets
<1>4. CASE /\ i \notin Targets
           /\ Plan(i) \in {TokenizerPlan, MtpLayerPlan, MtpPlan, DraftPlan}
    <2> DEFINE Small(p) == /\ p \in Seq(Kinds) /\ Len(p) = 2
                           /\ \A k \in 1 .. 2 : p[k] \in {"header", "source"}
    <2>a. Small(TokenizerPlan)
        BY DEF TokenizerPlan, Kinds
    <2>b. Small(MtpLayerPlan)
        BY DEF MtpLayerPlan, Kinds
    <2>c. Small(MtpPlan)
        BY DEF MtpPlan, Kinds
    <2>d. Small(DraftPlan)
        BY DEF DraftPlan, Kinds
    <2>1. \A p \in {TokenizerPlan, MtpLayerPlan, MtpPlan, DraftPlan} : Small(p)
        BY <2>a, <2>b, <2>c, <2>d
    <2>2. Sound(Plan(i)) /\ Len(Plan(i)) = 2
        BY <1>4, <2>1, LenProperties
    <2> QED
        BY <1>4, <2>1, <2>2
<1> QED
    BY <1>1, <1>2, <1>3, <1>4, PlanCases

\* The type of an image's segments.
Codes == Sources \cup {0, 1}

LEMMA ContentType ==
    ASSUME TypeOK, NEW i \in Images, NEW k \in 1 .. Len(Plan(i))
    PROVE  Content(i, k) \in Codes
BY PlanFacts DEF Content, Codes, TypeOK, PlanesTyped

LEMMA CurrentFacts ==
    ASSUME TypeOK, todo # {}
    PROVE  Current \in todo /\ Current \in Images
BY FirstFacts DEF Current, TypeOK, ControlTyped

\* What the running packer copies next has the type of a segment.
LEMMA SegmentType ==
    ASSUME TypeOK, pc = "write", ~Last
    PROVE  Content(Current, Done + 1) \in Codes
<1>1. Current \in Images /\ Done <= Len(Plan(Current))
    BY CurrentFacts DEF InsideImage, TypeOK
<1>2. Done \in Nat
    BY <1>1, LenProperties DEF Done, FilesTyped, TypeOK
<1>3. Done + 1 \in 1 .. Len(Plan(Current))
    BY <1>1, <1>2, PlanFacts DEF Last
<1> QED
    BY <1>1, <1>3, ContentType

\* What one write does to the image of the running packer.
LEMMA PutFacts ==
    ASSUME TypeOK, todo # {}, NEW c \in Codes, Put(c)
    PROVE  /\ file' \in [Images -> [there : BOOLEAN, parts : Seq(Codes)]]
           /\ \A i \in Images : i # Current => file'[i] = file[i]
           /\ file'[Current].there = file[Current].there
           /\ Done \in Nat
           /\ Len(file'[Current].parts) = Done + 1
           /\ file'[Current].parts[Done + 1] = c
           /\ \A k \in 1 .. Done : file'[Current].parts[k] = file[Current].parts[k]
<1>1. Current \in Images
    BY CurrentFacts
<1>2. file \in [Images -> [there : BOOLEAN, parts : Seq(Codes)]]
    BY DEF TypeOK, FilesTyped, Codes
<1> DEFINE old == file[Current].parts
<1>3. old \in Seq(Codes)
    BY <1>1, <1>2
<1>4. /\ Append(old, c) \in Seq(Codes)
      /\ Len(Append(old, c)) = Len(old) + 1
      /\ Append(old, c)[Len(old) + 1] = c
      /\ \A k \in 1 .. Len(old) : Append(old, c)[k] = old[k]
    BY <1>3, AppendProperties
<1>5. Len(old) \in Nat
    BY <1>3, LenProperties
<1>6. /\ DOMAIN file' = Images
      /\ \A i \in Images : i # Current => file'[i] = file[i]
      /\ file'[Current] = [file[Current] EXCEPT !.parts = Append(old, c)]
      /\ file' = [i \in Images |-> file'[i]]
    BY <1>1, <1>2 DEF Put
<1>7. /\ file[Current] \in [there : BOOLEAN, parts : Seq(Codes)]
      /\ file'[Current].there = file[Current].there
      /\ file'[Current].parts = Append(old, c)
      /\ file'[Current] \in [there : BOOLEAN, parts : Seq(Codes)]
    BY <1>1, <1>2, <1>4, <1>6
<1>8. file' \in [Images -> [there : BOOLEAN, parts : Seq(Codes)]]
    BY <1>2, <1>6, <1>7
<1> QED
    BY <1>4, <1>5, <1>6, <1>7, <1>8 DEF Done

-----------------------------------------------------------------------------
(* Type correctness.                                                       *)

\* The actions of the builder and of those around it, one by one.
LEMMA NextCases ==
    ASSUME Next
    PROVE  \/ \E c \in Commands : Start(c)
           \/ Q4MakeGroup \/ Q4WritePlanes \/ Q4WriteVectors
           \/ Q8MakeGroup \/ Q8WritePlanes \/ QuantizerFatal \/ QuantizerDone
           \/ Refuse \/ TakeAsIs \/ TokenizerRefused \/ DraftRefused \/ MtpRefused
           \/ Create \/ WriteSegment \/ ShortWrite \/ PackError \/ Finalize
           \/ Packed \/ Verify \/ Report \/ Kill
           \/ (\E i \in Images : RunPacker(i)) \/ RemovePlanes
BY DEF Next, Quantize, Pack, Finish

\* The refusals end the builder before it touched anything.
LEMMA Refusals ==
    ASSUME Refuse \/ TokenizerRefused \/ DraftRefused \/ MtpRefused \/ QuantizerFatal
    PROVE  /\ pc \in {"pack", "q4", "q8"}
           /\ End("error") /\ UNCHANGED disk
BY DEF Refuse, TokenizerRefused, DraftRefused, MtpRefused, Refused, QuantizerFatal

LEMMA TargetFacts ==
    /\ Delta \subseteq Targets /\ Targets \subseteq Images
    /\ \A c : Wanted(c) \subseteq Images
    /\ Targets = (Targets \ {Global}) \cup {Global}
BY DEF Delta, Targets, Images, Wanted

\* What TypeOK says of one group of planes.
Group4 == [there : BOOLEAN, codes : Sources \cup {0}, vec : Sources \cup {0}]
Group8 == [there : BOOLEAN, codes : Sources \cup {0}, vec : {0}]

\* The planes keep their types when a group is made, filled or removed.
LEMMA PlaneUpdates ==
    ASSUME PlanesTyped, NEW g, NEW c \in Sources \cup {0}
    PROVE  /\ [q4 EXCEPT ![g].there = TRUE] \in [Targets -> Group4]
           /\ [q4 EXCEPT ![g].codes = c] \in [Targets -> Group4]
           /\ [q4 EXCEPT ![g].vec = c] \in [Targets -> Group4]
           /\ [q8 EXCEPT ![g].there = TRUE] \in [Delta -> Group8]
           /\ [q8 EXCEPT ![g].codes = c] \in [Delta -> Group8]
           /\ [h \in Targets |-> NoGroup] \in [Targets -> Group4]
           /\ [h \in Delta |-> NoGroup] \in [Delta -> Group8]
<1>1. q4 \in [Targets -> Group4] /\ q8 \in [Delta -> Group8]
    BY DEF PlanesTyped, Group4, Group8
<1>2. \A r \in Group4 : /\ [r EXCEPT !.there = TRUE] \in Group4
                        /\ [r EXCEPT !.codes = c] \in Group4
                        /\ [r EXCEPT !.vec = c] \in Group4
    BY DEF Group4
<1>3. \A r \in Group8 : /\ [r EXCEPT !.there = TRUE] \in Group8
                        /\ [r EXCEPT !.codes = c] \in Group8
    BY DEF Group8
<1>4. NoGroup \in Group4 /\ NoGroup \in Group8
    BY DEF NoGroup, Group4, Group8
<1> QED
    BY <1>1, <1>2, <1>3, <1>4

\* The packer's own step: the segment it appends.
LEMMA WriteFacts ==
    ASSUME TypeOK, pc = "write", ~Last, NEW c \in Codes, Put(c), UNCHANGED <<pc, todo>>
    PROVE  FilesTyped' /\ InsideImage'
<1>1. todo # {} /\ file[Current].there /\ Done <= Len(Plan(Current))
    BY DEF TypeOK, InsideImage
<1>2. Current' = Current
    BY DEF Current
<1>3. /\ file' \in [Images -> [there : BOOLEAN, parts : Seq(Codes)]]
      /\ file'[Current].there /\ Done \in Nat
      /\ Len(file'[Current].parts) = Done + 1
    BY <1>1, PutFacts
<1>4. Len(Plan(Current)) \in Nat
    BY <1>1, CurrentFacts, PlanFacts
<1> QED
    BY <1>1, <1>2, <1>3, <1>4 DEF Last, Done, FilesTyped, InsideImage, Codes

\* The builder's state has its types, and a packer that writes is in the file
\* of the image it is making, not past its end (build and the packers).
THEOREM TypeCorrect == Spec => []TypeOK
<1>1. Init => TypeOK
    <2> SUFFICES ASSUME Init PROVE TypeOK
        OBVIOUS
    <2>1. NoFile \in [there : BOOLEAN, parts : Seq(Sources \cup {0, 1})]
        BY EmptySeq DEF NoFile
    <2>2. FilesTyped
        BY <2>1 DEF Init, FilesTyped
    <2>3. PlanesTyped
        BY DEF Init, PlanesTyped, NoGroup
    <2>4. ControlTyped /\ BudgetTyped
        <3>1. BudgetTyped
            BY BuildAssumption DEF Init, BudgetTyped
        <3>2. ControlTyped
            BY DEF Init, ControlTyped
        <3> QED
            BY <3>1, <3>2
    <2> QED
        BY <2>2, <2>3, <2>4 DEF Init, InsideImage, TypeOK
<1>2. TypeOK /\ [Next]_vars => TypeOK'
    <2> SUFFICES ASSUME TypeOK, [Next]_vars PROVE TypeOK'
        OBVIOUS
    <2> USE BuildAssumption DEF TypeOK
    <2>0. /\ PlanesTyped /\ UNCHANGED planes => PlanesTyped'
          /\ FilesTyped /\ UNCHANGED file => FilesTyped'
          /\ BudgetTyped /\ UNCHANGED budget => BudgetTyped'
          /\ pc' # "write" => InsideImage'
          /\ args.index \in Sources \cup {0}
        BY DEF planes, budget, PlanesTyped, FilesTyped, BudgetTyped, InsideImage, ControlTyped
    <2>1. ASSUME NEW c \in Commands, Start(c) PROVE TypeOK'
        <3>1. UNCHANGED <<planes, file>> /\ pc' # "write"
            BY <2>1 DEF Start, disk, planes
        <3>2. BudgetTyped'
            BY <2>1 DEF Start, BudgetTyped
        <3>3. todo' \subseteq Images
            BY <2>1, TargetFacts DEF Start
        <3>4. ControlTyped'
            BY <2>1, <3>3 DEF Start, ControlTyped
        <3> QED
            BY <2>0, <3>1, <3>2, <3>4
    <2>2. CASE Q4MakeGroup \/ Q4WritePlanes \/ Q4WriteVectors \/ Q8MakeGroup \/ Q8WritePlanes
        <3>0. /\ q4 \in [Targets -> Group4] /\ q8 \in [Delta -> Group8]
              /\ q4' \in [Targets -> Group4] /\ q8' \in [Delta -> Group8] => PlanesTyped'
            BY DEF PlanesTyped, Group4, Group8
        <3>a. ASSUME Q4MakeGroup PROVE PlanesTyped'
            <4>1. [q4 EXCEPT ![Q4First].there = TRUE] \in [Targets -> Group4]
                BY <2>0, PlaneUpdates
            <4>2. q4' = [q4 EXCEPT ![Q4First].there = TRUE] /\ q8' = q8
                BY <3>a DEF Q4MakeGroup
            <4>3. q4' \in [Targets -> Group4]
                BY <4>1, <4>2, Zenon
            <4> QED
                BY <3>0, <4>2, <4>3
        <3>b. ASSUME Q4WritePlanes PROVE PlanesTyped'
            <4>1. [q4 EXCEPT ![Q4First].codes = args.index] \in [Targets -> Group4]
                BY <2>0, PlaneUpdates
            <4>2. q4' = [q4 EXCEPT ![Q4First].codes = args.index] /\ q8' = q8
                BY <3>b DEF Q4WritePlanes
            <4>3. q4' \in [Targets -> Group4]
                BY <4>1, <4>2, Zenon
            <4> QED
                BY <3>0, <4>2, <4>3
        <3>c. ASSUME Q4WriteVectors PROVE PlanesTyped'
            <4>1. [q4 EXCEPT ![Q4First].vec = args.index] \in [Targets -> Group4]
                BY <2>0, PlaneUpdates
            <4>2. q4' = [q4 EXCEPT ![Q4First].vec = args.index] /\ q8' = q8
                BY <3>c DEF Q4WriteVectors
            <4>3. q4' \in [Targets -> Group4]
                BY <4>1, <4>2, Zenon
            <4> QED
                BY <3>0, <4>2, <4>3
        <3>d. ASSUME Q8MakeGroup PROVE PlanesTyped'
            <4>1. [q8 EXCEPT ![Current].there = TRUE] \in [Delta -> Group8]
                BY <2>0, PlaneUpdates
            <4>2. q8' = [q8 EXCEPT ![Current].there = TRUE] /\ q4' = q4
                BY <3>d DEF Q8MakeGroup
            <4>3. q8' \in [Delta -> Group8]
                BY <4>1, <4>2, Zenon
            <4> QED
                BY <3>0, <4>2, <4>3
        <3>e. ASSUME Q8WritePlanes PROVE PlanesTyped'
            <4>1. [q8 EXCEPT ![Current].codes = args.index] \in [Delta -> Group8]
                BY <2>0, PlaneUpdates
            <4>2. q8' = [q8 EXCEPT ![Current].codes = args.index] /\ q4' = q4
                BY <3>e DEF Q8WritePlanes
            <4>3. q8' \in [Delta -> Group8]
                BY <4>1, <4>2, Zenon
            <4> QED
                BY <3>0, <4>2, <4>3
        <3>1. PlanesTyped'
            BY <2>2, <3>a, <3>b, <3>c, <3>d, <3>e
        <3>2. ControlTyped'
            BY <2>2 DEF Q4MakeGroup, Q4WritePlanes, Q4WriteVectors, Q8MakeGroup, Q8WritePlanes,
                        ControlTyped, budget
        <3>3. UNCHANGED <<file, budget>> /\ pc' # "write"
            BY <2>2 DEF Q4MakeGroup, Q4WritePlanes, Q4WriteVectors, Q8MakeGroup, Q8WritePlanes
        <3> QED
            BY <2>0, <3>1, <3>2, <3>3
    <2>3. CASE QuantizerDone
        <3>0. todo' \subseteq Images
            BY <2>3, TargetFacts DEF QuantizerDone, End
        <3>1. ControlTyped'
            BY <2>3, <3>0 DEF QuantizerDone, End, ControlTyped
        <3>2. UNCHANGED <<planes, file, budget>> /\ pc' # "write"
            BY <2>3 DEF QuantizerDone, End, disk, planes
        <3> QED
            BY <2>0, <3>1, <3>2
    <2>4. CASE Refuse \/ TokenizerRefused \/ DraftRefused \/ MtpRefused \/ QuantizerFatal
        <3>1. ControlTyped' /\ UNCHANGED <<planes, file, budget>> /\ pc' # "write"
            BY <2>4, Refusals DEF End, ControlTyped, budget, disk, planes
        <3> QED
            BY <2>0, <3>1
    <2>5. CASE TakeAsIs \/ Packed \/ Finalize
        <3>1. ControlTyped' /\ UNCHANGED <<planes, file, budget>> /\ pc' # "write"
            BY <2>5 DEF TakeAsIs, Packed, Finalize, ControlTyped, budget, disk, planes
        <3> QED
            BY <2>0, <3>1
    <2>6. CASE Create
        <3>1. todo # {} /\ Current \in Images /\ Current' = Current
            BY <2>6, CurrentFacts DEF Create, Current
        <3>2. file'[Current] = [there |-> TRUE, parts |-> <<>>]
            BY <2>6, <3>1 DEF Create, FilesTyped
        <3>3. InsideImage'
            BY <2>6, <3>1, <3>2, PlanFacts DEF Done, InsideImage, Create
        <3>4. [there |-> TRUE, parts |-> <<>>]
                 \in [there : BOOLEAN, parts : Seq(Sources \cup {0, 1})]
            BY EmptySeq
        <3>5. FilesTyped'
            BY <2>6, <3>4 DEF Create, FilesTyped
        <3>6. ControlTyped' /\ UNCHANGED <<planes, budget>>
            BY <2>6 DEF Create, ControlTyped, planes, budget
        <3> QED
            BY <2>0, <3>3, <3>5, <3>6
    <2>7. CASE WriteSegment
        <3> DEFINE c == Content(Current, Done + 1)
        <3>1. c \in Codes
            BY <2>7, SegmentType DEF WriteSegment
        <3> HIDE DEF c
        <3>2. pc = "write" /\ ~Last /\ Put(c) /\ UNCHANGED <<pc, todo>>
            BY <2>7 DEF WriteSegment, c
        <3>3. FilesTyped' /\ InsideImage'
            BY <3>1, <3>2, WriteFacts
        <3>4. ControlTyped' /\ UNCHANGED <<planes, budget>>
            BY <2>7 DEF WriteSegment, ControlTyped, planes, budget
        <3> QED
            BY <2>0, <3>3, <3>4
    <2>8. CASE ShortWrite
        <3>1. 0 \in Codes /\ pc = "write" /\ ~Last /\ Put(0) /\ UNCHANGED <<pc, todo>>
            BY <2>8 DEF ShortWrite, Codes
        <3>2. FilesTyped' /\ InsideImage'
            BY <3>1, WriteFacts
        <3>3. ControlTyped' /\ BudgetTyped' /\ UNCHANGED planes
            BY <2>8 DEF ShortWrite, ControlTyped, BudgetTyped, planes
        <3> QED
            BY <2>0, <3>2, <3>3
    <2>9. CASE PackError
        <3>1. NoFile \in [there : BOOLEAN, parts : Seq(Sources \cup {0, 1})]
            BY EmptySeq DEF NoFile
        <3>2. FilesTyped'
            BY <2>9, <3>1 DEF PackError, Discard, FilesTyped
        <3>3. ControlTyped' /\ UNCHANGED <<planes, budget>> /\ pc' # "write"
            BY <2>9 DEF PackError, End, ControlTyped, planes, budget
        <3> QED
            BY <2>0, <3>2, <3>3
    <2>10. CASE Verify
        <3>1. ControlTyped' /\ UNCHANGED <<planes, file, budget>> /\ pc' # "write"
            BY <2>10 DEF Verify, End, ControlTyped, disk, planes, budget
        <3> QED
            BY <2>0, <3>1
    <2>11. CASE Report \/ RemovePlanes
        <3>1. PlanesTyped'
            BY <2>0, <2>11, PlaneUpdates
               DEF Report, RemovePlanes, PlanesTyped, Group4, Group8
        <3>2. ControlTyped' /\ UNCHANGED <<file, budget>> /\ pc' # "write"
            BY <2>11 DEF Report, RemovePlanes, Running, End, ControlTyped, budget
        <3> QED
            BY <2>0, <3>1, <3>2
    <2>12. CASE Kill
        <3>1. FilesTyped'
            <4>1. CASE UNCHANGED file
                BY <2>0, <4>1
            <4>2. CASE pc = "write" /\ Put(0)
                BY <4>2, PutFacts DEF FilesTyped, InsideImage, Codes
            <4> QED
                BY <2>12, <4>1, <4>2 DEF Kill
        <3>2. BudgetTyped'
            BY <2>12 DEF Kill, BudgetTyped
        <3>3. ControlTyped' /\ UNCHANGED planes /\ pc' # "write"
            BY <2>12 DEF Kill, ControlTyped, planes
        <3> QED
            BY <2>0, <3>1, <3>2, <3>3
    <2>13. ASSUME NEW i \in Images, RunPacker(i) PROVE TypeOK'
        <3> DEFINE whole == [there |-> TRUE,
                             parts |-> [k \in DOMAIN Plan(i) |-> Content(i, k)]]
        <3>1. [k \in DOMAIN Plan(i) |-> Content(i, k)] \in Seq(Codes)
            BY PlanFacts, ContentType
        <3>2. /\ NoFile \in [there : BOOLEAN, parts : Seq(Codes)]
              /\ whole \in [there : BOOLEAN, parts : Seq(Codes)]
            BY <3>1, EmptySeq DEF NoFile
        <3> HIDE DEF whole
        <3>3. \E f \in {whole, NoFile} : file' = [file EXCEPT ![i] = f]
            BY <2>13 DEF RunPacker, whole
        <3>4. FilesTyped'
            BY <3>2, <3>3 DEF FilesTyped, Codes
        <3>5. BudgetTyped'
            BY <2>13 DEF RunPacker, BudgetTyped
        <3>6. ControlTyped' /\ UNCHANGED planes /\ pc' # "write"
            BY <2>13 DEF RunPacker, Running, ControlTyped, planes
        <3> QED
            BY <2>0, <3>4, <3>5, <3>6
    <2>14. CASE UNCHANGED vars
        BY <2>14 DEF vars, budget, PlanesTyped, FilesTyped, ControlTyped, BudgetTyped, InsideImage,
                     Current, Done
    <2> HIDE DEF TypeOK
    <2> QED
        BY <2>1, <2>2, <2>3, <2>4, <2>5, <2>6, <2>7, <2>8, <2>9, <2>10, <2>11, <2>12, <2>13,
           <2>14, NextCases
<1> QED
    BY <1>1, <1>2, PTL DEF Spec

-----------------------------------------------------------------------------
(* What the verifier's word is worth.  A segment that was cut short is the *)
(* last one of its image: the write after it raises, or the process is     *)
(* gone.  While a packer writes on a disk with room, no segment is cut.    *)

CutAtEnd(i) == /\ Len(file[i].parts) <= Len(Plan(i))
               /\ \A k \in 1 .. Len(file[i].parts) :
                      file[i].parts[k] = 0 => k = Len(file[i].parts)

OnlyEndsCut  == \A i \in Images : file[i].there => CutAtEnd(i)
WritesIntact == pc = "write" /\ ~full => \A k \in 1 .. Done : file[Current].parts[k] # 0
FilesInv     == OnlyEndsCut /\ WritesIntact

\* Every image asked for is still to be made or is there; after the verifier
\* the targets match the planes.
InHand ==
    /\ pc \in {"pack", "write", "verify", "report"} =>
           \A i \in Wanted(args) : i \in todo \/ file[i].there
    /\ pc \in {"verify", "report"} => todo = {}
    /\ Verified => \A i \in Targets : Matches(i)

\* A write keeps the invariant, whatever it appends.
LEMMA PutKeepsFiles ==
    ASSUME TypeOK, FilesInv, pc = "write", ~Last, ~full, NEW c \in Codes, Put(c)
    PROVE  /\ OnlyEndsCut'
           /\ c # 0 /\ UNCHANGED todo =>
                  \A k \in 1 .. Done' : file'[Current'].parts[k] # 0
<1>1. todo # {} /\ file[Current].there /\ Done <= Len(Plan(Current))
    BY DEF TypeOK, InsideImage
<1>2. Current \in Images /\ Len(Plan(Current)) \in Nat
    BY <1>1, CurrentFacts, PlanFacts
<1>3. /\ \A i \in Images : i # Current => file'[i] = file[i]
      /\ Done \in Nat
      /\ Len(file'[Current].parts) = Done + 1
      /\ file'[Current].parts[Done + 1] = c
      /\ \A k \in 1 .. Done : file'[Current].parts[k] = file[Current].parts[k]
    BY <1>1, PutFacts
<1>4. \A k \in 1 .. Done : file'[Current].parts[k] # 0
    BY <1>3 DEF FilesInv, WritesIntact
<1>5. Done + 1 <= Len(Plan(Current))
    BY <1>1, <1>2, <1>3 DEF Last
<1>6. \A i \in Images : file'[i].there => CutAtEnd(i)'
    <2> SUFFICES ASSUME NEW i \in Images, file'[i].there PROVE CutAtEnd(i)'
        OBVIOUS
    <2>1. CASE i = Current
        BY <2>1, <1>3, <1>4, <1>5 DEF CutAtEnd
    <2>2. CASE i # Current
        BY <2>2, <1>3 DEF CutAtEnd, FilesInv, OnlyEndsCut
    <2> QED
        BY <2>1, <2>2
<1>7. ASSUME c # 0, UNCHANGED todo
      PROVE  \A k \in 1 .. Done' : file'[Current'].parts[k] # 0
    <2>1. Current' = Current
        BY <1>7 DEF Current
    <2>2. Done' = Done + 1
        BY <2>1, <1>3 DEF Done
    <2>3. \A k \in 1 .. Done + 1 : k = Done + 1 \/ k \in 1 .. Done
        BY <1>3
    <2> QED
        BY <1>3, <1>4, <1>7, <2>1, <2>2, <2>3
<1> QED
    BY <1>6, <1>7 DEF OnlyEndsCut

\* Steps that leave the images alone and begin no writing.
LEMMA FilesKept ==
    ASSUME FilesInv, UNCHANGED file, pc' # "write"
    PROVE  FilesInv'
BY DEF FilesInv, OnlyEndsCut, WritesIntact, CutAtEnd

LEMMA FilesStep ==
    ASSUME TypeOK, FilesInv, [Next]_vars
    PROVE  FilesInv'
<1>1. ASSUME NEW c \in Commands, Start(c) PROVE FilesInv'
    BY <1>1, FilesKept DEF Start, disk
<1>2. CASE Q4MakeGroup \/ Q4WritePlanes \/ Q4WriteVectors \/ Q8MakeGroup \/ Q8WritePlanes
    BY <1>2, FilesKept DEF Q4MakeGroup, Q4WritePlanes, Q4WriteVectors, Q8MakeGroup, Q8WritePlanes
<1>3. CASE Refuse \/ TokenizerRefused \/ DraftRefused \/ MtpRefused \/ QuantizerFatal
    BY <1>3, Refusals, FilesKept DEF End, disk
<1>4. CASE QuantizerDone \/ TakeAsIs \/ Packed \/ Finalize \/ Verify
    BY <1>4, FilesKept DEF QuantizerDone, TakeAsIs, Packed, Finalize, Verify, End, disk
<1>5. CASE Report \/ RemovePlanes
    BY <1>5, FilesKept DEF Report, RemovePlanes, Running, End
<1>6. CASE Create
    <2>1. todo # {} /\ Current \in Images /\ Current' = Current
        BY <1>6, CurrentFacts DEF Create, Current
    <2>2. /\ file'[Current] = [there |-> TRUE, parts |-> <<>>]
          /\ \A i \in Images : i # Current => file'[i] = file[i]
        BY <1>6, <2>1 DEF Create, TypeOK, FilesTyped
    <2>3. Len(file'[Current].parts) = 0 /\ Done' = 0
        BY <2>1, <2>2 DEF Done
    <2>4. CutAtEnd(Current)'
        BY <2>1, <2>3, PlanFacts DEF CutAtEnd
    <2>5. OnlyEndsCut'
        BY <2>2, <2>4 DEF OnlyEndsCut, CutAtEnd, FilesInv
    <2> QED
        BY <2>3, <2>5 DEF FilesInv, WritesIntact
<1>7. CASE WriteSegment
    <2> DEFINE c == Content(Current, Done + 1)
    <2>1. /\ pc = "write" /\ ~Last /\ ~full /\ Put(c) /\ c # 0
          /\ UNCHANGED <<pc, todo>>
        BY <1>7 DEF WriteSegment
    <2>2. c \in Codes
        BY <2>1, SegmentType
    <2> HIDE DEF c
    <2> QED
        BY <2>1, <2>2, PutKeepsFiles DEF FilesInv, WritesIntact
<1>8. CASE ShortWrite
    <2>1. OnlyEndsCut'
        BY <1>8, PutKeepsFiles DEF ShortWrite, Codes
    <2> QED
        BY <1>8, <2>1 DEF ShortWrite, FilesInv, WritesIntact
<1>9. CASE PackError
    <2>1. Current \in Images
        BY <1>9, CurrentFacts DEF PackError, TypeOK, InsideImage
    <2>2. \A i \in Images : file'[i] = file[i] \/ ~file'[i].there
        BY <1>9, <2>1 DEF PackError, Discard, NoFile, TypeOK, FilesTyped
    <2>3. OnlyEndsCut'
        BY <2>2 DEF FilesInv, OnlyEndsCut, CutAtEnd
    <2> QED
        BY <1>9, <2>3 DEF PackError, End, FilesInv, WritesIntact
<1>10. CASE Kill
    <2>1. CASE UNCHANGED file
        BY <1>10, <2>1, FilesKept DEF Kill
    <2>2. CASE pc = "write" /\ ~Last /\ ~full /\ Put(0)
        <3>1. OnlyEndsCut'
            BY <2>2, PutKeepsFiles DEF Codes
        <3> QED
            BY <1>10, <3>1 DEF Kill, FilesInv, WritesIntact
    <2> QED
        BY <1>10, <2>1, <2>2 DEF Kill
<1>11. ASSUME NEW i \in Images, RunPacker(i) PROVE FilesInv'
    <2> DEFINE parts == [k \in DOMAIN Plan(i) |-> Content(i, k)]
               whole == [there |-> TRUE, parts |-> parts]
    <2>0. pc' # "write"
        BY <1>11 DEF RunPacker, Running
    <2>1. \/ file' = [file EXCEPT ![i] = NoFile]
          \/ /\ \A k \in DOMAIN Plan(i) : Content(i, k) # 0
             /\ file' = [file EXCEPT ![i] = whole]
        BY <1>11 DEF RunPacker
    <2>2. parts \in Seq(Codes) /\ Len(parts) = Len(Plan(i))
        BY PlanFacts, ContentType
    <2>3. CASE file' = [file EXCEPT ![i] = NoFile]
        <3>1. \A j \in Images : file'[j] = file[j] \/ ~file'[j].there
            BY <2>3 DEF NoFile, TypeOK, FilesTyped
        <3>2. OnlyEndsCut'
            BY <3>1 DEF FilesInv, OnlyEndsCut, CutAtEnd
        <3> QED
            BY <2>0, <3>2 DEF FilesInv, WritesIntact
    <2>4. CASE /\ \A k \in DOMAIN Plan(i) : Content(i, k) # 0
               /\ file' = [file EXCEPT ![i] = whole]
        <3>1. /\ file'[i].parts = parts
              /\ \A j \in Images : j # i => file'[j] = file[j]
            BY <2>4 DEF TypeOK, FilesTyped
        <3>2. \A k \in 1 .. Len(Plan(i)) : parts[k] # 0
            BY <2>4, PlanFacts
        <3> HIDE DEF parts
        <3>3. CutAtEnd(i)'
            BY <2>2, <3>1, <3>2, PlanFacts DEF CutAtEnd
        <3>4. OnlyEndsCut'
            BY <3>1, <3>3 DEF FilesInv, OnlyEndsCut, CutAtEnd
        <3> QED
            BY <2>0, <3>4 DEF FilesInv, WritesIntact
    <2> QED
        BY <2>1, <2>3, <2>4
<1>12. CASE UNCHANGED vars
    BY <1>12 DEF vars, FilesInv, OnlyEndsCut, CutAtEnd, WritesIntact, Current, Done
<1> QED
    BY <1>1, <1>2, <1>3, <1>4, <1>5, <1>6, <1>7, <1>8, <1>9, <1>10, <1>11, <1>12, NextCases

\* Where the builder ends, or quantizes, it promises nothing about images.
LEMMA InHandElsewhere ==
    ASSUME pc' \notin {"pack", "write", "verify", "report"}
    PROVE  InHand'
BY DEF InHand, Verified

LEMMA InHandStep ==
    ASSUME TypeOK, InHand, [Next]_vars
    PROVE  InHand'
<1>1. ASSUME NEW c \in Commands, Start(c) PROVE InHand'
    <2>1. pc' = "pack" => todo' = Wanted(c) /\ args' = c
        BY <1>1 DEF Start
    <2>2. pc' \in {"pack", "idle", "q4"}
        BY <1>1 DEF Start
    <2> QED
        BY <2>1, <2>2 DEF InHand, Verified, Wanted
<1>2. CASE Q4MakeGroup \/ Q4WritePlanes \/ Q4WriteVectors \/ Q8MakeGroup \/ Q8WritePlanes
    BY <1>2, InHandElsewhere
       DEF Q4MakeGroup, Q4WritePlanes, Q4WriteVectors, Q8MakeGroup, Q8WritePlanes
<1>3. CASE Refuse \/ TokenizerRefused \/ DraftRefused \/ MtpRefused \/ QuantizerFatal
    BY <1>3, Refusals, InHandElsewhere DEF End
<1>4. CASE QuantizerDone
    <2>1. pc' = "pack" => todo' = Wanted(args) /\ args' = args
        BY <1>4 DEF QuantizerDone, End
    <2>2. pc' \in {"pack", "idle", "q8"}
        BY <1>4 DEF QuantizerDone, End
    <2> QED
        BY <2>1, <2>2 DEF InHand, Verified, Wanted
<1>5. CASE TakeAsIs \/ Finalize
    <2>1. file[Current].there
        BY <1>5 DEF TakeAsIs, Finalize, TypeOK, InsideImage
    <2>2. /\ pc \in {"pack", "write"} /\ pc' = "pack" /\ UNCHANGED <<file, args>>
          /\ todo' = todo \ {Current}
        BY <1>5 DEF TakeAsIs, Finalize, disk
    <2> QED
        BY <2>1, <2>2 DEF InHand, Verified, Wanted
<1>6. CASE Create
    <2>1. pc = "pack" /\ pc' = "write" /\ UNCHANGED <<todo, args>>
        BY <1>6 DEF Create
    <2>2. \A i \in Images : file[i].there => file'[i].there
        BY <1>6 DEF Create, TypeOK, FilesTyped
    <2>3. Wanted(args) \subseteq Images
        BY TargetFacts
    <2> QED
        BY <2>1, <2>2, <2>3 DEF InHand, Verified, Wanted
<1>7. CASE WriteSegment \/ ShortWrite
    <2>1. pc = "write" /\ pc' = "write" /\ UNCHANGED <<todo, args>>
        BY <1>7 DEF WriteSegment, ShortWrite
    <2>2. \A i \in Images : file[i].there => file'[i].there
        BY <1>7 DEF WriteSegment, ShortWrite, Put, TypeOK, FilesTyped
    <2>3. Wanted(args) \subseteq Images
        BY TargetFacts
    <2> QED
        BY <2>1, <2>2, <2>3 DEF InHand, Verified, Wanted
<1>8. CASE PackError \/ Report \/ Kill
    BY <1>8, InHandElsewhere DEF PackError, Report, Kill, End
<1>9. CASE Packed
    <2>1. pc' = "report" => ~args'.verify
        BY <1>9 DEF Packed
    <2> QED
        BY <1>9, <2>1 DEF Packed, InHand, Verified, Wanted, disk
<1>10. CASE Verify
    <2>1. CASE pc' = "idle"
        BY <2>1, InHandElsewhere
    <2>2. CASE /\ \A i \in Targets : file[i].there => Matches(i)
               /\ pc' = "report" /\ UNCHANGED <<args, todo>>
        <3>1. UNCHANGED disk /\ pc = "verify" /\ todo = {}
            BY <1>10 DEF Verify, InHand
        <3>2. \A i \in Targets : file[i].there /\ Matches(i)
            BY <2>2, <3>1 DEF InHand, Wanted
        <3>3. \A i \in Targets : Matches(i)'
            BY <3>1, <3>2 DEF disk, Matches, Content
        <3> QED
            BY <2>2, <3>1, <3>3 DEF InHand, Verified, Wanted, disk
    <2> QED
        BY <1>10, <2>1, <2>2 DEF Verify, End
<1>11. CASE RemovePlanes \/ \E i \in Images : RunPacker(i)
    BY <1>11, InHandElsewhere DEF RemovePlanes, RunPacker, Running
<1>12. CASE UNCHANGED vars
    BY <1>12 DEF vars, InHand, Verified, Matches, Content, Wanted
<1> QED
    BY <1>1, <1>2, <1>3, <1>4, <1>5, <1>6, <1>7, <1>8, <1>9, <1>10, <1>11, <1>12, NextCases

LEMMA FilesInvInit == Init => FilesInv /\ InHand
BY DEF Init, FilesInv, OnlyEndsCut, WritesIntact, InHand, Verified, NoFile

\* What an image on the disk may lack, and what the builder knows of the
\* images it asked for, whatever invocations came before.
THEOREM FilesCorrect == Spec => [](FilesInv /\ InHand)
<1>1. TypeOK /\ TypeOK' /\ FilesInv /\ InHand /\ [Next]_vars => FilesInv' /\ InHand'
    BY FilesStep, InHandStep
<1> QED
    BY <1>1, FilesInvInit, TypeCorrect, PTL DEF Spec

\* A verified build holds every target image, and each quantized segment of
\* it is the plane on disk (build, verify_hybrid.main and seg_equal).
THEOREM MatchesCorrect == Spec => []VerifiedMatchesPlanes
<1>1. TypeOK /\ InHand => VerifiedMatchesPlanes
    <2> SUFFICES ASSUME TypeOK, InHand, Verified, NEW i \in Targets, NEW k \in DOMAIN Plan(i),
                        Plan(i)[k] \in {"q4", "q8"}
                 PROVE  /\ file[i].there /\ k <= Len(file[i].parts)
                        /\ Content(i, k) # 0 /\ file[i].parts[k] = Content(i, k)
        BY DEF VerifiedMatchesPlanes
    <2>1. Matches(i) /\ file[i].there
        BY DEF InHand, Verified, Wanted
    <2> QED
        BY <2>1 DEF Matches, Compared
<1> QED
    BY <1>1, TypeCorrect, FilesCorrect, PTL

\* A layer that passed the verifier is whole: its last segment was compared,
\* and no segment before the last can be cut (pack_delta, pack_attention).
THEOREM LayersCorrect == Spec => []VerifiedLayersWhole
<1>1. TypeOK /\ FilesInv /\ InHand => VerifiedLayersWhole
    <2> SUFFICES ASSUME TypeOK, FilesInv, InHand, Verified, NEW i \in Targets \ {Global}
                 PROVE  Whole(i)
        BY DEF VerifiedLayersWhole
    <2> DEFINE n == Len(Plan(i))
    <2>1. /\ i \in Images /\ n \in Nat \ {0} /\ DOMAIN Plan(i) = 1 .. n
          /\ Plan(i)[n] = "q4"
        BY TargetFacts, PlanFacts
    <2>2. Matches(i) /\ file[i].there
        BY DEF InHand, Verified, Wanted
    <2>3. n <= Len(file[i].parts) /\ file[i].parts[n] # 0
        BY <2>1, <2>2 DEF Matches, Compared
    <2>4. CutAtEnd(i) /\ Len(file[i].parts) \in Nat
        BY <2>1, <2>2, LenProperties DEF FilesInv, OnlyEndsCut, TypeOK, FilesTyped
    <2>5. Len(file[i].parts) = n
        BY <2>1, <2>3, <2>4 DEF CutAtEnd
    <2> QED
        BY <2>1, <2>2, <2>3, <2>4, <2>5 DEF Whole, CutAtEnd
<1> QED
    BY <1>1, TypeCorrect, FilesCorrect, PTL

\* An image that is whole is left alone by the builder, whatever fails
\* around it (create_exclusive and the packers' handlers).
THEOREM WholeKept == Spec => WholeImagesKept
<1>1. ASSUME TypeOK, [Next]_vars
      PROVE  [Running => \A i \in Images : Whole(i) => file'[i] = file[i]]_vars
    <2> SUFFICES ASSUME Next, Running, NEW i \in Images, Whole(i)
                 PROVE  file'[i] = file[i]
        BY <1>1
    <2>1. CASE UNCHANGED file
        BY <2>1
    <2>2. CASE Create
        <3>1. i # Current
            BY <2>2 DEF Create, Whole
        <3> QED
            BY <2>2, <3>1, <1>1 DEF Create, TypeOK, FilesTyped
    <2>3. CASE pc = "write" /\ ~Last /\ \E f : file' = [file EXCEPT ![Current] = f]
        <3>1. i # Current
            BY <2>3 DEF Last, Done, Whole
        <3> QED
            BY <2>3, <3>1, <1>1 DEF TypeOK, FilesTyped
    <2>4. \/ UNCHANGED file
          \/ Create
          \/ pc = "write" /\ ~Last /\ \E f : file' = [file EXCEPT ![Current] = f]
        <3>1. CASE WriteSegment \/ ShortWrite
            BY <3>1 DEF WriteSegment, ShortWrite, Put
        <3>2. CASE PackError
            BY <3>2 DEF PackError, Discard
        <3>3. CASE Kill
            BY <3>3 DEF Kill, Put
        <3>4. CASE Q4MakeGroup \/ Q4WritePlanes \/ Q4WriteVectors \/ Q8MakeGroup \/ Q8WritePlanes
            BY <3>4 DEF Q4MakeGroup, Q4WritePlanes, Q4WriteVectors, Q8MakeGroup, Q8WritePlanes
        <3>5. CASE Refuse \/ TokenizerRefused \/ DraftRefused \/ MtpRefused \/ QuantizerFatal
            BY <3>5, Refusals DEF disk
        <3>6. CASE QuantizerDone \/ TakeAsIs \/ Packed \/ Finalize \/ Verify
            BY <3>6 DEF QuantizerDone, TakeAsIs, Packed, Finalize, Verify, disk
        <3>7. CASE Report \/ RemovePlanes
            BY <3>7 DEF Report, RemovePlanes
        <3>8. ~ (\E c \in Commands : Start(c)) /\ ~ (\E j \in Images : RunPacker(j))
            BY DEF Start, RunPacker
        <3> QED
            BY <3>1, <3>2, <3>3, <3>4, <3>5, <3>6, <3>7, <3>8, NextCases
    <2> QED
        BY <2>1, <2>2, <2>3, <2>4
<1> QED
    BY <1>1, TypeCorrect, PTL DEF Spec, WholeImagesKept

-----------------------------------------------------------------------------
(* Planes, their gate, and their removal.                                  *)

\* The planes are removed, under --cleanup, by the last step of a build only;
\* with the verifier on, every layer is whole by then (build).
THEOREM CleanupSafe == Spec => CleanupLosesNothing
<1>1. ASSUME TypeOK, FilesInv, InHand, VerifiedLayersWhole, [Next]_vars
      PROVE  [Running /\ planes' # planes /\ ~Empty(q4) /\ Empty(q4)' /\ args.verify =>
                 \A i \in Targets \ {Global} : Whole(i)]_vars
    <2> SUFFICES ASSUME Next, Running, planes' # planes, ~Empty(q4), Empty(q4)', args.verify
                 PROVE  \A i \in Targets \ {Global} : Whole(i)
        BY <1>1
    <2>0. q4 \in [Targets -> Group4]
        BY <1>1 DEF TypeOK, PlanesTyped, Group4
    <2>1. CASE Q4MakeGroup \/ Q4WritePlanes \/ Q4WriteVectors
        <3>1. \A g \in Targets : q4[g].there => q4'[g].there
            BY <2>0, <2>1 DEF Q4MakeGroup, Q4WritePlanes, Q4WriteVectors, Group4
        <3>2. DOMAIN q4' = Targets /\ DOMAIN q4 = Targets
            BY <2>0, <2>1 DEF Q4MakeGroup, Q4WritePlanes, Q4WriteVectors
        <3>3. FALSE
            BY <3>1, <3>2 DEF Empty
        <3> QED
            BY <3>3
    <2>2. CASE Q8MakeGroup \/ Q8WritePlanes
        BY <2>2 DEF Q8MakeGroup, Q8WritePlanes, Empty
    <2>3. CASE Report
        BY <1>1, <2>3 DEF Report, VerifiedLayersWhole, Verified
    <2>4. CASE Refuse \/ TokenizerRefused \/ DraftRefused \/ MtpRefused \/ QuantizerFatal
        BY <2>4, Refusals DEF disk, planes
    <2>5. CASE QuantizerDone \/ TakeAsIs \/ Packed \/ Finalize \/ Verify
        BY <2>5 DEF QuantizerDone, TakeAsIs, Packed, Finalize, Verify, disk, planes
    <2>6. CASE Create \/ WriteSegment \/ ShortWrite \/ PackError \/ Kill
        BY <2>6 DEF Create, WriteSegment, ShortWrite, PackError, Kill
    <2>7. /\ ~ \E c \in Commands : Start(c)
          /\ ~ \E j \in Images : RunPacker(j)
          /\ ~ RemovePlanes
        BY DEF Start, RunPacker, RemovePlanes
    <2> QED
        BY <2>1, <2>2, <2>3, <2>4, <2>5, <2>6, <2>7, NextCases
<1> QED
    BY <1>1, TypeCorrect, FilesCorrect, LayersCorrect, PTL DEF Spec, CleanupLosesNothing

\* A group of planes passed its gate, or has not been made.
Passed4 == \A g \in Targets : <<q4[g].codes, "q4", g>> \notin Hard
Passed8 == \A g \in Delta   : <<q8[g].codes, "q8", g>> \notin Hard

\* While a quantizer runs, a failed gate is remembered until it ends; it
\* begins on an empty directory only.
GateInv ==
    /\ \A g \in Targets : ~q4[g].there => q4[g].codes = 0
    /\ \A g \in Delta   : ~q8[g].there => q8[g].codes = 0
    /\ pc \notin {"q4", "q8"} => ~failed
    /\ Running /\ args.check /\ ~failed =>
           /\ "q4" \in fresh \/ (pc = "q4" /\ todo # {}) => Passed4
           /\ "q8" \in fresh \/ (pc = "q8" /\ todo # {}) => Passed8

LEMMA EmptyPasses ==
    ASSUME TypeOK, GateInv
    PROVE  (Empty(q4) => Passed4) /\ (Empty(q8) => Passed8)
<1>1. /\ DOMAIN q4 = Targets /\ DOMAIN q8 = Delta
    BY DEF TypeOK, PlanesTyped
<1>2. \A x, g : <<0, x, g>> \notin Hard
    BY BuildAssumption
<1> QED
    BY <1>1, <1>2 DEF Empty, GateInv, Passed4, Passed8

\* Steps that leave the planes alone and quantize nothing.
LEMMA GateKept ==
    ASSUME TypeOK, GateInv, UNCHANGED <<planes, fresh>>, failed' = FALSE,
           \/ pc' = "idle"
           \/ /\ Running /\ UNCHANGED args /\ ~failed
              /\ pc' \notin {"q4", "q8"}
    PROVE  GateInv'
BY DEF planes, GateInv, Running, Passed4, Passed8

LEMMA GateStep ==
    ASSUME TypeOK, GateInv, [Next]_vars
    PROVE  GateInv'
<1> USE DEF Running
<1>0. q4 \in [Targets -> Group4] /\ q8 \in [Delta -> Group8]
    BY DEF TypeOK, PlanesTyped, Group4, Group8
<1>1. ASSUME NEW c \in Commands, Start(c) PROVE GateInv'
    <2>1. UNCHANGED <<q4, q8>> /\ fresh' = {} /\ failed' = FALSE /\ pc' # "q8"
        BY <1>1 DEF Start, disk
    <2>2. pc' = "q4" /\ todo' # {} => Empty(q4)
        BY <1>1 DEF Start
    <2> QED
        BY <2>1, <2>2, EmptyPasses DEF GateInv, Passed4, Passed8
<1>2. CASE Q4MakeGroup
    <2>1. /\ \A g \in Targets : q4'[g].codes = q4[g].codes /\ (q4[g].there => q4'[g].there)
          /\ UNCHANGED <<q8, pc, args, todo, failed>> /\ fresh' = fresh \cup {"q4"}
          /\ pc = "q4" /\ todo # {}
        BY <1>0, <1>2 DEF Q4MakeGroup, Group4
    <2>2. \A g \in Targets : ~q4'[g].there => q4'[g].codes = 0
        BY <2>1 DEF GateInv
    <2>3. (Passed4 => Passed4') /\ (Passed8 => Passed8')
        BY <2>1 DEF Passed4, Passed8
    <2> QED
        BY <2>1, <2>2, <2>3 DEF GateInv
<1>3. CASE Q4WritePlanes
    <2> DEFINE g0 == Q4First
    <2>1. /\ \A g \in Targets : q4'[g].there = q4[g].there
          /\ \A g \in Targets : g # g0 => q4'[g].codes = q4[g].codes
          /\ \A g \in Targets : g = g0 => q4'[g].codes = args.index
          /\ q4[g0].there
          /\ UNCHANGED <<q8, pc, args, todo, fresh>>
          /\ pc = "q4" /\ todo # {}
        BY <1>0, <1>3 DEF Q4WritePlanes, Group4
    <2>2. ~failed' => ~failed /\ Q4Passes(g0)
        BY <1>3 DEF Q4WritePlanes
    <2> HIDE DEF g0
    <2>3. \A g \in Targets : ~q4'[g].there => q4'[g].codes = 0
        BY <2>1 DEF GateInv
    <2>4. ASSUME Passed4, args.check, ~failed' PROVE Passed4'
        BY <2>1, <2>2, <2>4 DEF Passed4, Q4Passes
    <2>5. Passed8 => Passed8'
        BY <2>1 DEF Passed8
    <2> QED
        BY <2>1, <2>2, <2>3, <2>4, <2>5 DEF GateInv
<1>4. CASE Q4WriteVectors
    <2>1. /\ \A g \in Targets : q4'[g].codes = q4[g].codes /\ q4'[g].there = q4[g].there
          /\ UNCHANGED <<q8, pc, args, failed, fresh>>
          /\ pc = "q4" /\ todo # {}
        BY <1>0, <1>4 DEF Q4WriteVectors, Group4
    <2>2. \A g \in Targets : ~q4'[g].there => q4'[g].codes = 0
        BY <2>1 DEF GateInv
    <2>3. (Passed4 => Passed4') /\ (Passed8 => Passed8')
        BY <2>1 DEF Passed4, Passed8
    <2> QED
        BY <2>1, <2>2, <2>3 DEF GateInv
<1>5. CASE Q8MakeGroup
    <2>1. /\ \A g \in Delta : q8'[g].codes = q8[g].codes /\ (q8[g].there => q8'[g].there)
          /\ UNCHANGED <<q4, pc, args, todo, failed>> /\ fresh' = fresh \cup {"q8"}
          /\ pc = "q8" /\ todo # {}
        BY <1>0, <1>5 DEF Q8MakeGroup, Group8
    <2>2. \A g \in Delta : ~q8'[g].there => q8'[g].codes = 0
        BY <2>1 DEF GateInv
    <2>3. (Passed4 => Passed4') /\ (Passed8 => Passed8')
        BY <2>1 DEF Passed4, Passed8
    <2> QED
        BY <2>1, <2>2, <2>3 DEF GateInv
<1>6. CASE Q8WritePlanes
    <2> DEFINE g0 == Current
    <2>1. /\ \A g \in Delta : q8'[g].there = q8[g].there
          /\ \A g \in Delta : g # g0 => q8'[g].codes = q8[g].codes
          /\ \A g \in Delta : g = g0 => q8'[g].codes = args.index
          /\ q8[g0].there
          /\ UNCHANGED <<q4, pc, args, fresh>>
          /\ pc = "q8" /\ todo # {}
        BY <1>0, <1>6 DEF Q8WritePlanes, Group8
    <2>2. ~failed' => ~failed /\ Q8Passes(g0)
        BY <1>6 DEF Q8WritePlanes
    <2> HIDE DEF g0
    <2>3. \A g \in Delta : ~q8'[g].there => q8'[g].codes = 0
        BY <2>1 DEF GateInv
    <2>4. ASSUME Passed8, args.check, ~failed' PROVE Passed8'
        BY <2>1, <2>2, <2>4 DEF Passed8, Q8Passes
    <2>5. Passed4 => Passed4'
        BY <2>1 DEF Passed4
    <2> QED
        BY <2>1, <2>2, <2>3, <2>4, <2>5 DEF GateInv
<1>7. CASE QuantizerDone
    <2>1. CASE pc' = "idle"
        BY <1>7, <2>1, GateKept DEF QuantizerDone, End, disk, planes
    <2>2. CASE pc' # "idle"
        <3>1. /\ UNCHANGED <<q4, q8, args, fresh, failed>> /\ ~failed /\ Running
              /\ pc' \in {"q8", "pack"}
              /\ pc' = "q8" /\ todo' # {} => Empty(q8)
            BY <1>7, <2>2 DEF QuantizerDone, End, disk
        <3> QED
            BY <3>1, EmptyPasses DEF GateInv, Passed4, Passed8
    <2> QED
        BY <2>1, <2>2
<1>8. CASE Refuse \/ TokenizerRefused \/ DraftRefused \/ MtpRefused \/ QuantizerFatal
    BY <1>8, Refusals, GateKept DEF End, disk, planes
<1>9. CASE TakeAsIs \/ Create \/ WriteSegment \/ ShortWrite \/ Finalize \/ Packed
    <2>1. /\ pc \notin {"q4", "q8"} /\ pc' \notin {"q4", "q8"} /\ Running
          /\ UNCHANGED <<planes, fresh, args, failed>>
        BY <1>9 DEF TakeAsIs, Create, WriteSegment, ShortWrite, Finalize, Packed, disk, planes
    <2>2. ~failed /\ failed' = FALSE
        BY <2>1 DEF GateInv, TypeOK, ControlTyped
    <2> QED
        BY <2>1, <2>2, GateKept
<1>10. CASE PackError \/ Kill
    BY <1>10, GateKept DEF PackError, Kill, End
<1>11. CASE Verify
    <2>1. pc = "verify" /\ UNCHANGED <<planes, fresh, args>> /\ ~failed
        BY <1>11 DEF Verify, End, disk, planes, GateInv
    <2>2. pc' = "idle" \/ pc' = "report"
        BY <1>11 DEF Verify, End
    <2>3. failed' = FALSE
        BY <1>11, <2>1 DEF Verify, End, TypeOK, ControlTyped
    <2> QED
        BY <2>1, <2>2, <2>3, GateKept
<1>12. CASE Report \/ RemovePlanes
    <2>1. pc' = "idle" /\ ~failed'
        BY <1>12 DEF Report, RemovePlanes, End, GateInv
    <2>2. \/ UNCHANGED <<q4, q8>>
          \/ q4' = [g \in Targets |-> NoGroup] /\ q8' = [g \in Delta |-> NoGroup]
        BY <1>12 DEF Report, RemovePlanes, planes
    <2> QED
        BY <2>1, <2>2 DEF GateInv, NoGroup
<1>13. ASSUME NEW i \in Images, RunPacker(i) PROVE GateInv'
    BY <1>13 DEF RunPacker, GateInv, planes
<1>14. CASE UNCHANGED vars
    BY <1>14 DEF vars, GateInv, Passed4, Passed8
<1> QED
    BY <1>1, <1>2, <1>3, <1>4, <1>5, <1>6, <1>7, <1>8, <1>9, <1>10, <1>11, <1>12, <1>13, <1>14,
       NextCases

\* Planes a build quantized itself, with the gate on, are packed only when
\* all of them passed (the quantizers' exit codes and build).
THEOREM GateCorrect == Spec => []FreshPlanesPassedGate
<1>1. Init => GateInv
    BY DEF Init, GateInv, Running, NoGroup
<1>2. GateInv => FreshPlanesPassedGate
    BY DEF GateInv, FreshPlanesPassedGate, Running, Passed4, Passed8
<1>3. TypeOK /\ GateInv /\ [Next]_vars => GateInv'
    BY GateStep
<1> QED
    BY <1>1, <1>2, <1>3, TypeCorrect, PTL DEF Spec

-----------------------------------------------------------------------------
(* Without kills and full disks.                                           *)

\* Every image but the draft's is whole, or the one being made.
StumpInv ==
    faults = 0 =>
        /\ ~full
        /\ \A i \in Images \ {Draft} :
               file[i].there => Whole(i) \/ (pc = "write" /\ i = Current)

\* Steps outside a packer that leave the images alone.
LEMMA StumpsKept ==
    ASSUME StumpInv, pc # "write", UNCHANGED file, faults' = faults,
           full' = full \/ full' = FALSE
    PROVE  StumpInv'
BY DEF StumpInv, Whole

LEMMA StumpStep ==
    ASSUME TypeOK, FilesInv, StumpInv, [Next]_vars
    PROVE  StumpInv'
<1>1. ASSUME NEW c \in Commands, Start(c) PROVE StumpInv'
    BY <1>1, StumpsKept DEF Start, Running, disk
<1>2. CASE Q4MakeGroup \/ Q4WritePlanes \/ Q4WriteVectors \/ Q8MakeGroup \/ Q8WritePlanes
    BY <1>2, StumpsKept
       DEF Q4MakeGroup, Q4WritePlanes, Q4WriteVectors, Q8MakeGroup, Q8WritePlanes, budget
<1>3. CASE Refuse \/ TokenizerRefused \/ DraftRefused \/ MtpRefused \/ QuantizerFatal
    BY <1>3, Refusals, StumpsKept DEF End, disk, budget
<1>4. CASE QuantizerDone \/ TakeAsIs \/ Packed \/ Verify
    BY <1>4, StumpsKept DEF QuantizerDone, TakeAsIs, Packed, Verify, End, disk, budget
<1>5. CASE Report \/ RemovePlanes
    BY <1>5, StumpsKept DEF Report, RemovePlanes, Running, End, budget
<1>6. CASE Create
    <2>1. /\ pc = "pack" /\ pc' = "write" /\ Current' = Current
          /\ UNCHANGED <<full, faults>>
        BY <1>6 DEF Create, Current, budget
    <2>2. \A i \in Images : i # Current => file'[i] = file[i]
        BY <1>6 DEF Create, TypeOK, FilesTyped
    <2> QED
        BY <2>1, <2>2 DEF StumpInv, Whole
<1>7. CASE WriteSegment
    <2>1. /\ pc = "write" /\ pc' = "write" /\ Current' = Current
          /\ UNCHANGED <<full, faults>>
        BY <1>7 DEF WriteSegment, Current, budget
    <2>2. \A i \in Images : i # Current => file'[i] = file[i]
        BY <1>7 DEF WriteSegment, Put, TypeOK, FilesTyped
    <2> QED
        BY <2>1, <2>2 DEF StumpInv, Whole
<1>8. CASE ShortWrite \/ Kill
    <2>1. faults' = faults + 1 /\ faults \in Nat
        BY <1>8, BuildAssumption DEF ShortWrite, Kill, TypeOK, BudgetTyped
    <2> QED
        BY <2>1 DEF StumpInv
<1>9. CASE PackError
    <2>1. /\ pc = "write" /\ UNCHANGED <<full, faults>> /\ pc' = "idle"
        BY <1>9 DEF PackError, End, budget
    <2>2. \A i \in Images \ {Draft} :
              /\ i # Current => file'[i] = file[i]
              /\ i = Current => ~file'[i].there
        BY <1>9 DEF PackError, Discard, NoFile, TypeOK, FilesTyped
    <2> QED
        BY <2>1, <2>2 DEF StumpInv, Whole
<1>10. CASE Finalize
    <2>1. /\ pc = "write" /\ UNCHANGED <<file, full, faults>> /\ pc' = "pack"
          /\ todo # {} /\ file[Current].there /\ Last
        BY <1>10 DEF Finalize, TypeOK, InsideImage, disk, budget
    <2>2. Current \in Images
        BY <2>1, CurrentFacts
    <2>3. ~full => Whole(Current)
        BY <2>1, <2>2, PlanFacts DEF FilesInv, WritesIntact, Whole, Last, Done
    <2> QED
        BY <2>1, <2>3 DEF StumpInv, Whole
<1>11. ASSUME NEW i \in Images, RunPacker(i) PROVE StumpInv'
    <2> DEFINE parts == [k \in DOMAIN Plan(i) |-> Content(i, k)]
               whole == [there |-> TRUE, parts |-> parts]
    <2>1. \/ file' = [file EXCEPT ![i] = NoFile]
          \/ /\ \A k \in DOMAIN Plan(i) : Content(i, k) # 0
             /\ file' = [file EXCEPT ![i] = whole]
        BY <1>11 DEF RunPacker
    <2>2. /\ pc = "idle" /\ pc' = "idle" /\ UNCHANGED <<full, faults>>
        BY <1>11 DEF RunPacker, Running
    <2>3. \A j \in Images : j # i => file'[j] = file[j]
        BY <2>1 DEF TypeOK, FilesTyped
    <2>4. parts \in Seq(Codes) /\ Len(parts) = Len(Plan(i))
        BY PlanFacts, ContentType
    <2>5. CASE file' = [file EXCEPT ![i] = NoFile]
        <3>1. ~file'[i].there
            BY <2>5 DEF NoFile, TypeOK, FilesTyped
        <3> QED
            BY <2>2, <2>3, <3>1 DEF StumpInv, Whole
    <2>6. CASE /\ \A k \in DOMAIN Plan(i) : Content(i, k) # 0
               /\ file' = [file EXCEPT ![i] = whole]
        <3>1. file'[i].there /\ file'[i].parts = parts
            BY <2>6 DEF TypeOK, FilesTyped
        <3>2. \A k \in DOMAIN Plan(i) : parts[k] # 0
            BY <2>6
        <3> HIDE DEF parts
        <3>3. Whole(i)'
            BY <2>4, <3>1, <3>2 DEF Whole
        <3> QED
            BY <2>2, <2>3, <3>3 DEF StumpInv, Whole
    <2> QED
        BY <2>1, <2>5, <2>6
<1>12. CASE UNCHANGED vars
    BY <1>12 DEF vars, budget, StumpInv, Whole, Current
<1> QED
    BY <1>1, <1>2, <1>3, <1>4, <1>5, <1>6, <1>7, <1>8, <1>9, <1>10, <1>11, <1>12, NextCases

\* A builder that ended without a kill or a full disk, in success or in an
\* error, leaves whole images only (the packers' handlers); DFlash2 excepted.
THEOREM NoStumps == Spec => []ErrorsLeaveNoStump
<1>1. Init => StumpInv
    BY DEF Init, StumpInv, NoFile
<1>2. StumpInv => ErrorsLeaveNoStump
    BY DEF StumpInv, ErrorsLeaveNoStump, Running
<1>3. TypeOK /\ FilesInv /\ StumpInv /\ [Next]_vars => StumpInv'
    BY StumpStep
<1> QED
    BY <1>1, <1>2, <1>3, TypeCorrect, FilesCorrect, PTL DEF Spec
=============================================================================
