--------------------------- MODULE ChatEngine_proofs ---------------------------
(***************************************************************************)
(* Safety of the resident chat process, for every set of tokens and        *)
(* prompts, every capacity and budget, and every set of failing Metal      *)
(* operations.                                                             *)
(*                                                                         *)
(* The safety properties speak of the moments where a token is drawn or a  *)
(* request has ended.  To carry them from step to step one has to say, for *)
(* every stage in between, how far the request is (Progress), what the     *)
(* layers hold (LiveState), and when the rows under the TURN checkpoint    *)
(* are still there (TurnState).                                            *)
(***************************************************************************)
EXTENDS ChatEngine, LayerState_proofs

\* The layers have processed exactly the sequence s.
Processed(s) == gdn = s /\ Holds(kv, s)

Prefilling == stage \in {"prefill", "checkpoint", "suffix", "forward"}

\* How far the request is: bookkeeping that does not depend on contents.
Progress ==
    /\ Len(prompt) + budget <= Capacity
    /\ prefixCount <= Len(prompt)
    /\ Prefilling => /\ filled <= Len(prompt)
                     /\ prompt # << >> => filled < Len(prompt)
    /\ stage \in {"checkpoint", "suffix", "forward", "save"} => prompt # << >>
    /\ stage = "forward" => filled + 1 = Len(prompt)
    /\ stage = "save" => history = prompt
    /\ ~ Continuation => turnTokens = << >>
    /\ Replying => /\ history = prompt \o generated
                   /\ Len(generated) < budget
                   /\ turnTokens # << >> => turnTokens = prompt
                   /\ prompt # << >>
    /\ stage = "generate" /\ mode = "speculative" => generated = << >>
    /\ stage = "speculate" => position = Len(history) /\ pending \in Token
    /\ stage \notin {"idle", "generate", "speculate"} => generated = << >>
    /\ stage # "idle" => answer = "none"
    /\ \A i \in 1 .. Len(generated) :
           i < Len(generated) \/ Replying => generated[i] \notin StopTokens
    /\ Len(generated) <= budget
    /\ answer = "E" =>
           \/ Len(generated) = budget
           \/ generated # << >> /\ generated[Len(generated)] \in StopTokens

\* What the live layers hold, stage by stage.  A checkpoint of a declared
\* prefix is only taken by a request that started over.
LiveState ==
    /\ stage = "prefill" /\ filled = 0 => ~ tainted
    /\ stage = "checkpoint" => ~ tainted
    /\ ~ tainted =>
        /\ stage \in {"idle", "resume"} /\ history # << >> => Processed(history)
        /\ Prefilling => Processed(FirstTokens(prompt, filled))
        /\ stage = "save" => Processed(prompt) /\ logits = prompt
        /\ Replying => Processed(history) /\ logits = history

\* The TURN slot holds the recurrent state of its tokens, and the rows are
\* there whenever the request loop may rely on them.
TurnState ==
    turnTokens # << >> /\ ~ gap =>
        /\ turnGdn = turnTokens
        /\ stage \in {"idle", "resume", "generate", "speculate"} =>
               Holds(kv, turnTokens)

Inv ==
    /\ TypeOK
    /\ Progress
    /\ LiveState
    /\ TurnState
    /\ SystemSlotSelfContained

USE DEF requestVars, replyVars, turnVars, systemVars, layerVars, ghostVars,
        keepRequest, keepCheckpoints

-----------------------------------------------------------------------------
(* What the building blocks of the actions do.                             *)

LEMMA Sizes ==
    /\ Capacity \in Nat \ {0}
    /\ MaximumNew \in Nat \ {0}
    /\ \A s \in Seq(Token) : Len(s) \in Nat /\ (s = << >> <=> Len(s) = 0)
<1>1. \A s \in Seq(Token) : Len(s) \in Nat /\ (s = << >> <=> Len(s) = 0)
    BY EmptySeq, LenProperties
<1> QED
    BY <1>1, LayerAssumption, ChatAssumption

\* Forwarding tokens at their own positions extends what was processed, and
\* never disturbs rows below.
LEMMA ForwardStep ==
    ASSUME TypeOK, NEW at \in Nat, NEW tokens \in Seq(Token),
           Forward(at, tokens)
    PROVE  /\ gdn' \in Content
           /\ kv' \in [Rows -> Content]
           /\ \A s \in Seq(Token) :
                  Processed(s) /\ Len(s) = at /\ at + Len(tokens) <= Capacity
                  => gdn' = s \o tokens /\ Holds(kv', s \o tokens)
           /\ \A s \in Seq(Token) :
                  Holds(kv, s) /\ Len(s) <= at => Holds(kv', s)
<1> DEFINE context == Advance(gdn, kv, at, tokens)
<1>1. gdn \in Content /\ kv \in [Rows -> Content] /\ Len(tokens) \in Nat
    BY Sizes DEF TypeOK
<1>2. gdn' = context /\ kv' = WriteRows(kv, at, Len(tokens), context)
    BY DEF Forward
<1>3. context \in Content
    BY <1>1, ForwardType
<1>4. kv' \in [Rows -> Content]
    BY <1>1, <1>2, <1>3, WriteRowsType
<1>5. ASSUME NEW s \in Seq(Token),
             Processed(s), Len(s) = at, at + Len(tokens) <= Capacity
      PROVE  gdn' = s \o tokens /\ Holds(kv', s \o tokens)
    BY <1>1, <1>2, <1>5, ForwardExtends DEF Processed
<1>6. ASSUME NEW s \in Seq(Token), Holds(kv, s), Len(s) <= at
      PROVE  Holds(kv', s)
    BY <1>1, <1>2, <1>6, WriteKeepsBelow
<1> QED
    BY <1>2, <1>3, <1>4, <1>5, <1>6

LEMMA ResetStep ==
    ASSUME ResetLayers
    PROVE  /\ gdn' = << >> /\ gdn' \in Content
           /\ kv' \in [Rows -> Content]
           /\ Holds(kv', << >>)
BY ContentFacts, Sizes, EmptySeq DEF ResetLayers, Zeroed, Holds

\* A span of the prompt appended to the prompt up to it.
LEMMA SpanFacts ==
    ASSUME prompt \in Seq(Token),
           NEW from \in 0 .. Len(prompt), NEW to \in from .. Len(prompt)
    PROVE  /\ Span(from, to) \in Seq(Token)
           /\ Len(Span(from, to)) = to - from
           /\ FirstTokens(prompt, from) \o Span(from, to) = FirstTokens(prompt, to)
<1>1. Len(prompt) \in Nat /\ \A i \in 1 .. Len(prompt) : prompt[i] \in Token
    BY LenProperties, ElementOfSeq
<1>2. Span(from, to) \in Seq(Token) /\ Len(Span(from, to)) = to - from
    <2>1. \A i \in from + 1 .. to : prompt[i] \in Token
        BY <1>1
    <2> QED
        BY <1>1, <2>1, SubSeqProperties DEF Span
<1>3. FirstTokens(prompt, from) \o Span(from, to) = FirstTokens(prompt, to)
    <2>1. /\ 1 \in 1 .. Len(prompt) + 1 /\ from \in 1 - 1 .. Len(prompt)
        BY <1>1
    <2> QED
        BY <2>1, ConcatAdjacentSubSeq DEF FirstTokens, Span
<1> QED
    BY <1>2, <1>3

LEMMA WholePrompt ==
    ASSUME prompt \in Seq(Token)
    PROVE  /\ FirstTokens(prompt, Len(prompt)) = prompt
           /\ FirstTokens(prompt, 0) = << >>
<1>1. FirstTokens(prompt, Len(prompt)) = prompt
    BY SubSeqFull DEF FirstTokens
<1>2. FirstTokens(prompt, 0) = << >>
    BY SubSeqEmpty DEF FirstTokens
<1> QED
    BY <1>1, <1>2

-----------------------------------------------------------------------------
(* The invariant holds initially and every action preserves it.            *)

LEMMA InitInv == Init => Inv
<1> SUFFICES ASSUME Init PROVE Inv
    OBVIOUS
<1> USE DEF Init
<1>0. << >> \in Seq(Token) /\ Zeroed \in Content
    BY ContentFacts DEF Zeroed
<1>1. TypeOK
    <2>1. /\ stage \in Stages
          /\ mode \in Modes
          /\ answer \in {"none", "E", "X"}
        BY DEF Stages, Modes
    <2>2. /\ prefixCount \in Nat /\ budget \in Nat \ {0} /\ filled \in Nat
          /\ position \in Nat /\ systemRows \in Nat
        OBVIOUS
    <2>3. /\ prompt \in Seq(Token) /\ generated \in Seq(Token)
          /\ history \in Seq(Token) /\ turnTokens \in Seq(Token)
          /\ systemTokens \in Seq(Token)
        BY <1>0
    <2>4. /\ gdn \in Content /\ logits \in Content /\ turnGdn \in Content
          /\ systemGdn \in Content
          /\ kv \in [Rows -> Content] /\ systemKv \in [Rows -> Content]
        BY <1>0
    <2>5. pending \in Token \cup {Bad}
        OBVIOUS
    <2>6. systemValid \in BOOLEAN /\ gap \in BOOLEAN /\ tainted \in BOOLEAN
        OBVIOUS
    <2> QED
        BY <2>1, <2>2, <2>3, <2>4, <2>5, <2>6 DEF TypeOK
<1>2. Progress
    BY Sizes, EmptySeq DEF Progress, Prefilling, Replying
<1>3. LiveState
    BY DEF LiveState, Prefilling, Replying
<1>4. TurnState
    BY DEF TurnState
<1>5. SystemSlotSelfContained
    BY DEF SystemSlotSelfContained
<1> QED
    BY <1>1, <1>2, <1>3, <1>4, <1>5 DEF Inv

LEMMA RejectInv == Inv /\ Reject => Inv'
<1> SUFFICES ASSUME Inv, Reject PROVE Inv'
    OBVIOUS
<1> USE DEF Inv, Reject
<1>1. TypeOK'
    BY EmptySeq DEF TypeOK
<1>2. Progress'
    BY Sizes, EmptySeq DEF Progress, Prefilling, Replying, TypeOK
<1>3. LiveState'
    BY DEF LiveState, Prefilling, Replying, Processed
<1>4. TurnState'
    BY DEF TurnState
<1>5. SystemSlotSelfContained'
    BY DEF SystemSlotSelfContained
<1> QED
    BY <1>1, <1>2, <1>3, <1>4, <1>5

LEMMA AcceptInv ==
    ASSUME Inv, NEW p \in Prompts, NEW maxNew \in 1 .. MaximumNew,
           NEW use \in Modes, NEW declared \in PrefixLengths(p),
           Accept(p, declared, maxNew, use)
    PROVE  Inv'
<1> USE DEF Inv, Accept
<1>0. /\ p \in Seq(Token) /\ Len(p) \in Nat /\ Capacity \in Nat
      /\ declared \in Nat /\ declared <= Len(p)
      /\ budget' \in Nat \ {0} /\ Len(p) + budget' <= Capacity
    BY Sizes, ChatAssumption DEF PrefixLengths, Lesser
<1>1. TypeOK'
    BY <1>0, EmptySeq DEF TypeOK, Stages
<1>2. Progress'
    BY <1>0, Sizes, EmptySeq DEF Progress, Prefilling, Replying
<1>3. LiveState'
    BY DEF LiveState, Prefilling, Replying, Processed
<1>4. TurnState'
    BY DEF TurnState
<1>5. SystemSlotSelfContained'
    BY DEF SystemSlotSelfContained
<1> QED
    BY <1>1, <1>2, <1>3, <1>4, <1>5

\* What a checkpoint that the prompt extends says about the prompt.
LEMMA ExtendsFacts ==
    ASSUME prompt \in Seq(Token), NEW c \in Seq(Token), Extends(c)
    PROVE  /\ Len(c) \in 1 .. Len(prompt)
           /\ Len(c) < Len(prompt)
           /\ prompt # << >>
           /\ FirstTokens(prompt, Len(c)) = c
BY Sizes DEF Extends

\* All four ways to resume keep the bookkeeping.
LEMMA ResumeProgress ==
    ASSUME TypeOK, Progress, StartPrefill, filled' \in Nat,
           filled' <= Len(prompt), prompt # << >> => filled' < Len(prompt)
    PROVE  Progress'
BY Sizes DEF TypeOK, Progress, StartPrefill, Prefilling, Replying

LEMMA ContinueHistoryInv == Inv /\ ContinueHistory => Inv'
<1> SUFFICES ASSUME Inv, ContinueHistory PROVE Inv'
    OBVIOUS
<1> USE DEF Inv, ContinueHistory
<1>0. /\ prompt \in Seq(Token) /\ history \in Seq(Token)
      /\ Len(history) \in 1 .. Len(prompt) /\ Len(history) < Len(prompt)
      /\ FirstTokens(prompt, Len(history)) = history /\ history # << >>
    BY ExtendsFacts DEF TypeOK, Extends
<1>1. TypeOK'
    BY <1>0, Sizes DEF TypeOK, StartPrefill, Stages
<1>2. Progress'
    BY <1>0, <1>1, ResumeProgress, Sizes DEF TypeOK
<1>3. LiveState'
    BY <1>0 DEF LiveState, StartPrefill, Prefilling, Replying, Processed
<1>4. TurnState'
    BY DEF TurnState, StartPrefill
<1>5. SystemSlotSelfContained'
    BY DEF SystemSlotSelfContained, StartPrefill
<1> QED
    BY <1>1, <1>2, <1>3, <1>4, <1>5

LEMMA RestoreTurnInv == Inv /\ RestoreTurn => Inv'
<1> SUFFICES ASSUME Inv, RestoreTurn PROVE Inv'
    OBVIOUS
<1> USE DEF Inv, RestoreTurn
<1>0. /\ prompt \in Seq(Token) /\ turnTokens \in Seq(Token)
      /\ Len(turnTokens) \in 1 .. Len(prompt) /\ Len(turnTokens) < Len(prompt)
      /\ FirstTokens(prompt, Len(turnTokens)) = turnTokens
      /\ turnTokens # << >>
    BY ExtendsFacts DEF TypeOK, Extends
<1>1. TypeOK'
    BY <1>0, Sizes, EmptySeq DEF TypeOK, StartPrefill, Stages
<1>2. Progress'
    BY <1>0, <1>1, ResumeProgress, Sizes DEF TypeOK
<1>3. LiveState'
    BY <1>0, Sizes DEF LiveState, TurnState, StartPrefill, Prefilling, Replying, Processed
<1>4. TurnState'
    BY DEF TurnState, StartPrefill
<1>5. SystemSlotSelfContained'
    BY DEF SystemSlotSelfContained, StartPrefill
<1> QED
    BY <1>1, <1>2, <1>3, <1>4, <1>5

LEMMA RestoreSystemInv == Inv /\ RestoreSystem => Inv'
<1> SUFFICES ASSUME Inv, RestoreSystem PROVE Inv'
    OBVIOUS
<1> USE DEF Inv, RestoreSystem
<1>0. /\ prompt \in Seq(Token) /\ systemTokens \in Seq(Token)
      /\ Len(systemTokens) \in 1 .. Len(prompt)
      /\ Len(systemTokens) < Len(prompt)
      /\ FirstTokens(prompt, Len(systemTokens)) = systemTokens
      /\ systemValid
    BY ExtendsFacts DEF TypeOK, Extends, ExtendsSystem
<1>1. /\ systemGdn = systemTokens /\ systemRows = Len(systemTokens)
      /\ Holds(systemKv, systemTokens)
    BY <1>0 DEF SystemSlotSelfContained
<1>2. kv' \in [Rows -> Content] /\ Holds(kv', systemTokens)
    BY <1>0, <1>1, OverlayFacts DEF TypeOK
<1>3. TypeOK'
    BY <1>0, <1>2, Sizes, EmptySeq DEF TypeOK, StartPrefill, Stages
<1>4. Progress'
    BY <1>0, <1>3, ResumeProgress, Sizes DEF TypeOK
<1>5. LiveState'
    BY <1>0, <1>1, <1>2
    DEF LiveState, StartPrefill, Prefilling, Replying, Processed
<1>6. TurnState'
    BY DEF TurnState, StartPrefill
<1>7. SystemSlotSelfContained'
    BY DEF SystemSlotSelfContained, StartPrefill
<1> QED
    BY <1>3, <1>4, <1>5, <1>6, <1>7

LEMMA StartOverInv == Inv /\ StartOver => Inv'
<1> SUFFICES ASSUME Inv, StartOver PROVE Inv'
    OBVIOUS
<1> USE DEF Inv, StartOver
<1>0. prompt \in Seq(Token) /\ Len(prompt) \in Nat
    BY Sizes DEF TypeOK
<1>1. TypeOK'
    BY ResetStep, EmptySeq DEF TypeOK, StartPrefill, Stages
<1>2. Progress'
    BY <1>0, ResumeProgress, Sizes
<1>3. LiveState'
    BY <1>0, ResetStep, WholePrompt
    DEF LiveState, StartPrefill, Prefilling, Replying, Processed
<1>4. TurnState'
    BY DEF TurnState, StartPrefill
<1>5. SystemSlotSelfContained'
    BY DEF SystemSlotSelfContained, StartPrefill
<1> QED
    BY <1>1, <1>2, <1>3, <1>4, <1>5

\* Prefilling a span: whatever the prompt's state was, it is now that of the
\* longer prefix.
LEMMA PrefillSpan ==
    ASSUME TypeOK, Progress, LiveState, NEW to \in filled .. Len(prompt),
           Prefilling, Forward(filled, Span(filled, to))
    PROVE  /\ gdn' \in Content
           /\ kv' \in [Rows -> Content]
           /\ ~ tainted => /\ gdn' = FirstTokens(prompt, to)
                           /\ Holds(kv', FirstTokens(prompt, to))
<1>1. /\ prompt \in Seq(Token) /\ Len(prompt) \in Nat /\ Capacity \in Nat
      /\ filled \in 0 .. Len(prompt) /\ Len(prompt) <= Capacity
    BY Sizes DEF TypeOK, Progress
<1>2. /\ Span(filled, to) \in Seq(Token)
      /\ Len(Span(filled, to)) = to - filled
      /\ FirstTokens(prompt, filled) \o Span(filled, to) = FirstTokens(prompt, to)
    BY <1>1, SpanFacts
<1>3. /\ FirstTokens(prompt, filled) \in Seq(Token)
      /\ Len(FirstTokens(prompt, filled)) = filled
    BY <1>1, FirstTokensFacts
<1>4. ~ tainted => Processed(FirstTokens(prompt, filled))
    BY DEF LiveState
<1>5. filled + Len(Span(filled, to)) <= Capacity
    BY <1>1, <1>2
<1>6. /\ gdn' \in Content
      /\ kv' \in [Rows -> Content]
      /\ \A s \in Seq(Token) :
             Processed(s) /\ Len(s) = filled
             => /\ gdn' = s \o Span(filled, to)
                /\ Holds(kv', s \o Span(filled, to))
    BY <1>1, <1>2, <1>5, ForwardStep
<1> QED
    BY <1>2, <1>3, <1>4, <1>6

LEMMA PrefillPrefixInv == Inv /\ PrefillPrefix => Inv'
<1> SUFFICES ASSUME Inv, PrefillPrefix PROVE Inv'
    OBVIOUS
<1> USE DEF Inv, PrefillPrefix
<1>0. /\ prompt \in Seq(Token) /\ Len(prompt) \in Nat /\ prompt # << >>
      /\ Boundary \in Nat /\ filled \in Nat
      /\ filled < Boundary /\ Boundary < Len(prompt) /\ filled = 0
    BY Sizes DEF TypeOK, Progress, Prefilling, Boundary, PrefillEnd
<1>1. /\ gdn' \in Content
      /\ kv' \in [Rows -> Content]
      /\ ~ tainted => /\ gdn' = FirstTokens(prompt, Boundary)
                      /\ Holds(kv', FirstTokens(prompt, Boundary))
    BY <1>0, PrefillSpan DEF Prefilling
<1>2. TypeOK'
    BY <1>0, <1>1 DEF TypeOK, Stages
<1>3. Progress'
    BY <1>0 DEF Progress, Prefilling, Replying
<1>4. LiveState'
    BY <1>0, <1>1 DEF LiveState, Prefilling, Replying, Processed
<1>5. TurnState'
    BY DEF TurnState
<1>6. SystemSlotSelfContained'
    BY DEF SystemSlotSelfContained
<1> QED
    BY <1>2, <1>3, <1>4, <1>5, <1>6

LEMMA SaveSystemInv == Inv /\ SaveSystem => Inv'
<1> SUFFICES ASSUME Inv, SaveSystem PROVE Inv'
    OBVIOUS
<1> USE DEF Inv, SaveSystem
<1>0. /\ prompt \in Seq(Token) /\ Len(prompt) \in Nat /\ prompt # << >>
      /\ filled \in 0 .. Len(prompt) /\ Prefilling
      /\ FirstTokens(prompt, filled) \in Seq(Token)
      /\ Len(FirstTokens(prompt, filled)) = filled
    BY Sizes, FirstTokensFacts DEF TypeOK, Progress, Prefilling
<1>1. TypeOK'
    BY <1>0, OverlayType DEF TypeOK, Stages
<1>2. Progress'
    BY <1>0 DEF Progress, Prefilling, Replying
<1>3. LiveState'
    BY DEF LiveState, Prefilling, Replying, Processed
<1>4. TurnState'
    BY DEF TurnState
<1>5. SystemSlotSelfContained'
    <2>1. gdn = FirstTokens(prompt, filled)
          /\ Holds(kv, FirstTokens(prompt, filled))
        BY <1>0 DEF Processed, LiveState, Progress
    <2> QED
        BY <1>0, <2>1, OverlayFacts DEF SystemSlotSelfContained, TypeOK
<1> QED
    BY <1>1, <1>2, <1>3, <1>4, <1>5

LEMMA SaveSystemFailsInv == Inv /\ SaveSystemFails => Inv'
<1> SUFFICES ASSUME Inv, SaveSystemFails PROVE Inv'
    OBVIOUS
<1> USE DEF Inv, SaveSystemFails
<1>1. TypeOK'
    BY ContentFacts DEF TypeOK, Stages
<1>2. Progress'
    BY DEF Progress, Prefilling, Replying
<1>3. LiveState'
    BY DEF LiveState, Prefilling, Replying, Processed
<1>4. TurnState'
    BY DEF TurnState
<1>5. SystemSlotSelfContained'
    BY DEF SystemSlotSelfContained
<1> QED
    BY <1>1, <1>2, <1>3, <1>4, <1>5

LEMMA PrefillSuffixInv == Inv /\ PrefillSuffix => Inv'
<1> SUFFICES ASSUME Inv, PrefillSuffix PROVE Inv'
    OBVIOUS
<1> USE DEF Inv, PrefillSuffix
<1>0. /\ prompt \in Seq(Token) /\ Len(prompt) \in Nat /\ prompt # << >>
      /\ filled \in Nat /\ PrefillEnd \in filled .. Len(prompt)
      /\ PrefillEnd \in Nat /\ PrefillEnd + 1 = Len(prompt)
    BY Sizes DEF TypeOK, Progress, Prefilling, PrefillEnd
<1>1. /\ gdn' \in Content
      /\ kv' \in [Rows -> Content]
      /\ ~ tainted => /\ gdn' = FirstTokens(prompt, PrefillEnd)
                      /\ Holds(kv', FirstTokens(prompt, PrefillEnd))
    BY <1>0, PrefillSpan DEF Prefilling
<1>2. TypeOK'
    BY <1>0, <1>1 DEF TypeOK, Stages
<1>3. Progress'
    BY <1>0 DEF Progress, Prefilling, Replying
<1>4. LiveState'
    BY <1>0, <1>1 DEF LiveState, Prefilling, Replying, Processed
<1>5. TurnState'
    BY DEF TurnState
<1>6. SystemSlotSelfContained'
    BY DEF SystemSlotSelfContained
<1> QED
    BY <1>2, <1>3, <1>4, <1>5, <1>6

LEMMA ForwardPromptInv == Inv /\ ForwardPrompt => Inv'
<1> SUFFICES ASSUME Inv, ForwardPrompt PROVE Inv'
    OBVIOUS
<1> USE DEF Inv, ForwardPrompt
<1>0. /\ prompt \in Seq(Token) /\ Len(prompt) \in Nat /\ prompt # << >>
      /\ filled \in Nat /\ Len(prompt) \in filled .. Len(prompt)
    BY Sizes DEF TypeOK, Progress, Prefilling
<1>1. /\ gdn' \in Content
      /\ kv' \in [Rows -> Content]
      /\ ~ tainted => gdn' = prompt /\ Holds(kv', prompt)
    BY <1>0, PrefillSpan, WholePrompt DEF Prefilling
<1>2. TypeOK'
    BY <1>0, <1>1 DEF TypeOK, Stages
<1>3. Progress'
    BY <1>0 DEF Progress, Prefilling, Replying
<1>4. LiveState'
    BY <1>0, <1>1 DEF LiveState, Prefilling, Replying, Processed
<1>5. TurnState'
    BY DEF TurnState
<1>6. SystemSlotSelfContained'
    BY DEF SystemSlotSelfContained
<1> QED
    BY <1>2, <1>3, <1>4, <1>5, <1>6

\* What the invariant says of the reply at every moment.
LEMMA ReplySoFar ==
    ASSUME Inv
    PROVE  /\ generated \in Seq(Token)
           /\ Len(generated) <= budget
           /\ \A i \in 1 .. Len(generated) :
                  i < Len(generated) => generated[i] \notin StopTokens
BY DEF Inv, TypeOK, Progress

\* The failure exit: the reset layers belong to the empty history, and if a
\* TURN checkpoint survives, its rows are recorded as gone.
LEMMA FailInv ==
    ASSUME Inv, FailAndReset, answer' \in {"none", "X"},
           generated' \in Seq(Token), Len(generated') <= budget,
           \A i \in 1 .. Len(generated') :
               i < Len(generated') => generated'[i] \notin StopTokens,
           UNCHANGED <<requestVars, pending, position, turnVars, systemVars>>,
           filled' = filled, logits' = logits
    PROVE  Inv'
<1> USE DEF Inv, FailAndReset
<1>1. TypeOK'
    <2>1. gap' \in BOOLEAN /\ tainted' \in BOOLEAN
        OBVIOUS
    <2> QED
        BY <2>1, ResetStep, EmptySeq DEF TypeOK, Stages
<1>2. Progress'
    BY DEF Progress, Prefilling, Replying
<1>3. LiveState'
    BY DEF LiveState, Prefilling, Replying, Processed
<1>4. TurnState'
    BY DEF TurnState
<1>5. SystemSlotSelfContained'
    BY DEF SystemSlotSelfContained
<1> QED
    BY <1>1, <1>2, <1>3, <1>4, <1>5

LEMMA PromptFailsInv == Inv /\ PromptFails => Inv'
<1> SUFFICES ASSUME Inv, PromptFails PROVE Inv'
    OBVIOUS
<1>1. answer = "none"
    BY DEF Inv, Progress, PromptFails
<1>2. FailAndReset /\ answer' = answer /\ generated' = generated
    BY DEF PromptFails
<1> QED
    BY <1>1, <1>2, ReplySoFar, FailInv DEF PromptFails

LEMMA ReplyFailsInv == Inv /\ ReplyFails => Inv'
<1> SUFFICES ASSUME Inv, ReplyFails PROVE Inv'
    OBVIOUS
<1>1. generated' = generated
    BY DEF ReplyFails
<1> QED
    BY <1>1, ReplySoFar, FailInv DEF ReplyFails, EndWithFailure

LEMMA TokenFailsInv ==
    ASSUME Inv, NEW token \in Token, TokenFails(token)
    PROVE  Inv'
<1>1. /\ generated \in Seq(Token) /\ Len(generated) \in Nat /\ budget \in Nat
      /\ \A i \in 1 .. Len(generated) : generated[i] \notin StopTokens
    BY Sizes DEF Inv, TypeOK, Progress, Replying, TokenFails
<1>2. /\ generated' \in Seq(Token)
      /\ Len(generated') = Len(generated) + 1
      /\ \A i \in 1 .. Len(generated) : generated'[i] = generated[i]
    BY <1>1, AppendProperties DEF TokenFails
<1>3. Len(generated') <= budget
    BY <1>1, <1>2 DEF TokenFails
<1>4. \A i \in 1 .. Len(generated') :
          i < Len(generated') => generated'[i] \notin StopTokens
    BY <1>1, <1>2
<1> QED
    BY <1>2, <1>3, <1>4, FailInv DEF TokenFails, EndWithFailure

\* Entering the reply: the prompt is the history, nothing generated yet.
LEMMA EnterReply ==
    ASSUME Inv, stage = "save"
    PROVE  /\ history = prompt \o generated
           /\ Len(generated) = 0
           /\ prompt \in Seq(Token) /\ prompt # << >>
           /\ budget \in Nat \ {0}
BY ConcatEmptySeq, Sizes DEF Inv, TypeOK, Progress

LEMMA SaveTurnInv == Inv /\ SaveTurn => Inv'
<1> SUFFICES ASSUME Inv, SaveTurn PROVE Inv'
    OBVIOUS
<1> USE DEF Inv, SaveTurn
<1>1. TypeOK'
    BY EnterReply DEF TypeOK, Stages
<1>2. Progress'
    BY EnterReply DEF Progress, Prefilling, Replying
<1>3. LiveState'
    BY DEF LiveState, Prefilling, Replying, Processed, Progress
<1>4. TurnState'
    BY DEF TurnState, LiveState, Processed
<1>5. SystemSlotSelfContained'
    BY DEF SystemSlotSelfContained
<1> QED
    BY <1>1, <1>2, <1>3, <1>4, <1>5

LEMMA SaveTurnFailsInv == Inv /\ SaveTurnFails => Inv'
<1> SUFFICES ASSUME Inv, SaveTurnFails PROVE Inv'
    OBVIOUS
<1> USE DEF Inv, SaveTurnFails
<1>1. TypeOK'
    BY ContentFacts, EmptySeq DEF TypeOK, Stages
<1>2. Progress'
    BY EnterReply DEF Progress, Prefilling, Replying
<1>3. LiveState'
    BY DEF LiveState, Prefilling, Replying, Processed, Progress
<1>4. TurnState'
    BY DEF TurnState
<1>5. SystemSlotSelfContained'
    BY DEF SystemSlotSelfContained
<1> QED
    BY <1>1, <1>2, <1>3, <1>4, <1>5

LEMMA SkipTurnInv == Inv /\ SkipTurn => Inv'
<1> SUFFICES ASSUME Inv, SkipTurn PROVE Inv'
    OBVIOUS
<1> USE DEF Inv, SkipTurn
<1>1. TypeOK'
    BY DEF TypeOK, Stages
<1>2. Progress'
    BY EnterReply DEF Progress, Prefilling, Replying
<1>3. LiveState'
    BY DEF LiveState, Prefilling, Replying, Processed, Progress
<1>4. TurnState'
    BY EnterReply DEF TurnState, Progress
<1>5. SystemSlotSelfContained'
    BY DEF SystemSlotSelfContained
<1> QED
    BY <1>1, <1>2, <1>3, <1>4, <1>5

LEMMA DrawPendingInv ==
    ASSUME Inv, NEW token \in Token, DrawPending(token)
    PROVE  Inv'
<1> USE DEF Inv, DrawPending
<1>1. TypeOK'
    BY Sizes DEF TypeOK, Stages
<1>2. Progress'
    <2>1. generated = << >> /\ history = prompt \o generated /\ prompt \in Seq(Token)
        BY DEF Progress, Replying, TypeOK
    <2>2. history = prompt
        BY <2>1, ConcatEmptySeq
    <2> QED
        BY <2>1, <2>2 DEF Progress, Prefilling, Replying
<1>3. LiveState'
    BY DEF LiveState, Prefilling, Replying, Processed
<1>4. TurnState'
    BY DEF TurnState
<1>5. SystemSlotSelfContained'
    BY DEF SystemSlotSelfContained
<1> QED
    BY <1>1, <1>2, <1>3, <1>4, <1>5

\* What a reply that grows by `tokens` looks like.
LEMMA Grow ==
    ASSUME Inv, NEW tokens \in Seq(Token), Replying
    PROVE  /\ generated \o tokens \in Seq(Token)
           /\ Len(generated \o tokens) = Len(generated) + Len(tokens)
           /\ \A i \in 1 .. Len(generated) :
                  (generated \o tokens)[i] = generated[i]
           /\ \A i \in 1 .. Len(tokens) :
                  (generated \o tokens)[Len(generated) + i] = tokens[i]
           /\ Len(generated) \in Nat /\ Len(tokens) \in Nat
<1>1. /\ generated \in Seq(Token)
      /\ Len(generated) \in Nat /\ Len(tokens) \in Nat
    BY Sizes DEF Inv, TypeOK
<1> QED
    BY <1>1, ConcatProperties

LEMMA EmitPendingInv == Inv /\ EmitPending => Inv'
<1> SUFFICES ASSUME Inv, EmitPending PROVE Inv'
    OBVIOUS
<1> USE DEF Inv, EmitPending, Finish
<1>a. /\ generated \in Seq(Token) /\ pending \in Token
      /\ Len(generated) \in Nat /\ Len(generated) < budget
      /\ budget \in Nat /\ Replying
    BY Sizes DEF TypeOK, Progress, Replying
<1>b. /\ generated' \in Seq(Token) /\ generated' # << >>
      /\ Len(generated') = Len(generated) + 1
      /\ \A i \in 1 .. Len(generated) : generated'[i] = generated[i]
      /\ generated'[Len(generated) + 1] = pending
    BY <1>a, AppendProperties
<1>c. generated'[Len(generated')] = pending
    BY <1>b
<1>1. TypeOK'
    BY <1>a, <1>b DEF TypeOK, Stages
<1>2. Progress'
    <2>1. \A i \in 1 .. Len(generated) : generated[i] \notin StopTokens
        BY <1>a, <1>b DEF Progress
    <2>2. \A i \in 1 .. Len(generated') :
              i < Len(generated') => generated'[i] \notin StopTokens
        BY <1>a, <1>b, <2>1
    <2>3. Len(generated') = budget \/ pending \in StopTokens
        <3>1. /\ prompt \in Seq(Token) /\ Len(prompt) \in Nat /\ Capacity \in Nat
              /\ Len(history) = Len(prompt) + Len(generated)
            BY <1>a, <1>b, <1>c, ConcatProperties, Sizes DEF Progress, TypeOK, Replying
        <3> QED
            BY <1>a, <1>b, <1>c, <3>1 DEF LastPending, Progress
    <2> QED
        BY <1>a, <1>b, <1>c, <2>2, <2>3 DEF Progress, Prefilling, Replying
<1>3. LiveState'
    BY DEF LiveState, Prefilling, Replying, Processed
<1>4. TurnState'
    BY DEF TurnState
<1>5. SystemSlotSelfContained'
    BY DEF SystemSlotSelfContained
<1> QED
    BY <1>1, <1>2, <1>3, <1>4, <1>5

\* A reply without stop tokens, extended by the first n tokens of a batch
\* without stop tokens below n, has none but possibly its last one.
LEMMA ReplyGrows ==
    ASSUME NEW reply \in Seq(Token), NEW batch \in Seq(Token),
           NEW n \in 1 .. Len(batch),
           \A i \in 1 .. Len(reply) : reply[i] \notin StopTokens,
           \A i \in 1 .. n - 1 : batch[i] \notin StopTokens
    PROVE  LET longer == reply \o FirstTokens(batch, n)
           IN  /\ longer \in Seq(Token)
               /\ Len(longer) = Len(reply) + n
               /\ longer # << >>
               /\ longer[Len(longer)] = batch[n]
               /\ \A i \in 1 .. Len(longer) :
                      i < Len(longer) => longer[i] \notin StopTokens
<1> DEFINE head == FirstTokens(batch, n)
           longer == reply \o head
<1>1. /\ Len(reply) \in Nat /\ Len(batch) \in Nat
      /\ n \in Nat /\ n >= 1 /\ n \in 0 .. Len(batch)
    BY Sizes
<1>2. /\ head \in Seq(Token) /\ Len(head) = n
      /\ \A i \in 1 .. n : head[i] = batch[i]
    BY <1>1, FirstTokensFacts
<1>3. /\ longer \in Seq(Token)
      /\ Len(longer) = Len(reply) + n
      /\ \A i \in 1 .. Len(reply) + n :
             longer[i] = IF i <= Len(reply) THEN reply[i]
                                            ELSE head[i - Len(reply)]
    BY <1>2, ConcatProperties
<1> HIDE DEF head, longer
<1>4. longer[Len(longer)] = batch[n]
    <2>1. Len(longer) \in 1 .. Len(reply) + n /\ ~ (Len(longer) <= Len(reply))
        BY <1>1, <1>3
    <2>2. Len(longer) - Len(reply) = n /\ n \in 1 .. n
        BY <1>1, <1>3
    <2> QED
        BY <1>2, <1>3, <2>1, <2>2
<1>5. ASSUME NEW i \in 1 .. Len(longer), i < Len(longer)
      PROVE  longer[i] \notin StopTokens
    <2>1. i \in 1 .. Len(reply) + n /\ i \in Nat /\ i < Len(reply) + n
        BY <1>1, <1>3, <1>5
    <2>2. CASE i <= Len(reply)
        BY <1>1, <1>3, <2>1, <2>2
    <2>3. CASE ~ (i <= Len(reply))
        <3>1. /\ i - Len(reply) \in 1 .. n - 1
              /\ i - Len(reply) \in 1 .. n
            BY <1>1, <2>1, <2>3
        <3>2. longer[i] = head[i - Len(reply)]
            BY <1>3, <2>1, <2>3
        <3>3. longer[i] = batch[i - Len(reply)]
            BY <1>2, <3>1, <3>2
        <3> QED
            BY <3>1, <3>3
    <2> QED
        BY <2>2, <2>3
<1>6. longer # << >>
    <2>1. Len(longer) # 0
        BY <1>1, <1>3
    <2> QED
        BY <1>3, <2>1, Sizes
<1> QED
    BY <1>3, <1>4, <1>5, <1>6 DEF head, longer

LEMMA LesserLeft ==
    ASSUME NEW m \in Int, NEW n \in Int, m <= n
    PROVE  Lesser(m, n) = m
BY DEF Lesser

LEMMA TokensAssociate ==
    ASSUME NEW s \in Seq(Token), NEW t \in Seq(Token), NEW u \in Seq(Token)
    PROVE  (s \o t) \o u = s \o (t \o u)
BY ConcatAssociative

\* Forwarding reply tokens behind the history keeps history and layers equal,
\* and leaves the rows of the prompt alone.
LEMMA ReplyForward ==
    ASSUME Inv, Replying, NEW tokens \in Seq(Token),
           Len(history) + Len(tokens) <= Capacity,
           Forward(Len(history), tokens), Remember(tokens)
    PROVE  /\ gdn' \in Content /\ kv' \in [Rows -> Content]
           /\ history' \in Seq(Token) /\ history' = history \o tokens
           /\ history' = prompt \o (generated \o tokens)
           /\ Len(history') = Len(history) + Len(tokens)
           /\ ~ tainted => gdn' = history' /\ Holds(kv', history')
           /\ turnTokens # << >> /\ ~ gap => Holds(kv', turnTokens)
<1> USE DEF Inv
<1>1. /\ prompt \in Seq(Token) /\ generated \in Seq(Token)
      /\ history \in Seq(Token) /\ history = prompt \o generated
      /\ Len(prompt) \in Nat /\ Len(generated) \in Nat
      /\ Len(history) \in Nat /\ Len(tokens) \in Nat /\ Capacity \in Nat
      /\ turnTokens \in Seq(Token)
    BY Sizes DEF TypeOK, Progress
<1>2. Len(history) = Len(prompt) + Len(generated)
    BY <1>1, ConcatProperties
<1>3. history' = history \o tokens
    <2>1. Capacity - Len(history) \in Int
          /\ Len(tokens) <= Capacity - Len(history)
        BY <1>1
    <2>2. Lesser(Len(tokens), Capacity - Len(history)) = Len(tokens)
        BY <1>1, <2>1, LesserLeft
    <2>3. SubSeq(tokens, 1, Len(tokens)) = tokens
        BY SubSeqFull
    <2> QED
        BY <2>2, <2>3 DEF Remember
<1>4. history' \in Seq(Token) /\ Len(history') = Len(history) + Len(tokens)
    BY <1>1, <1>3, ConcatProperties
<1>5. history' = prompt \o (generated \o tokens)
    <2>1. (prompt \o generated) \o tokens = prompt \o (generated \o tokens)
        <3>1. /\ prompt \in Seq(Token) /\ generated \in Seq(Token)
              /\ tokens \in Seq(Token)
            BY <1>1
        <3> QED
            BY <3>1, TokensAssociate, Zenon
    <2> QED
        BY <1>1, <1>3, <2>1
<1>6. /\ gdn' \in Content /\ kv' \in [Rows -> Content]
      /\ \A s \in Seq(Token) :
             Processed(s) /\ Len(s) = Len(history)
             => gdn' = s \o tokens /\ Holds(kv', s \o tokens)
      /\ \A s \in Seq(Token) :
             Holds(kv, s) /\ Len(s) <= Len(history) => Holds(kv', s)
    BY <1>1, ForwardStep
<1>7. ~ tainted => Processed(history)
    BY DEF LiveState
<1>8. turnTokens # << >> /\ ~ gap =>
          Holds(kv, turnTokens) /\ Len(turnTokens) <= Len(history)
    BY <1>1, <1>2 DEF TurnState, Progress, Replying
<1> QED
    BY <1>1, <1>3, <1>4, <1>5, <1>6, <1>7, <1>8

LEMMA PlainTokenInv ==
    ASSUME Inv, NEW token \in Token, PlainToken(token)
    PROVE  Inv'
<1> USE DEF Inv, PlainToken
<1>1. /\ generated \in Seq(Token) /\ prompt \in Seq(Token) /\ history \in Seq(Token)
      /\ Len(generated) \in Nat /\ Len(prompt) \in Nat /\ Capacity \in Nat
      /\ Len(generated) < budget /\ budget \in Nat /\ Replying
      /\ history = prompt \o generated
      /\ Len(prompt) + budget <= Capacity
    BY Sizes DEF TypeOK, Progress, Replying
<1>2. /\ generated' \in Seq(Token) /\ generated' # << >>
      /\ generated' = generated \o <<token>>
      /\ Len(generated') = Len(generated) + 1
      /\ \A i \in 1 .. Len(generated) : generated'[i] = generated[i]
      /\ generated'[Len(generated) + 1] = token
    BY <1>1, AppendProperties, AppendIsConcat
<1>3. \A i \in 1 .. Len(generated) : generated[i] \notin StopTokens
    BY <1>1 DEF Progress
<1>4. \A i \in 1 .. Len(generated') :
          i < Len(generated') => generated'[i] \notin StopTokens
    BY <1>1, <1>2, <1>3
<1>5. CASE token \in StopTokens \/ Len(generated) + 1 = budget
    <2>1. TypeOK'
        BY <1>2, <1>5 DEF TypeOK, Finish, Stages
    <2>2. Progress'
        BY <1>1, <1>2, <1>4, <1>5 DEF Progress, Prefilling, Replying, Finish
    <2>3. LiveState'
        BY <1>5 DEF LiveState, Prefilling, Replying, Processed, Finish
    <2>4. TurnState'
        BY <1>5 DEF TurnState, Finish
    <2>5. SystemSlotSelfContained'
        BY DEF SystemSlotSelfContained
    <2> QED
        BY <2>1, <2>2, <2>3, <2>4, <2>5
<1>6. CASE ~ (token \in StopTokens \/ Len(generated) + 1 = budget)
    <2>1. <<token>> \in Seq(Token) /\ Len(<<token>>) = 1
        OBVIOUS
    <2>2. Len(history) = Len(prompt) + Len(generated)
        BY <1>1, ConcatProperties
    <2>3. /\ gdn' \in Content /\ kv' \in [Rows -> Content]
          /\ history' \in Seq(Token)
          /\ history' = prompt \o generated'
          /\ ~ tainted => gdn' = history' /\ Holds(kv', history')
          /\ turnTokens # << >> /\ ~ gap => Holds(kv', turnTokens)
        <3>1. Len(history) + Len(<<token>>) <= Capacity
            BY <1>1, <2>1, <2>2
        <3>2. Forward(Len(history), <<token>>) /\ Remember(<<token>>)
            BY <1>6, <2>2
        <3> QED
            BY <1>1, <1>2, <2>1, <3>1, <3>2, ReplyForward
    <2>4. TypeOK'
        BY <1>2, <1>6, <2>3 DEF TypeOK
    <2>5. Progress'
        BY <1>1, <1>2, <1>3, <1>6, <2>3 DEF Progress, Prefilling, Replying
    <2>6. LiveState'
        BY <1>6, <2>3 DEF LiveState, Prefilling, Replying, Processed
    <2>7. TurnState'
        BY <2>3, <1>6 DEF TurnState
    <2>8. SystemSlotSelfContained'
        BY DEF SystemSlotSelfContained
    <2> QED
        BY <2>4, <2>5, <2>6, <2>7, <2>8
<1> QED
    BY <1>5, <1>6

\* A batch that ends the reply at its n-th token.
LEMMA ReplyEnds ==
    ASSUME NEW reply \in Seq(Token), NEW batch \in Seq(Token),
           NEW n \in 1 .. Len(batch), NEW limit \in Nat, Len(reply) < limit,
           \A i \in 1 .. Len(reply) : reply[i] \notin StopTokens,
           batch[n] \in StopTokens \/ Len(reply) + n >= limit,
           \A i \in 1 .. n - 1 :
               batch[i] \notin StopTokens /\ Len(reply) + i < limit
    PROVE  LET longer == reply \o FirstTokens(batch, n)
           IN  /\ longer \in Seq(Token)
               /\ Len(longer) <= limit
               /\ \/ Len(longer) = limit
                  \/ longer # << >> /\ longer[Len(longer)] \in StopTokens
               /\ \A i \in 1 .. Len(longer) :
                      i < Len(longer) => longer[i] \notin StopTokens
<1> DEFINE longer == reply \o FirstTokens(batch, n)
<1>1. /\ Len(reply) \in Nat /\ Len(batch) \in Nat
      /\ n \in Nat /\ n >= 1
    BY Sizes
<1>2. /\ longer \in Seq(Token)
      /\ Len(longer) = Len(reply) + n
      /\ longer # << >>
      /\ longer[Len(longer)] = batch[n]
      /\ \A i \in 1 .. Len(longer) :
             i < Len(longer) => longer[i] \notin StopTokens
    <2>1. \A i \in 1 .. n - 1 : batch[i] \notin StopTokens
        OBVIOUS
    <2> QED
        BY <2>1, ReplyGrows
<1> HIDE DEF longer
<1>3. Len(reply) + n <= limit
    <2>1. CASE n = 1
        BY <1>1, <2>1
    <2>2. CASE n # 1
        <3>1. n - 1 \in 1 .. n - 1
            BY <1>1, <2>2
        <3>2. Len(reply) + (n - 1) < limit
            BY <3>1
        <3> QED
            BY <1>1, <3>2
    <2> QED
        BY <2>1, <2>2
<1>4. Len(longer) = limit \/ batch[n] \in StopTokens
    <2>1. ASSUME Len(reply) + n >= limit PROVE Len(longer) = limit
        <3>1. Len(reply) + n = limit
            BY <1>1, <1>3, <2>1
        <3> QED
            BY <1>2, <3>1
    <2>2. batch[n] \in StopTokens \/ Len(reply) + n >= limit
        OBVIOUS
    <2> QED
        BY <2>1, <2>2, Zenon
<1> QED
    BY <1>1, <1>2, <1>3, <1>4 DEF longer

\* A batch that does not end the reply.
LEMMA ReplyContinues ==
    ASSUME NEW reply \in Seq(Token), NEW batch \in Seq(Token),
           Len(batch) \in Nat \ {0}, NEW limit \in Nat,
           \A i \in 1 .. Len(reply) : reply[i] \notin StopTokens,
           \A i \in 1 .. Len(batch) :
               batch[i] \notin StopTokens /\ Len(reply) + i < limit
    PROVE  LET longer == reply \o batch
           IN  /\ longer \in Seq(Token)
               /\ Len(longer) < limit
               /\ \A i \in 1 .. Len(longer) : longer[i] \notin StopTokens
<1> DEFINE longer == reply \o batch
<1>1. /\ Len(reply) \in Nat
      /\ Len(batch) \in 1 .. Len(batch)
      /\ FirstTokens(batch, Len(batch)) = batch
    BY Sizes, SubSeqFull DEF FirstTokens
<1>2. /\ longer \in Seq(Token)
      /\ Len(longer) = Len(reply) + Len(batch)
      /\ longer[Len(longer)] = batch[Len(batch)]
      /\ \A i \in 1 .. Len(longer) :
             i < Len(longer) => longer[i] \notin StopTokens
    <2>1. \A i \in 1 .. Len(batch) - 1 : batch[i] \notin StopTokens
        OBVIOUS
    <2> QED
        BY <1>1, <2>1, ReplyGrows
<1> HIDE DEF longer
<1>3. Len(longer) < limit /\ batch[Len(batch)] \notin StopTokens
    BY <1>1, <1>2
<1>4. ASSUME NEW i \in 1 .. Len(longer) PROVE longer[i] \notin StopTokens
    <2>1. Len(longer) \in Nat
        BY <1>1, <1>2
    <2>2. i < Len(longer) \/ i = Len(longer)
        BY <2>1
    <2> QED
        BY <1>2, <1>3, <2>2
<1> QED
    BY <1>2, <1>3, <1>4 DEF longer

\* What one speculative step does to the reply.
LEMMA SpeculativeReply ==
    ASSUME Inv, NEW batch \in Batches, NEW next \in Token,
           SpeculativeStep(batch, next)
    PROVE  /\ generated' \in Seq(Token)
           /\ \/ /\ UNCHANGED <<stage, answer>>
                 /\ generated' = generated \o batch
                 /\ Len(generated') < budget
                 /\ \A i \in 1 .. Len(generated') :
                        generated'[i] \notin StopTokens
              \/ /\ Finish
                 /\ Len(generated') <= budget
                 /\ \/ Len(generated') = budget
                    \/ /\ generated' # << >>
                       /\ generated'[Len(generated')] \in StopTokens
                 /\ \A i \in 1 .. Len(generated') :
                        i < Len(generated') => generated'[i] \notin StopTokens
<1>1. /\ generated \in Seq(Token) /\ Len(generated) \in Nat
      /\ budget \in Nat /\ Len(generated) < budget
      /\ \A i \in 1 .. Len(generated) : generated[i] \notin StopTokens
    <2>1. Replying
        BY DEF SpeculativeStep, Replying
    <2> QED
        BY <2>1, Sizes DEF Inv, TypeOK, Progress
<1>2. batch \in Seq(Token) /\ Len(batch) \in Nat \ {0}
    BY Sizes, ChatAssumption DEF Batches
<1>3. CASE /\ \A i \in 1 .. Len(batch) : ~ Ends(batch, i)
           /\ generated' = generated \o batch
           /\ UNCHANGED <<stage, answer>>
    <2>1. \A i \in 1 .. Len(batch) : ~ (Len(generated) + i >= budget)
        BY <1>3 DEF Ends
    <2>2. \A i \in 1 .. Len(batch) :
              batch[i] \notin StopTokens /\ Len(generated) + i < budget
        BY <1>1, <1>2, <1>3, <2>1 DEF Ends
    <2>3. /\ generated' \in Seq(Token)
          /\ Len(generated') < budget
          /\ \A i \in 1 .. Len(generated') : generated'[i] \notin StopTokens
        BY <1>1, <1>2, <1>3, <2>2, ReplyContinues
    <2> QED
        BY <1>3, <2>3
<1>4. ASSUME NEW n \in 1 .. Len(batch),
             Ends(batch, n), \A i \in 1 .. n - 1 : ~ Ends(batch, i),
             generated' = generated \o FirstTokens(batch, n), Finish
      PROVE  /\ generated' \in Seq(Token)
             /\ Len(generated') <= budget
             /\ \/ Len(generated') = budget
                \/ /\ generated' # << >>
                   /\ generated'[Len(generated')] \in StopTokens
             /\ \A i \in 1 .. Len(generated') :
                    i < Len(generated') => generated'[i] \notin StopTokens
    <2>1. \A i \in 1 .. n - 1 : ~ (Len(generated) + i >= budget)
        BY <1>4 DEF Ends
    <2>2. \A i \in 1 .. n - 1 :
              batch[i] \notin StopTokens /\ Len(generated) + i < budget
        BY <1>1, <1>2, <1>4, <2>1 DEF Ends
    <2>3. batch[n] \in StopTokens \/ Len(generated) + n >= budget
        BY <1>4, Zenon DEF Ends
    <2>4. generated' = generated \o FirstTokens(batch, n)
        BY <1>4
    <2> QED
        BY <1>1, <1>2, <2>2, <2>3, <2>4, ReplyEnds
<1> QED
    BY <1>3, <1>4 DEF SpeculativeStep

LEMMA SpeculativeStepInv ==
    ASSUME Inv, NEW batch \in Batches, NEW next \in Token,
           SpeculativeStep(batch, next)
    PROVE  Inv'
<1> USE DEF Inv, SpeculativeStep
<1>1. /\ generated \in Seq(Token) /\ prompt \in Seq(Token) /\ history \in Seq(Token)
      /\ Len(generated) \in Nat /\ Len(prompt) \in Nat /\ Capacity \in Nat
      /\ Len(generated) < budget /\ budget \in Nat /\ Replying
      /\ history = prompt \o generated /\ position = Len(history)
      /\ Len(history) \in Nat
    BY Sizes DEF TypeOK, Progress, Replying
<1>2. batch \in Seq(Token) /\ Len(batch) \in Nat \ {0}
    BY Sizes, ChatAssumption DEF Batches
<1>3. /\ gdn' \in Content /\ kv' \in [Rows -> Content]
      /\ history' \in Seq(Token)
      /\ history' = prompt \o (generated \o batch)
      /\ Len(history') = Len(history) + Len(batch)
      /\ ~ tainted => gdn' = history' /\ Holds(kv', history')
      /\ turnTokens # << >> /\ ~ gap => Holds(kv', turnTokens)
    BY <1>1, <1>2, ReplyForward
<1>4. SystemSlotSelfContained'
    BY DEF SystemSlotSelfContained
<1>5. generated' \in Seq(Token)
    BY SpeculativeReply
<1>6. CASE /\ UNCHANGED <<stage, answer>>
           /\ generated' = generated \o batch
           /\ Len(generated') < budget
           /\ \A i \in 1 .. Len(generated') : generated'[i] \notin StopTokens
    <2>1. TypeOK'
        BY <1>1, <1>2, <1>3, <1>5, <1>6 DEF TypeOK
    <2>2. Progress'
        <3>1. Len(generated') \in Nat /\ position' = Len(history')
            BY <1>1, <1>3, <1>5, Sizes
        <3> QED
            BY <1>1, <1>2, <1>3, <1>6, <3>1 DEF Progress, Prefilling, Replying
    <2>3. LiveState'
        BY <1>3, <1>6 DEF LiveState, Prefilling, Replying, Processed
    <2>4. TurnState'
        BY <1>3, <1>6 DEF TurnState
    <2> QED
        BY <1>4, <2>1, <2>2, <2>3, <2>4
<1>7. CASE /\ Finish
           /\ Len(generated') <= budget
           /\ \/ Len(generated') = budget
              \/ generated' # << >> /\ generated'[Len(generated')] \in StopTokens
           /\ \A i \in 1 .. Len(generated') :
                  i < Len(generated') => generated'[i] \notin StopTokens
    <2>0. stage' = "idle" /\ answer' = "E"
        BY <1>7 DEF Finish
    <2>1. TypeOK'
        <3>1. position' \in Nat /\ pending' = next /\ logits' \in Content
            BY <1>1, <1>2, <1>3
        <3> QED
            BY <1>1, <1>3, <1>5, <2>0, <3>1 DEF TypeOK, Stages
    <2>2. Progress'
        BY <1>1, <1>2, <1>7, <2>0 DEF Progress, Prefilling, Replying
    <2>3. LiveState'
        BY <1>3, <2>0 DEF LiveState, Prefilling, Replying, Processed
    <2>4. TurnState'
        BY <1>3, <2>0 DEF TurnState
    <2> QED
        BY <1>4, <2>1, <2>2, <2>3, <2>4
<1> QED
    BY <1>6, <1>7, SpeculativeReply

-----------------------------------------------------------------------------
(* The theorems.                                                           *)

LEMMA GenerateInv == Inv /\ Generate => Inv'
<1> SUFFICES ASSUME Inv, Generate PROVE Inv'
    OBVIOUS
<1>1. CASE \E token \in Token : PlainToken(token)
    BY <1>1, PlainTokenInv
<1>2. CASE \E token \in Token : DrawPending(token)
    BY <1>2, DrawPendingInv
<1>3. CASE EmitPending
    BY <1>3, EmitPendingInv
<1>4. CASE \E batch \in Batches, next \in Token : SpeculativeStep(batch, next)
    BY <1>4, SpeculativeStepInv
<1>5. CASE ReplyFails
    BY <1>5, ReplyFailsInv
<1>6. CASE \E token \in Token : TokenFails(token)
    BY <1>6, TokenFailsInv
<1> QED
    BY <1>1, <1>2, <1>3, <1>4, <1>5, <1>6 DEF Generate

LEMMA StutterInv == Inv /\ UNCHANGED vars => Inv'
<1> SUFFICES ASSUME Inv, UNCHANGED vars PROVE Inv'
    OBVIOUS
<1> USE DEF Inv, vars
<1>1. TypeOK'
    BY DEF TypeOK
<1>2. Progress'
    BY DEF Progress, Prefilling, Replying
<1>3. LiveState'
    BY DEF LiveState, Prefilling, Replying, Processed
<1>4. TurnState'
    BY DEF TurnState
<1>5. SystemSlotSelfContained'
    BY DEF SystemSlotSelfContained
<1> QED
    BY <1>1, <1>2, <1>3, <1>4, <1>5

LEMMA NextInv == Inv /\ [Next]_vars => Inv'
<1> SUFFICES ASSUME Inv, [Next]_vars PROVE Inv'
    OBVIOUS
<1>1. CASE Reject
    BY <1>1, RejectInv
<1>2. CASE Request
    BY <1>2, AcceptInv DEF Request
<1>3. CASE Resume
    BY <1>3, ContinueHistoryInv, RestoreTurnInv, RestoreSystemInv, StartOverInv
    DEF Resume
<1>4. CASE Prefill
    BY <1>4, PrefillPrefixInv, SaveSystemInv, SaveSystemFailsInv,
       PrefillSuffixInv, ForwardPromptInv, PromptFailsInv
    DEF Prefill
<1>5. CASE Checkpoint
    BY <1>5, SaveTurnInv, SaveTurnFailsInv, SkipTurnInv DEF Checkpoint
<1>6. CASE Generate
    BY <1>6, GenerateInv
<1>7. CASE UNCHANGED vars
    BY <1>7, StutterInv
<1> QED
    BY <1>1, <1>2, <1>3, <1>4, <1>5, <1>6, <1>7 DEF Next, Serve

\* The strengthening is an invariant of the chat process, for every choice
\* of constants that satisfies the assumptions.
THEOREM InvariantHolds == Spec => []Inv
<1>1. Init => Inv
    BY InitInv
<1>2. Inv /\ [Next]_vars => Inv'
    BY NextInv
<1> QED
    BY <1>1, <1>2, PTL DEF Spec

\* Every variable of the request loop keeps its type.
THEOREM TypeCorrect == Spec => []TypeOK
<1>1. Inv => TypeOK
    BY DEF Inv
<1> QED
    BY <1>1, InvariantHolds, PTL

\* Whatever branch a request resumed from, and whatever failed before, its
\* tokens are drawn from logits of exactly its prompt and reply so far, with
\* the one exception of a state resumed over rows that a failure zeroed.
THEOREM LogitsCorrect == Spec => []LogitsOfPrompt
<1>1. Inv => LogitsOfPrompt
    BY DEF Inv, Progress, LiveState, LogitsOfPrompt, Replying
<1> QED
    BY <1>1, InvariantHolds, PTL

\* Between requests the TURN checkpoint's rows are still in the live caches,
\* as long as no failure has reset the layers under it.
THEOREM TurnRowsCorrect == Spec => []TurnRowsIntact
<1>1. Inv => TurnRowsIntact
    BY DEF Inv, TurnState, TurnRowsIntact
<1> QED
    BY <1>1, InvariantHolds, PTL

\* A valid SYSTEM slot always holds the whole state of its tokens.
THEOREM SystemSlotCorrect == Spec => []SystemSlotSelfContained
<1>1. Inv => SystemSlotSelfContained
    BY DEF Inv
<1> QED
    BY <1>1, InvariantHolds, PTL

\* The history the next prompt is compared with is what the layers hold.
THEOREM HistoryCorrect == Spec => []HistoryIsResident
<1>1. ASSUME Inv PROVE HistoryIsResident
    BY <1>1 DEF Inv, LiveState, Processed, HistoryIsResident, Coherent
<1> QED
    BY <1>1, InvariantHolds, PTL

\* A reply fits its budget and the context, has a stop token at most at its
\* end, and ends early only at one.
THEOREM ReplyCorrect == Spec => []ReplyWellFormed
<1>1. ASSUME Inv PROVE ReplyWellFormed
    <2>1. /\ Len(generated) \in Nat /\ Len(prompt) \in Nat /\ budget \in Nat
          /\ Capacity \in Nat
          /\ Len(generated) <= budget /\ Len(prompt) + budget <= Capacity
        BY <1>1, Sizes DEF Inv, TypeOK, Progress
    <2>2. Len(prompt) + Len(generated) <= Capacity
        BY <2>1
    <2>3. \A i \in 1 .. Len(generated) - 1 : generated[i] \notin StopTokens
        <3>1. \A i \in 1 .. Len(generated) - 1 :
                  i \in 1 .. Len(generated) /\ i < Len(generated)
            BY <2>1
        <3> QED
            BY <1>1, <3>1 DEF Inv, Progress
    <2>4. answer = "E" => \/ Len(generated) = budget
                          \/ generated[Len(generated)] \in StopTokens
        BY <1>1 DEF Inv, Progress
    <2> QED
        BY <2>1, <2>2, <2>3, <2>4 DEF ReplyWellFormed
<1> QED
    BY <1>1, InvariantHolds, PTL

\* Only a TURN checkpoint resumes over zeroed rows, and without continuation
\* none is ever restored.
LEMMA NeverTainted ==
    ASSUME ~ Continuation, ~ tainted, [Next]_vars
    PROVE  ~ tainted'
<1> USE DEF vars, ghostVars
<1>1. CASE Reject \/ UNCHANGED vars
    BY <1>1 DEF Reject
<1>2. CASE Request
    BY <1>2 DEF Request, Accept
<1>3. CASE Resume
    <2>1. ~ RestoreTurn
        BY DEF RestoreTurn, Extends
    <2> QED
        BY <1>3, <2>1 DEF Resume, ContinueHistory, RestoreSystem, StartOver
<1>4. CASE Prefill
    BY <1>4 DEF Prefill, PrefillPrefix, SaveSystem, SaveSystemFails,
                PrefillSuffix, ForwardPrompt, PromptFails, FailAndReset
<1>5. CASE Checkpoint
    BY <1>5 DEF Checkpoint, SaveTurn, SaveTurnFails, SkipTurn
<1>6. CASE Generate
    BY <1>6 DEF Generate, PlainToken, DrawPending, EmitPending, SpeculativeStep,
                ReplyFails, TokenFails, EndWithFailure, FailAndReset,
                keepCheckpoints
<1> QED
    BY <1>1, <1>2, <1>3, <1>4, <1>5, <1>6 DEF Next, Serve

\* With QWEN38_CONTINUE=0 the promise at the head of the program holds for
\* every request, whatever failed before it: each prompt is answered as if
\* it were the first.
THEOREM IndependentWhenSingleTurn ==
    ASSUME ~ Continuation
    PROVE  Spec => []IndependentPrompts
<1>1. Init => ~ tainted
    BY DEF Init
<1>2. ~ tainted /\ [Next]_vars => (~ tainted)'
    BY NeverTainted
<1>3. Spec => []~ tainted
    BY <1>1, <1>2, PTL DEF Spec
<1>4. LogitsOfPrompt /\ ~ tainted => IndependentPrompts
    BY DEF LogitsOfPrompt, IndependentPrompts
<1> QED
    BY <1>3, <1>4, LogitsCorrect, PTL

-----------------------------------------------------------------------------
(* The stateless service.                                                  *)

\* No call that writes the layers fails, and no line is empty: the failure
\* exit of the loop is never taken.
Sturdy == Faults \subseteq {"restore", "save"} /\ << >> \notin Prompts

Standing ==
    /\ ~ gap /\ ~ tainted
    /\ stage # "idle" => prompt # << >>
    /\ budget <= MaximumNew

LEMMA NothingFails ==
    ASSUME Sturdy, Standing
    PROVE  /\ ~ PromptFails
           /\ ~ ReplyFails
           /\ \A token \in Token : ~ TokenFails(token)
BY DEF Sturdy, Standing, PromptFails, ReplyFails, TokenFails, EndWithFailure

LEMMA StandingStep ==
    ASSUME Sturdy, TypeOK, Standing, [Next]_vars
    PROVE  Standing'
<1> USE DEF vars, Standing
<1>1. CASE Reject \/ UNCHANGED vars
    BY <1>1 DEF Reject
<1>2. CASE Request
    <2>1. PICK p \in Prompts, maxNew \in 1 .. MaximumNew, use \in Modes :
              \E declared \in PrefixLengths(p) : Accept(p, declared, maxNew, use)
        BY <1>2 DEF Request
    <2>2. /\ prompt' = p /\ UNCHANGED ghostVars
          /\ budget' = Lesser(maxNew, Capacity - Len(p))
        BY <2>1 DEF Accept
    <2>3. Len(p) \in Nat /\ Capacity \in Nat /\ MaximumNew \in Nat
        BY Sizes, ChatAssumption
    <2>4. budget' <= MaximumNew
        BY <2>2, <2>3 DEF Lesser
    <2> QED
        BY <2>2, <2>4 DEF Sturdy
<1>3. CASE Resume
    BY <1>3 DEF Resume, ContinueHistory, RestoreTurn, RestoreSystem, StartOver,
                StartPrefill
<1>4. CASE Prefill
    BY <1>4, NothingFails DEF Prefill, PrefillPrefix, SaveSystem,
                SaveSystemFails, PrefillSuffix, ForwardPrompt
<1>5. CASE Checkpoint
    BY <1>5 DEF Checkpoint, SaveTurn, SaveTurnFails, SkipTurn
<1>6. CASE Generate
    <2>1. ASSUME NEW token \in Token, PlainToken(token) PROVE Standing'
        BY <2>1 DEF PlainToken
    <2>2. ASSUME NEW token \in Token, DrawPending(token) PROVE Standing'
        BY <2>2 DEF DrawPending
    <2>3. CASE EmitPending
        BY <2>3 DEF EmitPending
    <2>4. ASSUME NEW batch \in Batches, NEW next \in Token,
                 SpeculativeStep(batch, next)
          PROVE  Standing'
        BY <2>4 DEF SpeculativeStep
    <2> QED
        BY <1>6, <2>1, <2>2, <2>3, <2>4, NothingFails DEF Generate
<1> QED
    BY <1>1, <1>2, <1>3, <1>4, <1>5, <1>6 DEF Next, Serve

\* The stages before a reply are one phase of the service, and so are those
\* of the reply.
LEMMA InvisibleStep ==
    ASSUME UNCHANGED <<prompt, budget, generated, answer>>,
           \/ stage = "idle" /\ stage' = "idle"
           \/ /\ stage \notin {"idle", "generate", "speculate"}
              /\ stage' \notin {"idle", "generate", "speculate"}
           \/ Replying /\ Replying' /\ UNCHANGED logits
    PROVE  UNCHANGED Service!vars
BY DEF Service!vars, Replying

LEMMA AskStep ==
    ASSUME Inv, Inv', Standing', NEW p \in Prompts, NEW declared, NEW maxNew,
           NEW use, Accept(p, declared, maxNew, use)
    PROVE  Service!Next
<1>1. /\ stage = "idle" /\ stage' = "resume" /\ prompt' = p
      /\ generated' = << >> /\ answer' = "none"
    BY DEF Accept
<1>2. /\ p \in Seq(Token) /\ budget' \in 1 .. MaximumNew
      /\ Len(p) + budget' <= Capacity
    BY <1>1, Sizes DEF Inv, TypeOK, Progress, Standing
<1>3. p \in [1 .. Len(p) -> Token] /\ Len(p) \in 0 .. Capacity
    BY <1>2, LenProperties, Sizes
<1>4. Service!Ask(p, budget')
    BY <1>1, <1>2 DEF Service!Ask, Replying
<1> QED
    BY <1>2, <1>3, <1>4 DEF Service!Next

\* What the loop draws from is what the service draws from.
LEMMA Basis ==
    (Inv /\ Standing /\ Replying => logits = prompt \o generated)'
BY DEF Inv, Progress, LiveState, Standing, Replying

LEMMA ReadStep ==
    ASSUME Inv, Inv', Standing', stage = "save", stage' = "generate",
           UNCHANGED <<requestVars, replyVars, answer>>
    PROVE  Service!Next
<1>1. Replying' /\ ~ Replying /\ generated' = << >> /\ prompt' = prompt
    BY DEF Replying, Inv, Progress
<1>2. prompt \in Seq(Token)
    BY DEF Inv, TypeOK
<1>3. logits' = prompt' \o generated'
    BY <1>1, Basis
<1>4. logits' = prompt
    BY <1>1, <1>2, <1>3, ConcatEmptySeq
<1>5. Service!Read
    BY <1>1, <1>4 DEF Service!Read, Replying
<1> QED
    BY <1>5 DEF Service!Next

\* The tokens added to a reply, seen from the reply they lead to.
LEMMA Added ==
    ASSUME Inv, Inv', NEW run \in Seq(Token), run # << >>,
           generated' = generated \o run
    PROVE  /\ Len(generated) \in Nat /\ Len(run) \in Nat \ {0}
           /\ Len(generated') = Len(generated) + Len(run)
           /\ \A i \in 1 .. Len(run) : /\ generated'[Len(generated) + i] = run[i]
                                       /\ Len(generated) + i \in 1 .. Len(generated')
           /\ budget \in Nat /\ budget' \in Nat
<1>1. generated \in Seq(Token) /\ budget \in Nat /\ budget' \in Nat
    BY DEF Inv, TypeOK
<1>2. Len(generated) \in Nat /\ Len(run) \in Nat \ {0}
    BY <1>1, Sizes, EmptySeq
<1>3. /\ Len(generated \o run) = Len(generated) + Len(run)
      /\ \A i \in 1 .. Len(generated) + Len(run) :
             (generated \o run)[i] = IF i <= Len(generated) THEN generated[i]
                                     ELSE run[i - Len(generated)]
    BY <1>1, ConcatProperties
<1>4. ASSUME NEW i \in 1 .. Len(run)
      PROVE  /\ generated'[Len(generated) + i] = run[i]
             /\ Len(generated) + i \in 1 .. Len(generated')
    <2>1. /\ Len(generated) + i \in 1 .. Len(generated) + Len(run)
          /\ ~ Len(generated) + i <= Len(generated)
          /\ (Len(generated) + i) - Len(generated) = i
        BY <1>2
    <2> QED
        BY <1>3, <2>1
<1> QED
    BY <1>1, <1>2, <1>3, <1>4

LEMMA RunFacts ==
    ASSUME NEW run \in Seq(Token), run # << >>, Len(run) <= MaximumNew
    PROVE  run \in Service!Runs
<1>1. /\ run \in [1 .. Len(run) -> Token] /\ Len(run) \in 1 .. MaximumNew
    BY LenProperties, EmptySeq, Sizes
<1> QED
    BY <1>1 DEF Service!Runs

LEMMA ReplyStep ==
    ASSUME Inv, Inv', Standing, Standing', Replying, Replying',
           NEW run \in Seq(Token), run # << >>,
           generated' = generated \o run,
           UNCHANGED <<prompt, budget, answer>>
    PROVE  Service!Next
<1>0. /\ Len(generated) \in Nat /\ Len(run) \in Nat \ {0}
      /\ Len(generated') = Len(generated) + Len(run)
      /\ \A i \in 1 .. Len(run) : /\ generated'[Len(generated) + i] = run[i]
                                  /\ Len(generated) + i \in 1 .. Len(generated')
      /\ budget \in Nat /\ MaximumNew \in Nat
    BY Added, Sizes
<1>1. /\ Len(generated') < budget /\ logits' = prompt \o generated'
      /\ budget <= MaximumNew
    BY Basis DEF Inv, Progress, Standing
<1>2. \A i \in 1 .. Len(run) : run[i] \notin StopTokens
    BY <1>0 DEF Inv, Progress
<1>3. Len(run) <= MaximumNew /\ Len(generated) + Len(run) < budget
    BY <1>0, <1>1
<1>4. Service!Reply(run)
    BY <1>1, <1>2, <1>3 DEF Service!Reply, Service!Live, Replying
<1> QED
    BY <1>3, <1>4, RunFacts DEF Service!Next

LEMMA EndStep ==
    ASSUME Inv, Inv', Standing, Replying, stage' = "idle", answer' = "E",
           NEW run \in Seq(Token), run # << >>,
           generated' = generated \o run,
           UNCHANGED <<prompt, budget>>
    PROVE  Service!Next
<1>0. /\ Len(generated) \in Nat /\ Len(run) \in Nat \ {0}
      /\ Len(generated') = Len(generated) + Len(run)
      /\ \A i \in 1 .. Len(run) : /\ generated'[Len(generated) + i] = run[i]
                                  /\ Len(generated) + i \in 1 .. Len(generated')
      /\ budget \in Nat /\ MaximumNew \in Nat
    BY Added, Sizes
<1>1. Len(generated) + Len(run) <= budget
    BY <1>0 DEF Inv, Progress
<1>2. Len(run) <= MaximumNew
    BY <1>0, <1>1 DEF Standing
<1>3. \A i \in 1 .. Len(run) - 1 : run[i] \notin StopTokens
    <2>1. \A i \in 1 .. Len(generated') :
              i < Len(generated') => generated'[i] \notin StopTokens
        BY DEF Inv, Progress
    <2> QED
        BY <1>0, <2>1
<1>4. \/ Len(generated) + Len(run) = budget
      \/ run[Len(run)] \in StopTokens
    BY <1>0 DEF Inv, Progress
<1>5. Service!Live(SubSeq(run, 1, Len(run) - 1))
    <2>1. \A i \in 1 .. Len(run) - 1 : run[i] \in Token
        BY <1>0, ElementOfSeq
    <2>2. PICK n \in Nat : n = Len(run) - 1
        BY <1>0
    <2>3. n \in Int /\ \A i \in 1 .. n : run[i] \in Token
        BY <2>1, <2>2
    <2>4. /\ Len(SubSeq(run, 1, n)) = n
          /\ \A i \in 1 .. n : SubSeq(run, 1, n)[i] = run[i]
        BY ONLY <2>2, <2>3, SubSeqProperties
    <2> QED
        BY <1>3, <2>2, <2>4 DEF Service!Live
<1>6. Service!End(run)
    BY <1>1, <1>4, <1>5 DEF Service!End, Replying
<1> QED
    BY <1>2, <1>6, RunFacts DEF Service!Next

LEMMA SingleToken ==
    ASSUME Inv, NEW token \in Token
    PROVE  /\ <<token>> \in Seq(Token) /\ <<token>> # << >>
           /\ Append(generated, token) = generated \o <<token>>
<1>1. generated \in Seq(Token)
    BY DEF Inv, TypeOK
<1> QED
    BY <1>1, AppendIsConcat, AppendProperties, EmptySeq

LEMMA SpeculativeStepServed ==
    ASSUME Inv, Inv', Standing, Standing', NEW batch \in Batches, NEW next,
           SpeculativeStep(batch, next)
    PROVE  Service!Next
<1>1. PICK n \in 1 .. StepWidth : batch \in [1 .. n -> Token]
    BY DEF Batches
<1>2. n \in Nat \ {0}
    BY <1>1, ChatAssumption
<1>3. batch \in Seq(Token) /\ Len(batch) = n /\ batch # << >>
    <2>1. batch \in Seq(Token) /\ Len(batch) = n
        BY <1>1, <1>2, SeqDef
    <2> QED
        BY <1>2, <2>1, EmptySeq
<1>4. stage = "speculate" /\ UNCHANGED <<prompt, budget>>
    BY DEF SpeculativeStep
<1>5. CASE generated' = generated \o batch /\ UNCHANGED <<stage, answer>>
    BY <1>3, <1>4, <1>5, ReplyStep DEF Replying
<1>6. ASSUME NEW m \in 1 .. Len(batch),
             generated' = generated \o FirstTokens(batch, m), Finish
      PROVE  Service!Next
    <2>1. \A i \in 1 .. m : batch[i] \in Token
        BY <1>1, <1>3, <1>6
    <2>2. FirstTokens(batch, m) \in Seq(Token) /\ Len(FirstTokens(batch, m)) = m
        BY <1>2, <1>3, <2>1, SubSeqProperties DEF FirstTokens
    <2>3. FirstTokens(batch, m) # << >>
        BY <1>2, <1>3, <2>2, EmptySeq
    <2> QED
        BY <1>4, <1>6, <2>2, <2>3, EndStep DEF Finish, Replying
<1> QED
    BY <1>5, <1>6 DEF SpeculativeStep

\* Every step of the chat process is a step of the service, or none.
LEMMA ServedStep ==
    ASSUME Sturdy, Inv, Inv', Standing, Standing', [Next]_vars
    PROVE  [Service!Next]_Service!vars
<1>1. CASE Reject
    <2>1. Service!Refuse
        BY <1>1 DEF Reject, Service!Refuse, Replying
    <2> QED
        BY <2>1 DEF Service!Next
<1>2. CASE Request
    BY <1>2, AskStep DEF Request
<1>3. CASE Resume
    BY <1>3, InvisibleStep DEF Resume, ContinueHistory, RestoreTurn,
        RestoreSystem, StartOver, StartPrefill
<1>4. CASE Prefill
    BY <1>4, NothingFails, InvisibleStep DEF Prefill, PrefillPrefix, SaveSystem,
        SaveSystemFails, PrefillSuffix, ForwardPrompt
<1>5. CASE Checkpoint
    BY <1>5, ReadStep DEF Checkpoint, SaveTurn, SaveTurnFails, SkipTurn
<1>6. CASE Generate
    <2>1. ASSUME NEW token \in Token, PlainToken(token) PROVE Service!Next
        <3>1. /\ stage = "generate" /\ generated' = generated \o <<token>>
              /\ UNCHANGED <<prompt, budget>>
              /\ \/ stage' = "idle" /\ answer' = "E"
                 \/ UNCHANGED <<stage, answer>>
            BY <2>1, SingleToken DEF PlainToken, Finish
        <3> QED
            BY <3>1, SingleToken, ReplyStep, EndStep DEF Replying
    <2>2. ASSUME NEW token \in Token, DrawPending(token)
          PROVE  UNCHANGED Service!vars
        BY <2>2, InvisibleStep DEF DrawPending, Replying
    <2>3. CASE EmitPending
        <3>1. stage = "speculate" /\ pending \in Token
            BY <2>3 DEF EmitPending, Inv, Progress
        <3>2. /\ generated' = generated \o <<pending>>
              /\ UNCHANGED <<prompt, budget>>
              /\ stage' = "idle" /\ answer' = "E"
            BY <2>3, <3>1, SingleToken DEF EmitPending, Finish
        <3> QED
            BY <3>1, <3>2, SingleToken, EndStep DEF Replying
    <2> QED
        BY <1>6, <2>1, <2>2, <2>3, SpeculativeStepServed, NothingFails
        DEF Generate
<1>7. CASE UNCHANGED vars
    <2>1. UNCHANGED Service!vars
        BY <1>7 DEF vars, Service!vars, Replying
    <2> QED
        BY <2>1
<1> QED
    BY <1>1, <1>2, <1>3, <1>4, <1>5, <1>6, <1>7 DEF Next, Serve

\* Resumption, checkpoints and speculation do not show: the chat process
\* implements the safety part of the stateless service (StatelessService
\* without its fairness), whichever of the checkpoint calls fail.
THEOREM ServiceImplemented ==
    ASSUME Sturdy
    PROVE  Spec => Service!Init /\ [][Service!Next]_Service!vars
<1>1. Init => Service!Init
    BY DEF Init, Service!Init, Replying
<1>2. Init => Standing
    BY Sizes DEF Init, Standing
<1>3. Inv /\ Standing /\ [Next]_vars => Standing'
    BY StandingStep DEF Inv
<1>4. Inv /\ Inv' /\ Standing /\ Standing' /\ [Next]_vars
          => [Service!Next]_Service!vars
    BY ServedStep
<1> QED
    BY <1>1, <1>2, <1>3, <1>4, InvariantHolds, PTL DEF Spec
=============================================================================
