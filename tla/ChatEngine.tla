----------------------------- MODULE ChatEngine -----------------------------
(***************************************************************************)
(* The resident chat process: the request loop of                          *)
(* commands/qwen38_m3_chat.c over the checkpoint and forward calls of      *)
(* runtime/qwen38_m3_decode.m.                                             *)
(*                                                                         *)
(* One request is a prompt (a token sequence), the length of the declared  *)
(* prefix, a reply budget and a decoding mode.  The loop looks for the     *)
(* cheapest state to resume from - the live history, the TURN checkpoint,  *)
(* the SYSTEM checkpoint, or a reset -, prefills the rest, and generates.  *)
(*                                                                         *)
(* Which tokens come out is the model's business: every token is chosen    *)
(* nondeterministically.  What is tracked is the context the logits were   *)
(* computed in (see LayerState).  Metal failures are steps of their own,   *)
(* enabled by the constant Faults.                                         *)
(***************************************************************************)
EXTENDS LayerState

CONSTANTS Prompts,       \* token sequences a request may ask about
          StopTokens,    \* QWEN38_END_OF_TEXT and QWEN38_IM_END
          MaximumNew,    \* MAX_NEW of the command line
          PrefixMin,     \* QWEN38_PREFIX_MIN
          StepWidth,     \* tokens one speculative step can emit (8)
          Continuation,  \* QWEN38_CONTINUE is not 0
          Viterbi,       \* a lattice step may replace the pending token
          Faults         \* which Metal operations may fail

FaultKinds == {"restore", "save", "prefill", "forward", "step"}

ASSUME ChatAssumption ==
    /\ Prompts \subseteq Seq(Token)
    /\ StopTokens \subseteq Token
    /\ MaximumNew \in Nat \ {0}
    /\ PrefixMin \in Nat
    /\ StepWidth \in Nat \ {0}
    /\ Continuation \in BOOLEAN
    /\ Viterbi \in BOOLEAN
    /\ Faults \subseteq FaultKinds

VARIABLES
    stage,         \* where the request loop is
    prompt,        \* prompt_ids of the current (or last) request
    prefixCount,   \* prefix_count: length of the declared prefix, 0 if none
    budget,        \* reply tokens this request may produce
    mode,          \* "plain" or "speculative" (use_mtp)
    filled,        \* prompt tokens the layers have been given
    generated,     \* tokens of the reply so far
    pending,       \* sampled but not yet forwarded token
    position,      \* mtp_position
    answer,        \* last line of the reply: "E", "X", or "none"
    history,       \* history[0 .. history_count - 1]
    turnTokens,    \* snapshot_tokens; empty when snapshot_count is 0
    systemTokens,  \* system_tokens
    systemValid,   \* system_valid
    gdn, kv,       \* the resident layers
    logits,        \* context of the exposed logits
    turnGdn,       \* slot QWEN38_M3_PREFIX_TURN: recurrent state only
    systemGdn,     \* slot QWEN38_M3_PREFIX_SYSTEM: recurrent state ...
    systemKv,      \* ... the mirrored rows ...
    systemRows,    \* ... and how many there are (prefix_kv_positions)
    gap,           \* history variable: the rows under TURN were zeroed
    tainted        \* history variable: live state resumed over a gap

requestVars == <<prompt, prefixCount, budget, mode>>
replyVars == <<generated, pending, position>>
turnVars == <<turnTokens, turnGdn>>
systemVars == <<systemTokens, systemValid, systemGdn, systemKv, systemRows>>
layerVars == <<gdn, kv>>
ghostVars == <<gap, tainted>>

vars == <<stage, requestVars, filled, replyVars, answer, history, turnVars,
          systemVars, layerVars, logits, ghostVars>>

Stages == {"idle", "resume", "prefill", "checkpoint", "suffix", "forward",
           "save", "generate", "speculate"}

Init ==
    /\ stage = "idle"
    /\ prompt = << >>
    /\ prefixCount = 0
    /\ budget = 1
    /\ mode = "plain"
    /\ filled = 0
    /\ generated = << >>
    /\ pending = Bad
    /\ position = 0
    /\ answer = "none"
    /\ history = << >>
    /\ turnTokens = << >>
    /\ systemTokens = << >>
    /\ systemValid = FALSE
    /\ gdn = Zeroed
    /\ kv = [i \in Rows |-> Zeroed]
    /\ logits = Zeroed
    /\ turnGdn = Zeroed
    /\ systemGdn = Zeroed
    /\ systemKv = [i \in Rows |-> Zeroed]
    /\ systemRows = 0
    /\ gap = FALSE
    /\ tainted = FALSE

-----------------------------------------------------------------------------
(* Calls into the runtime.                                                 *)

\* qwen38_m3_model_reset zeroes the layers; the checkpoint slots survive.
ResetLayers ==
    /\ gdn' = Zeroed
    /\ kv' = [i \in Rows |-> Zeroed]

\* Prefill, forward and verify: the layers take a run of tokens.
Forward(at, tokens) ==
    LET context == Advance(gdn, kv, at, tokens)
    IN  /\ gdn' = context
        /\ kv' = WriteRows(kv, at, Len(tokens), context)

\* The failure exit of the loop.  It forgets the live history but keeps
\* snapshot_count, although the rows below that checkpoint are now zero.
FailAndReset ==
    /\ ResetLayers
    /\ history' = << >>
    /\ stage' = "idle"
    /\ gap' = (turnTokens # << >>)
    /\ tainted' = FALSE

-----------------------------------------------------------------------------
(* Reading a request.                                                      *)

\* A line that does not parse, does not encode, or is too long: one X line.
Reject ==
    /\ stage = "idle"
    /\ answer' = "X"
    /\ generated' = << >>
    /\ UNCHANGED <<stage, requestVars, filled, pending, position, history,
                   turnVars, systemVars, layerVars, logits, ghostVars>>

\* The declared prefix counts only as a proper, nonempty token prefix.
PrefixLengths(p) == {0} \cup {n \in 1 .. Len(p) - 1 : Continuation}

Lesser(m, n) == IF m < n THEN m ELSE n

\* A mutation: the budget is one token too small.
AcceptOneShort(p, declared, maxNew, use) ==
    /\ stage = "idle"
    /\ Len(p) + 1 <= Capacity
    /\ declared \in PrefixLengths(p)
    /\ prompt' = p
    /\ prefixCount' = declared
    /\ budget' = Lesser(maxNew, Capacity - Len(p) - 1)
    /\ mode' = use
    /\ stage' = "resume"
    /\ filled' = 0
    /\ generated' = << >>
    /\ pending' = Bad
    /\ position' = 0
    /\ answer' = "none"
    /\ UNCHANGED <<history, turnVars, systemVars, layerVars, logits, ghostVars>>

Accept(p, declared, maxNew, use) ==
    /\ stage = "idle"
    /\ Len(p) + 1 <= Capacity
    /\ declared \in PrefixLengths(p)
    /\ prompt' = p
    /\ prefixCount' = declared
    /\ budget' = Lesser(maxNew, Capacity - Len(p))
    /\ mode' = use
    /\ stage' = "resume"
    /\ filled' = 0
    /\ generated' = << >>
    /\ pending' = Bad
    /\ position' = 0
    /\ answer' = "none"
    /\ UNCHANGED <<history, turnVars, systemVars, layerVars, logits, ghostVars>>

-----------------------------------------------------------------------------
(* Choosing a state to resume from.                                        *)

\* A mutation: the lengths are compared, the tokens are not.
ExtendsByLength(checkpoint) ==
    /\ Continuation
    /\ checkpoint # << >>
    /\ Len(prompt) > Len(checkpoint)

Extends(checkpoint) ==
    /\ Continuation
    /\ checkpoint # << >>
    /\ Len(prompt) > Len(checkpoint)
    /\ FirstTokens(prompt, Len(checkpoint)) = checkpoint

ExtendsSystem == systemValid /\ Extends(systemTokens)

RestoreMayFail == "restore" \in Faults

StartPrefill ==
    /\ stage = "resume"
    /\ stage' = "prefill"
    /\ UNCHANGED <<requestVars, replyVars, answer, turnVars, systemVars, logits>>

ContinueHistory ==
    /\ StartPrefill
    /\ Extends(history)
    /\ filled' = Len(history)
    /\ UNCHANGED <<history, layerVars, ghostVars>>

RestoreTurn ==
    /\ StartPrefill
    /\ ~ Extends(history)
    /\ Extends(turnTokens)
    /\ filled' = Len(turnTokens)
    /\ history' = << >>
    /\ gdn' = turnGdn
    /\ tainted' = gap
    /\ UNCHANGED <<kv, gap>>

\* A mutation: only the recurrent state is put back.
RestoreSystemState ==
    /\ StartPrefill
    /\ ~ Extends(history)
    /\ Extends(turnTokens) => RestoreMayFail
    /\ ExtendsSystem
    /\ filled' = Len(systemTokens)
    /\ history' = << >>
    /\ gdn' = systemGdn
    /\ tainted' = FALSE
    /\ UNCHANGED <<kv, gap>>

\* Reached past a TURN checkpoint only when restoring that one failed; what
\* the failed copy left behind is overwritten here.
RestoreSystem ==
    /\ StartPrefill
    /\ ~ Extends(history)
    /\ Extends(turnTokens) => RestoreMayFail
    /\ ExtendsSystem
    /\ filled' = Len(systemTokens)
    /\ history' = << >>
    /\ gdn' = systemGdn
    /\ kv' = OverlayRows(kv, systemRows, systemKv)
    /\ tainted' = FALSE
    /\ UNCHANGED gap

\* A mutation: nothing is reset.
StartOverAsIs ==
    /\ StartPrefill
    /\ ~ Extends(history)
    /\ (Extends(turnTokens) \/ ExtendsSystem) => RestoreMayFail
    /\ filled' = 0
    /\ history' = << >>
    /\ tainted' = FALSE
    /\ UNCHANGED <<layerVars, gap>>

StartOver ==
    /\ StartPrefill
    /\ ~ Extends(history)
    /\ (Extends(turnTokens) \/ ExtendsSystem) => RestoreMayFail
    /\ filled' = 0
    /\ history' = << >>
    /\ ResetLayers
    /\ tainted' = FALSE
    /\ UNCHANGED gap

-----------------------------------------------------------------------------
(* Prefill, checkpoints and the forward of the last prompt token.          *)

PrefillEnd == Len(prompt) - 1

\* Prefilling from zero stops at a declared prefix worth a checkpoint.
Boundary ==
    IF filled = 0 /\ prefixCount >= PrefixMin /\ prefixCount < PrefillEnd
    THEN prefixCount ELSE filled

Span(from, to) == SubSeq(prompt, from + 1, to)

keepRequest == <<requestVars, replyVars, answer, turnTokens, turnGdn>>

PrefillPrefix ==
    /\ stage = "prefill"
    /\ prompt # << >>
    /\ Boundary > filled
    /\ Forward(filled, Span(filled, Boundary))
    /\ filled' = Boundary
    /\ stage' = "checkpoint"
    /\ UNCHANGED <<keepRequest, history, systemVars, logits, ghostVars>>

SaveSystem ==
    /\ stage = "checkpoint"
    /\ systemTokens' = FirstTokens(prompt, filled)
    /\ systemValid' = TRUE
    /\ systemGdn' = gdn
    /\ systemKv' = OverlayRows(systemKv, filled, kv)
    /\ systemRows' = filled
    /\ stage' = "suffix"
    /\ UNCHANGED <<keepRequest, filled, history, layerVars, logits, ghostVars>>

\* Two mutations: the slot stays valid; the prefill is tried once more.
SaveSystemFailsUnnoticed ==
    /\ stage = "checkpoint"
    /\ "save" \in Faults
    /\ systemGdn' = Garbage
    /\ systemRows' = filled
    /\ stage' = "suffix"
    /\ UNCHANGED <<keepRequest, systemTokens, systemValid, systemKv, filled,
                   history, layerVars, logits, ghostVars>>

SaveSystemFailsAndRetries ==
    /\ stage = "checkpoint"
    /\ "save" \in Faults
    /\ systemValid' = FALSE
    /\ systemGdn' = Garbage
    /\ systemRows' = filled
    /\ filled' = 0
    /\ ResetLayers
    /\ stage' = "prefill"
    /\ UNCHANGED <<keepRequest, systemTokens, systemKv, history, logits,
                   ghostVars>>

\* A failed save may have overwritten part of the slot.
SaveSystemFails ==
    /\ stage = "checkpoint"
    /\ "save" \in Faults
    /\ systemValid' = FALSE
    /\ systemGdn' = Garbage
    /\ systemRows' = filled
    /\ stage' = "suffix"
    /\ UNCHANGED <<keepRequest, systemTokens, systemKv, filled, history,
                   layerVars, logits, ghostVars>>

PrefillSuffix ==
    /\ \/ stage = "suffix"
       \/ stage = "prefill" /\ Boundary = filled
    /\ prompt # << >>
    /\ Forward(filled, Span(filled, PrefillEnd))
    /\ filled' = PrefillEnd
    /\ stage' = "forward"
    /\ UNCHANGED <<keepRequest, history, systemVars, logits, ghostVars>>

ForwardPrompt ==
    /\ stage = "forward"
    /\ Forward(filled, Span(filled, Len(prompt)))
    /\ logits' = gdn'
    /\ filled' = Len(prompt)
    /\ history' = prompt
    /\ stage' = "save"
    /\ UNCHANGED <<keepRequest, systemVars, ghostVars>>

\* An empty prompt makes prompt_count - 1 wrap around, and the prefill
\* refuses the run as longer than the context.  No line is printed.
PromptFails ==
    /\ \/ stage = "prefill" /\ prompt = << >>
       \/ "prefill" \in Faults /\ stage \in {"prefill", "suffix"}
          /\ filled < PrefillEnd
       \/ "forward" \in Faults /\ stage = "forward"
    /\ FailAndReset
    /\ UNCHANGED <<keepRequest, filled, systemVars, logits>>

SaveTurn ==
    /\ stage = "save"
    /\ Continuation
    /\ turnTokens' = prompt
    /\ turnGdn' = gdn
    /\ gap' = tainted
    /\ stage' = "generate"
    /\ UNCHANGED <<requestVars, replyVars, answer, filled, history,
                   systemVars, layerVars, logits, tainted>>

\* A mutation: the old tokens stay with the overwritten slot.
SaveTurnFailsUnnoticed ==
    /\ stage = "save"
    /\ Continuation
    /\ "save" \in Faults
    /\ turnGdn' = Garbage
    /\ gap' = FALSE
    /\ stage' = "generate"
    /\ UNCHANGED <<requestVars, replyVars, answer, filled, history, turnTokens,
                   systemVars, layerVars, logits, tainted>>

SaveTurnFails ==
    /\ stage = "save"
    /\ Continuation
    /\ "save" \in Faults
    /\ turnTokens' = << >>
    /\ turnGdn' = Garbage
    /\ gap' = FALSE
    /\ stage' = "generate"
    /\ UNCHANGED <<requestVars, replyVars, answer, filled, history,
                   systemVars, layerVars, logits, tainted>>

SkipTurn ==
    /\ stage = "save"
    /\ ~ Continuation
    /\ stage' = "generate"
    /\ UNCHANGED <<requestVars, replyVars, answer, filled, history, turnVars,
                   systemVars, layerVars, logits, ghostVars>>

-----------------------------------------------------------------------------
(* Generating the reply.                                                   *)

keepCheckpoints == <<requestVars, filled, turnVars, systemVars, ghostVars>>

\* history grows only while it fits its buffer.
Remember(tokens) ==
    history' = history \o
        SubSeq(tokens, 1, Lesser(Len(tokens), Capacity - Len(history)))

Finish ==
    /\ answer' = "E"
    /\ stage' = "idle"

PlainToken(token) ==
    /\ stage = "generate"
    /\ mode = "plain"
    /\ generated' = Append(generated, token)
    /\ IF token \in StopTokens \/ Len(generated) + 1 = budget
       THEN /\ Finish
            /\ UNCHANGED <<history, layerVars, logits>>
       ELSE /\ Forward(Len(prompt) + Len(generated), <<token>>)
            /\ logits' = gdn'
            /\ Remember(<<token>>)
            /\ UNCHANGED <<stage, answer>>
    /\ UNCHANGED <<keepCheckpoints, pending, position>>

DrawPending(token) ==
    /\ stage = "generate"
    /\ mode = "speculative"
    /\ pending' = token
    /\ position' = Len(prompt)
    /\ stage' = "speculate"
    /\ UNCHANGED <<keepCheckpoints, generated, answer, history, layerVars, logits>>

LastPending ==
    \/ pending \in StopTokens
    \/ Len(generated) + 1 >= budget
    \/ position + 2 > Capacity

\* A mutation: the last token, never forwarded, is remembered too.
EmitPendingAndRemember ==
    /\ stage = "speculate"
    /\ LastPending
    /\ generated' = Append(generated, pending)
    /\ Remember(<<pending>>)
    /\ Finish
    /\ UNCHANGED <<keepCheckpoints, pending, position, layerVars, logits>>

EmitPending ==
    /\ stage = "speculate"
    /\ LastPending
    /\ generated' = Append(generated, pending)
    /\ Finish
    /\ UNCHANGED <<keepCheckpoints, pending, position, history, layerVars, logits>>

\* A mutation: one token past the budget.
EndsLate(batch, i) == batch[i] \in StopTokens \/ Len(generated) + i > budget

\* Index of the token that ends the reply, were `batch` added to it.
Ends(batch, i) == batch[i] \in StopTokens \/ Len(generated) + i >= budget

Batches == UNION {[1 .. n -> Token] : n \in 1 .. StepWidth}

\* One draft-verify-accept step: the layers have taken `batch`, the next
\* pending token comes from the row after it, and the reply takes the
\* batch up to the token that ends it.  The draft depth is clamped so that
\* the batch fits the context.
SpeculativeStep(batch, next) ==
    /\ stage = "speculate"
    /\ ~ LastPending
    /\ batch[1] = pending \/ Viterbi
    /\ position + Len(batch) <= Capacity
    /\ Forward(position, batch)
    /\ logits' = gdn'
    /\ Remember(batch)
    /\ position' = position + Len(batch)
    /\ pending' = next
    /\ \/ /\ \A i \in 1 .. Len(batch) : ~ Ends(batch, i)
          /\ generated' = generated \o batch
          /\ UNCHANGED <<stage, answer>>
       \/ \E n \in 1 .. Len(batch) :
             /\ Ends(batch, n)
             /\ \A i \in 1 .. n - 1 : ~ Ends(batch, i)
             /\ generated' = generated \o FirstTokens(batch, n)
             /\ Finish
    /\ UNCHANGED keepCheckpoints

EndWithFailure ==
    /\ "step" \in Faults
    /\ answer' = "X"
    /\ FailAndReset
    /\ UNCHANGED <<requestVars, filled, pending, position, turnVars,
                   systemVars, logits>>

\* Sampling or a speculative step fails.
ReplyFails ==
    /\ stage \in {"generate", "speculate"}
    /\ EndWithFailure
    /\ UNCHANGED generated

\* The forward of a plain token fails; the token is in the reply already.
TokenFails(token) ==
    /\ stage = "generate"
    /\ mode = "plain"
    /\ token \notin StopTokens
    /\ Len(generated) + 1 < budget
    /\ generated' = Append(generated, token)
    /\ EndWithFailure

-----------------------------------------------------------------------------
Modes == {"plain", "speculative"}

Request ==
    \E p \in Prompts, maxNew \in 1 .. MaximumNew, use \in Modes :
        \E declared \in PrefixLengths(p) : Accept(p, declared, maxNew, use)

Resume == ContinueHistory \/ RestoreTurn \/ RestoreSystem \/ StartOver

Prefill ==
    \/ PrefillPrefix
    \/ SaveSystem
    \/ SaveSystemFails
    \/ PrefillSuffix
    \/ ForwardPrompt
    \/ PromptFails

Checkpoint == SaveTurn \/ SaveTurnFails \/ SkipTurn

Generate ==
    \/ \E token \in Token : PlainToken(token)
    \/ \E token \in Token : DrawPending(token)
    \/ EmitPending
    \/ \E batch \in Batches, next \in Token : SpeculativeStep(batch, next)
    \/ ReplyFails
    \/ \E token \in Token : TokenFails(token)

Serve == Resume \/ Prefill \/ Checkpoint \/ Generate

Next == Reject \/ Request \/ Serve

Spec == Init /\ [][Next]_vars

\* The process works on a request until it is done: nothing in the loop
\* waits for anything but the GPU.
FairSpec == Spec /\ WF_vars(Serve)

-----------------------------------------------------------------------------
(* Properties.                                                             *)

TypeOK ==
    /\ stage \in Stages
    /\ prompt \in Seq(Token)
    /\ prefixCount \in Nat
    /\ budget \in Nat \ {0}
    /\ mode \in Modes
    /\ filled \in Nat
    /\ generated \in Seq(Token)
    /\ pending \in Token \cup {Bad}
    /\ position \in Nat
    /\ answer \in {"none", "E", "X"}
    /\ history \in Seq(Token)
    /\ turnTokens \in Seq(Token)
    /\ systemTokens \in Seq(Token)
    /\ systemValid \in BOOLEAN
    /\ gdn \in Content
    /\ kv \in [Rows -> Content]
    /\ logits \in Content
    /\ turnGdn \in Content
    /\ systemGdn \in Content
    /\ systemKv \in [Rows -> Content]
    /\ systemRows \in Nat
    /\ gap \in BOOLEAN
    /\ tainted \in BOOLEAN

Replying == stage \in {"generate", "speculate"}

\* Every token of a reply is drawn from logits computed in the context of
\* exactly this prompt and the reply so far, whichever of the four resume
\* branches the request took and whatever earlier requests, failed saves and
\* failed resets left in the layers - unless the state was resumed from a
\* TURN checkpoint whose rows a failure had zeroed.
LogitsOfPrompt ==
    Replying /\ ~ tainted => logits = prompt \o generated

\* The comment at the head of the program: "each prompt is an independent
\* single-turn request, the same contract as the one-shot generator".
IndependentPrompts ==
    Replying => logits = prompt \o generated

\* Between requests the TURN checkpoint and the attention rows below it
\* belong together (the slot has no mirror of its own), as long as no
\* failure has reset the layers under it.
TurnRowsIntact ==
    stage = "idle" /\ turnTokens # << >> /\ ~ gap =>
        turnGdn = turnTokens /\ Holds(kv, turnTokens)

\* The SYSTEM slot is self-contained: whatever happened to the layers since,
\* including failures, restoring it gives the state of its tokens.
SystemSlotSelfContained ==
    systemValid =>
        /\ systemGdn = systemTokens
        /\ systemRows = Len(systemTokens)
        /\ Holds(systemKv, systemTokens)

\* Between requests the history the next prompt is compared with is what
\* the layers really processed, also when a step went past a stop token.
HistoryIsResident ==
    stage = "idle" /\ history # << >> /\ ~ tainted =>
        gdn = history /\ Coherent(gdn, kv, Len(history))

\* The reply respects its budget and the context, holds a stop token only
\* at its end, and is cut short only by a stop token.
ReplyWellFormed ==
    /\ Len(generated) <= budget
    /\ Len(prompt) + Len(generated) <= Capacity
    /\ \A i \in 1 .. Len(generated) - 1 : generated[i] \notin StopTokens
    /\ answer = "E" => \/ Len(generated) = budget
                       \/ generated[Len(generated)] \in StopTokens

\* The abstract service: checkpoints, resumption and speculation do not show
\* in the replies.  Between the stages of a reply nothing is promised about
\* the exposed logits.
Service == INSTANCE ReplyService WITH
    phase <- IF stage = "idle" THEN "idle"
             ELSE IF Replying THEN "replying" ELSE "reading",
    limit <- budget,
    reply <- generated,
    basis <- IF Replying THEN logits ELSE << >>

\* Resumption and speculation are invisible: the chat process implements the
\* stateless service, and finishes every request, while no failure resets
\* the layers.
StatelessService == Service!Spec

\* Every request is finished: the loop returns to its input.
RequestsFinish == stage = "resume" ~> stage = "idle"
=============================================================================
