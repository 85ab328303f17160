------------------------------ MODULE DraftRing ------------------------------
(***************************************************************************)
(* What the DFlash2 drafter knows of the text (runtime/qwen38_m3_decode.m  *)
(* and its kernels in qwen38_prefill.metal), over the requests of          *)
(* commands/qwen38_m3_chat.c.                                              *)
(*                                                                         *)
(* Every forward of the target leaves its hidden states, the taps, in a    *)
(* ring of 2048 rows, each tagged with its position.  Before a step the    *)
(* new taps are projected into the drafter's own ring of 2047 rows of keys *)
(* and values.  The drafter then attends to the rows of the last           *)
(* context_count positions; it does not look at what they were made from.  *)
(* Both rings outlive the request, and a request may resume from a         *)
(* checkpoint below the end of the text before it.                         *)
(*                                                                         *)
(* That the target's own layers follow the text is ChatEngine's matter:    *)
(* here a tap is the one the target leaves at its position of that text.   *)
(* Positions count from 0, as in the source.                               *)
(***************************************************************************)
EXTENDS LayerState

CONSTANTS Prompts,      \* prompt_ids of the requests
          Window,       \* rows of the drafter's ring (2047)
          Block,        \* block_size: the pending token and the drafts (8)
          ChunkSizes,   \* dflash_chunk: 1 to 8, 16, 32, 64, 128
          WideChunk,    \* rows of the optional wide prefill chunk (512)
          Wide,         \* QWEN38_PREFILL_MAX_CHUNK asks for it
          Checkpoints,  \* the slots a request may resume from
          Faults        \* a Metal command may fail

ASSUME RingAssumption ==
    /\ Prompts \subseteq Seq(Token) \ {<< >>}
    /\ Window \in Nat \ {0}
    /\ Block \in 2 .. Window
    /\ ChunkSizes \subseteq 1 .. Window /\ 1 \in ChunkSizes
    /\ WideChunk \in 1 .. Window
    /\ Checkpoints \subseteq {"turn", "system"}
    /\ {Wide, Faults} \subseteq BOOLEAN

VARIABLES
    phase,         \* "idle", "plain", "reply", or "step" (in sample_step)
    text,          \* the tokens the target's layers have processed
    turn, system,  \* the tokens of the two checkpoint slots
    taps, tags,    \* target_taps and target_tags
    rows,          \* key_cache and value_cache of the five draft layers
    contextEnd,    \* context_end
    contextCount,  \* context_count
    block,         \* rows of the step in hand
    oddTaps,       \* history variable: the positions whose taps may be of
    oddRows        \* another text, and those whose rows may be

tapVars == <<taps, tags, oddTaps>>
contextVars == <<rows, contextEnd, contextCount, oddRows>>
slotVars == <<turn, system>>
vars == <<phase, text, slotVars, tapVars, contextVars, block>>

TapRows == 0 .. Window
DraftRows == 0 .. Window - 1

Init ==
    /\ phase = "idle"
    /\ text = << >>
    /\ turn = << >>
    /\ system = << >>
    /\ taps = [i \in TapRows |-> Zeroed]
    /\ tags = [i \in TapRows |-> 0]
    /\ rows = [i \in DraftRows |-> Zeroed]
    /\ contextEnd = 0
    /\ contextCount = 0
    /\ block = 0
    /\ oddTaps = {}
    /\ oddRows = {}

-----------------------------------------------------------------------------
(* The rings.                                                              *)

Greater(m, n) == IF m > n THEN m ELSE n
Smaller(m, n) == IF m < n THEN m ELSE n

Position == Len(text)
Positions(from, to) == from .. to - 1

TapOf(p) == taps[p % (Window + 1)]
Tagged(p) == tags[p % (Window + 1)] = p + 1
RowOfPosition(p) == rows[p % Window]

\* The last of `positions` that falls on slot i of a ring of that many rows.
LastOn(i, size, positions) ==
    CHOOSE p \in positions : p % size = i /\ \A q \in positions :
                                                 q % size = i => q <= p

\* The forwards of s from position `from` on leave their taps.  Those of the
\* positions `odd` are read from rows the forward did not write.
Capture(oldTags, s, from, odd) ==
    LET written == Positions(from, Len(s))
        last(i) == LastOn(i, Window + 1, written)
        Hit(i) == \E p \in written : p % (Window + 1) = i
    IN  /\ tags' = [i \in TapRows |-> IF Hit(i) THEN last(i) + 1
                                      ELSE oldTags[i]]
        /\ taps' = [i \in TapRows |->
                       IF ~ Hit(i) THEN taps[i]
                       ELSE IF last(i) \in odd THEN Garbage
                       ELSE FirstTokens(s, last(i) + 1)]

\* The positions of a prefill that go through the wide chunks, which come
\* first: the capture reads the workspace of the narrow ones.
WidePositions(from, to) ==
    IF Wide THEN Positions(from, from + ((to - from) \div WideChunk) * WideChunk)
    ELSE {}

NoTags == [i \in TapRows |-> 0]

\* qwen38_m3_model_reset: the rows stay, nothing refers to them any more.
ResetContext ==
    /\ contextEnd' = 0
    /\ contextCount' = 0
    /\ oddRows' = {}
    /\ UNCHANGED rows

-----------------------------------------------------------------------------
(* A request: choose what to resume from, prefill, forward, checkpoint.    *)

Extends(prompt, base) ==
    /\ base # << >>
    /\ Len(prompt) > Len(base)
    /\ FirstTokens(prompt, Len(base)) = base

ExtendsTurn(prompt) == "turn" \in Checkpoints /\ Extends(prompt, turn)
ExtendsSystem(prompt) == "system" \in Checkpoints /\ Extends(prompt, system)

\* The prompt is read from position `from` on, in two spans when a declared
\* prefix ends at `boundary`; taps of `doubtful` positions may have been of
\* another text.  Saving the TURN slot may fail.
Read(prompt, from, boundary, oldTags, doubtful) ==
    LET odd == WidePositions(from, boundary)
                   \cup WidePositions(boundary, Len(prompt) - 1)
    IN  /\ phase = "idle"
        /\ Len(prompt) < Capacity
        /\ phase' \in {"plain", "reply"}
        /\ text' = prompt
        /\ \/ turn' = prompt
           \/ Faults /\ turn' = << >>
        /\ Capture(oldTags, prompt, from, odd)
        /\ oddTaps' = (doubtful \ Positions(from, Len(prompt))) \cup odd
        /\ UNCHANGED block

ContinueHistory(prompt) ==
    /\ Extends(prompt, text)
    /\ Read(prompt, Position, Position, tags, oddTaps)
    /\ UNCHANGED <<system, contextVars>>

\* A checkpoint brings back the target's layers; the drafter's rings and
\* context_end stay as the abandoned text left them.
RestoreTurn(prompt) ==
    /\ ~ Extends(prompt, text)
    /\ ExtendsTurn(prompt)
    /\ Read(prompt, Len(turn), Len(turn), tags, oddTaps)
    /\ oddRows' = oddRows \cup Positions(Len(turn), contextEnd)
    /\ UNCHANGED <<system, rows, contextEnd, contextCount>>

RestoreSystem(prompt) ==
    /\ ~ Extends(prompt, text)
    /\ ExtendsTurn(prompt) => Faults
    /\ ExtendsSystem(prompt)
    /\ Read(prompt, Len(system), Len(system), tags,
            oddTaps \cup Positions(0, Len(system)))
    /\ oddRows' = oddRows \cup Positions(0, contextEnd)
    /\ UNCHANGED <<system, rows, contextEnd, contextCount>>

\* A declared prefix is worth a checkpoint when more than one token of the
\* prompt follows it.
Boundaries(prompt) == {0} \cup 1 .. Len(prompt) - 2

StartOver(prompt, boundary) ==
    /\ ~ Extends(prompt, text)
    /\ ExtendsTurn(prompt) \/ ExtendsSystem(prompt) => Faults
    /\ Read(prompt, 0, boundary, NoTags, {})
    /\ CASE boundary = 0 -> UNCHANGED system
         [] boundary > 0 -> \/ system' = FirstTokens(prompt, boundary)
                            \/ Faults /\ system' = << >>
    /\ ResetContext

\* The failure exit resets the model; the checkpoints stay.
Forget ==
    /\ Faults
    /\ phase' = "idle"
    /\ text' = << >>
    /\ tags' = NoTags
    /\ oddTaps' = {}
    /\ ResetContext
    /\ UNCHANGED <<turn, taps, block>>

\* The prompt or the reply fails.
Fail == Forget /\ UNCHANGED system

\* The prompt fails after its declared prefix has been checkpointed.
FailAfterPrefix(prompt, boundary) ==
    /\ phase = "idle"
    /\ ~ Extends(prompt, text)
    /\ boundary > 0
    /\ Forget
    /\ system' = FirstTokens(prompt, boundary)

-----------------------------------------------------------------------------
(* The reply.                                                              *)

\* A request DFlash2 does not serve: one forward per token.
PlainToken(token) ==
    /\ phase = "plain"
    /\ Position + 1 < Capacity
    /\ text' = Append(text, token)
    /\ Capture(tags, text', Position, {})
    /\ oddTaps' = oddTaps \ {Position}
    /\ UNCHANGED <<phase, slotVars, contextVars, block>>

EndReply ==
    /\ phase \in {"plain", "reply"}
    /\ phase' = "idle"
    /\ UNCHANGED <<text, slotVars, tapVars, contextVars, block>>

-----------------------------------------------------------------------------
(* A step: bring the context up to the position, propose, verify.          *)

TagsCover(from, to) == \A p \in Positions(from, to) : Tagged(p)

\* A mutation: the tags are not looked at.
AppendsBlindly ==
    /\ contextEnd <= Position
    /\ Position - contextEnd <= Window

Appends ==
    /\ contextEnd <= Position
    /\ Position - contextEnd <= Window
    /\ TagsCover(contextEnd, Position)

\* A mutation: the walk back stops one position early.
RebuildStartAbove ==
    CHOOSE p \in Greater(1, Position - Window + 1) .. Position :
        /\ TagsCover(p, Position)
        /\ p > Greater(1, Position - Window + 1) => ~ Tagged(p - 1)

\* The longest suffix whose taps are still there.
RebuildStart ==
    CHOOSE p \in Greater(0, Position - Window) .. Position :
        /\ TagsCover(p, Position)
        /\ p > Greater(0, Position - Window) => ~ Tagged(p - 1)

BeginStep ==
    /\ phase = "reply"
    /\ Position + 2 <= Capacity
    /\ phase' = "step"
    /\ block' = Smaller(Block, Capacity - Position)
    /\ \/ Appends /\ UNCHANGED <<contextEnd, contextCount, oddRows>>
       \/ /\ ~ Appends
          /\ contextEnd' = RebuildStart
          /\ contextCount' = 0
          /\ oddRows' = {}
    /\ UNCHANGED <<text, slotVars, tapVars, rows>>

NextChunk ==
    CHOOSE n \in ChunkSizes :
        /\ n <= Position - contextEnd
        /\ \A m \in ChunkSizes : m <= Position - contextEnd => m <= n

\* A mutation: the count does not stop at the size of the ring.
CountedContext == contextCount + NextChunk

\* The rows of the ring that the drafter may attend to.
GrownContext == Smaller(Window, contextCount + NextChunk)

\* One command buffer of dflash_update_context.
FillContext ==
    LET filled == Positions(contextEnd, contextEnd + NextChunk)
    IN  /\ phase = "step"
        /\ contextEnd < Position
        /\ rows' = [i \in DraftRows |->
                       IF \E p \in filled : p % Window = i
                       THEN TapOf(LastOn(i, Window, filled)) ELSE rows[i]]
        /\ contextEnd' = contextEnd + NextChunk
        /\ contextCount' = GrownContext
        /\ oddRows' = (oddRows \ filled) \cup (filled \cap oddTaps)
        /\ UNCHANGED <<phase, text, slotVars, tapVars, block>>

Proposing == phase = "step" /\ contextEnd = Position

\* The pending token and the drafts are verified in one batch, which leaves
\* taps for all of them; `kept` of them stay.
Verify(chain, kept) ==
    /\ Proposing
    /\ Len(chain) = block
    /\ text' = text \o FirstTokens(chain, kept)
    /\ Capture(tags, text \o chain, Position, {})
    /\ oddTaps' = oddTaps \ Positions(Position, Position + block)
    /\ phase' = "reply"
    /\ UNCHANGED <<slotVars, contextVars, block>>

-----------------------------------------------------------------------------
Request ==
    \E prompt \in Prompts :
        \/ ContinueHistory(prompt)
        \/ RestoreTurn(prompt)
        \/ RestoreSystem(prompt)
        \/ \E boundary \in Boundaries(prompt) :
               StartOver(prompt, boundary) \/ FailAfterPrefix(prompt, boundary)

Chains == UNION {[1 .. n -> Token] : n \in 2 .. Block}

Step ==
    \/ BeginStep
    \/ FillContext
    \/ \E chain \in Chains : \E kept \in 1 .. Len(chain) : Verify(chain, kept)

Next ==
    \/ Request
    \/ Fail
    \/ \E token \in Token : PlainToken(token)
    \/ EndReply
    \/ Step

Spec == Init /\ [][Next]_vars

-----------------------------------------------------------------------------
TypeOK ==
    /\ phase \in {"idle", "plain", "reply", "step"}
    /\ {text, turn, system} \subseteq Seq(Token)
    /\ Position <= Capacity
    /\ taps \in [TapRows -> Content]
    /\ tags \in [TapRows -> 0 .. Capacity]
    /\ rows \in [DraftRows -> Content]
    /\ contextEnd \in 0 .. Capacity
    /\ contextCount \in 0 .. Smaller(Window, contextEnd)
    /\ block \in 0 .. Block
    /\ oddTaps \subseteq 0 .. Capacity
    /\ oddRows \subseteq 0 .. Capacity

\* The positions a proposal attends to.
Attended == Positions(Position - contextCount, Position)

FollowsText(p) == RowOfPosition(p) = FirstTokens(text, p + 1)

\* Every row the drafter attends to was made from the target's own hidden
\* state of the present text, whatever was rejected, failed, reset, wrapped
\* around or continued before; the exceptions are rows of a text abandoned
\* by a checkpoint, and taps a wide prefill or another text left
\* (dflash_update_context and dflash_propose).
ContextFollowsText ==
    Proposing => \A p \in Attended \ oddRows : FollowsText(p)

\* The drafter does not lose sight of text it could see: unless rows are in
\* doubt, the position below its context is outside the window, or its tap
\* has been overwritten (dflash_update_context).
ContextIsLongest ==
    Proposing /\ oddRows = {} /\ contextCount < Smaller(Window, Position) =>
        ~ Tagged(Position - contextCount - 1)
=============================================================================
