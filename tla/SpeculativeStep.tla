--------------------------- MODULE SpeculativeStep ---------------------------
(***************************************************************************)
(* One speculative step of runtime/qwen38_m3_decode.m: mtp_step,           *)
(* mtp_sample_step, mtp_lattice_step and mtp_viterbi_sample_step, driven   *)
(* by the reply loop of commands/qwen38_m3_chat.c.                         *)
(*                                                                         *)
(* A step drafts a chain of tokens after the pending one, verifies the     *)
(* chain in one batched forward of the target, keeps a prefix of it,       *)
(* repairs the recurrent state and hands over the next pending token, the  *)
(* hidden row the next draft starts from, and the row of logits the        *)
(* pending token came from.  A search step tries several chains from the   *)
(* same snapshot and commits one.                                          *)
(*                                                                         *)
(* Contents are the token sequences they were computed from (LayerState).  *)
(* The target model is Best (greedy choice) and Likely (what temperature,  *)
(* top-k and top-p leave); the drafts are arbitrary tokens, so every       *)
(* choice of depth, lookup and acceptance estimate is covered.             *)
(***************************************************************************)
EXTENDS LayerState, FiniteSets

CONSTANTS Best(_),       \* the target's argmax in a context
          Likely(_),     \* the tokens its filtered distribution keeps
          Prompts,       \* token runs a request adds
          Drivers,       \* request kinds: "greedy" and/or "sampled"
          MaximumDepth,  \* longest draft chain (7)
          BeamWidth,     \* viterbi_beam
          Fused,         \* one command buffer per greedy step (no profiling)
          Replay,        \* the drivers repaired by replaying: both without
                         \* MMA, greedy ones with QWEN38_REPLAY=1
          Lookup,        \* context lookup may replace the draft chain
          Search,        \* viterbi_enabled
          SearchAfter,   \* reply tokens before a search may be triggered
          Continuation,  \* a request may continue the live state
          Faults         \* a Metal command may fail

Contexts == UNION {[1 .. n -> Token \cup {Bad}] : n \in 0 .. Capacity}

ASSUME StepAssumption ==
    /\ \A c \in Contexts : Best(c) \in Likely(c) /\ Likely(c) \subseteq Token
    /\ Prompts \subseteq Seq(Token) \ {<< >>}
    /\ Drivers \subseteq {"greedy", "sampled"}
    /\ Replay \subseteq Drivers
    /\ MaximumDepth \in Nat \ {0}
    /\ BeamWidth \in Nat \ {0}
    /\ SearchAfter \in Nat
    /\ {Fused, Lookup, Search, Continuation, Faults} \subseteq BOOLEAN

VARIABLES
    phase,         \* how far the current step is
    driver,        \* greedy_request or sampled_mtp_request
    text,          \* the prompt and every token handed out
    start,         \* prompt_count: where the current reply begins
    position,      \* mtp_position
    pending,       \* the sampled token the step starts from
    gdn, kv,       \* the 64 layers of the target
    snapshot,      \* snapshot_recurrent and snapshot_convolution
    draftRows,     \* key and value rows of the MTP layer
    finalHidden,   \* final_normalized
    rowHidden,     \* rows of p_post_normalized
    hiddenSource,  \* mtp_hidden_source
    logitRows,     \* rows of p_logits2
    logitRow,      \* mtp_next_logit_row
    logitsValid,   \* mtp_next_logits_valid
    chain,         \* the verified chain, or the best path of the lattice
    emitted,       \* what the step is going to hand out
    next,          \* next_pending
    refresh,       \* the draft rows of `emitted` are still to be written
    roots,         \* lattice: root_ids not explored yet
    beam,          \* viterbi: the kept nodes
    savedHidden    \* saved_hidden of a search

callerVars == <<driver, text, start, position, pending>>
layerVars == <<gdn, kv>>
hiddenVars == <<finalHidden, rowHidden, hiddenSource>>
logitVars == <<logitRows, logitRow, logitsValid>>
resultVars == <<emitted, next, refresh>>
searchVars == <<roots, beam, savedHidden>>

vars == <<phase, callerVars, layerVars, snapshot, draftRows, hiddenVars,
          logitVars, chain, resultVars, searchVars>>

Phases == {"idle", "ready", "drafted", "verified", "search", "settled",
           "failed"}
BatchRows == 0 .. MaximumDepth
Depths == 1 .. MaximumDepth

Init ==
    /\ phase = "idle"
    /\ driver \in Drivers
    /\ text = << >>
    /\ start = 0
    /\ position = 0
    /\ pending = Bad
    /\ gdn = Zeroed
    /\ kv = [i \in Rows |-> Zeroed]
    /\ snapshot = Zeroed
    /\ draftRows = [i \in Rows |-> Zeroed]
    /\ finalHidden = Zeroed
    /\ rowHidden = [i \in BatchRows |-> Zeroed]
    /\ hiddenSource = 0
    /\ logitRows = [i \in BatchRows |-> Zeroed]
    /\ logitRow = 0
    /\ logitsValid = FALSE
    /\ chain = << >>
    /\ emitted = << >>
    /\ next = Bad
    /\ refresh = FALSE
    /\ roots = {}
    /\ beam = {}
    /\ savedHidden = Zeroed

-----------------------------------------------------------------------------
(* The target and the draft layer.                                         *)

\* A greedy request takes the argmax, a sampled one draws.
Choices(kind, context) ==
    IF kind = "greedy" THEN {Best(context)} ELSE Likely(context)

\* gdn_state_copy(r, 1): the recurrent state as the step found it.
Restored == snapshot

\* The rows of a workspace that a batch of `count` tokens at `position`
\* overwrites, one per token.
BatchOf(context, count, old) ==
    [i \in BatchRows |-> IF i < count THEN RowOf(context, position + i + 1)
                         ELSE old[i]]

\* model_forward_batch from the recurrent state `base`.
Verify(base, tokens) ==
    LET context == Advance(base, kv, position, tokens)
    IN  /\ gdn' = context
        /\ kv' = WriteRows(kv, position, Len(tokens), context)
        /\ logitRows' = BatchOf(context, Len(tokens), logitRows)

\* The hidden row the next draft pass consumes.
Hidden == IF hiddenSource = 0 THEN finalHidden ELSE rowHidden[hiddenSource - 1]

\* A row of the MTP layer depends on its token and the hidden it is fused
\* with: the target's hidden before that token, or else nothing the target
\* ever computed.
Pair(hidden, token) ==
    IF hidden = Garbage THEN Garbage ELSE Append(hidden, token)

\* Mutant: the row of the root is left as it is.
FirstRowKept(hidden, token) == draftRows

\* One row, for the token at `position`.
FirstRow(hidden, token) ==
    [draftRows EXCEPT ![position + 1] = Pair(hidden, token)]

\* A drafted chain: only its first pass starts from the target's hidden.
ChainRows(hidden, token, depth) ==
    [i \in Rows |-> IF i = position + 1 THEN Pair(hidden, token)
                    ELSE IF i \in (position + 2) .. (position + depth)
                    THEN Garbage ELSE draftRows[i]]

\* A batched pass over the tokens that follow the one at `position`.
SuccessorRows(under, hiddens, tokens) ==
    [i \in Rows |->
        IF i \in (position + 2) .. (position + 1 + Len(tokens))
        THEN Pair(hiddens[i - position - 2], tokens[i - position - 1])
        ELSE under[i]]

\* A batched pass of the MTP layer leaves its own post-attention norm in the
\* workspace it read the hiddens from; a pass over one row does not use it.
Overwritten(hiddens, count) ==
    [i \in BatchRows |-> IF count > 1 /\ i < count THEN Garbage
                         ELSE hiddens[i]]

-----------------------------------------------------------------------------
(* Requests.                                                               *)

\* A request that starts over: reset, prefill, forward, first token.
NewReply(prompt) ==
    /\ phase \in {"idle", "ready", "failed"}
    /\ Len(prompt) < Capacity
    /\ phase' = "ready"
    /\ driver' \in Drivers
    /\ text' = prompt
    /\ start' = Len(prompt)
    /\ position' = Len(prompt)
    /\ pending' \in Choices(driver', prompt)
    /\ gdn' = prompt
    /\ kv' = WriteRows([i \in Rows |-> Zeroed], 0, Len(prompt), prompt)
    /\ draftRows' = [i \in Rows |-> IF i \in 2 .. Len(prompt)
                                    THEN FirstTokens(prompt, i) ELSE Zeroed]
    /\ finalHidden' = prompt
    /\ hiddenSource' = 0
    /\ logitsValid' = FALSE
    /\ UNCHANGED <<snapshot, rowHidden, logitRows, logitRow, chain,
                   resultVars, searchVars>>

\* A request that extends the live state.  The prefill pairs each token with
\* the hidden before it, so the first new token gets no draft row; nothing
\* takes mtp_next_logits_valid back.
ContinueReply(tokens) ==
    /\ Continuation
    /\ phase = "ready"
    /\ Len(text) + Len(tokens) < Capacity
    /\ LET context == Advance(gdn, kv, position, tokens)
       IN  /\ driver' \in Drivers
           /\ text' = text \o tokens
           /\ start' = Len(text')
           /\ position' = Len(text')
           /\ pending' \in Choices(driver', context)
           /\ gdn' = context
           /\ kv' = WriteRows(kv, position, Len(tokens), context)
           /\ draftRows' =
                [i \in Rows |->
                    IF i \in (position + 2) .. (position + Len(tokens))
                    THEN RowOf(context, i) ELSE draftRows[i]]
           /\ finalHidden' = context
    /\ hiddenSource' = 0
    /\ UNCHANGED <<phase, snapshot, rowHidden, logitVars, chain, resultVars,
                   searchVars>>

-----------------------------------------------------------------------------
(* Drafting and verifying one chain.                                       *)

\* Mutant: the last row of the batch is not counted.
FitsOneMore(depth) == position + depth <= Capacity

\* The caller does not start a step without room for one draft; the step
\* shortens its chain until it fits.
Fits(depth) == position + depth + 1 <= Capacity

\* Greedy, one command buffer: drafts (unless looked up in the context),
\* snapshot, verification, and the refresh of every drafted successor.
FusedStep(depth, drafts, looked) ==
    /\ phase = "ready"
    /\ driver = "greedy"
    /\ Fused
    /\ Fits(depth)
    /\ looked => Lookup
    /\ LET tokens == <<pending>> \o drafts
           context == Advance(gdn, kv, position, tokens)
           hiddens == BatchOf(context, depth + 1, rowHidden)
       IN  /\ chain' = tokens
           /\ Verify(gdn, tokens)
           /\ draftRows' =
                SuccessorRows(IF looked THEN draftRows
                              ELSE ChainRows(Hidden, pending, depth),
                              hiddens, drafts)
           /\ rowHidden' = Overwritten(hiddens, depth)
    /\ finalHidden' = IF looked THEN finalHidden ELSE Garbage
    /\ snapshot' = gdn
    /\ logitsValid' = FALSE
    /\ phase' = "verified"
    /\ UNCHANGED <<callerVars, hiddenSource, logitRow, resultVars, searchVars>>

\* Sampled, or greedy under the profiler: one pass per draft ...
Draft(depth, drafts) ==
    /\ phase = "ready"
    /\ driver = "sampled" \/ ~Fused
    /\ Fits(depth)
    /\ chain' = <<pending>> \o drafts
    /\ draftRows' = ChainRows(Hidden, pending, depth)
    /\ finalHidden' = Garbage
    /\ logitsValid' = FALSE
    /\ phase' = "drafted"
    /\ UNCHANGED <<callerVars, layerVars, snapshot, rowHidden, hiddenSource,
                   logitRows, logitRow, resultVars, searchVars>>

\* ... then the snapshot and the batched verification.
VerifyChain ==
    /\ phase = "drafted"
    /\ snapshot' = gdn
    /\ Verify(gdn, chain)
    /\ rowHidden' = BatchOf(Advance(gdn, kv, position, chain), Len(chain),
                            rowHidden)
    /\ phase' = "verified"
    /\ UNCHANGED <<callerVars, draftRows, finalHidden, hiddenSource, logitRow,
                   logitsValid, chain, resultVars, searchVars>>

-----------------------------------------------------------------------------
(* Keeping a prefix of the chain.                                          *)

Depth == Len(chain) - 1
OneBuffer == Fused /\ driver = "greedy"

\* Mutant: drafts are compared with the row after them.
MatchesNextRow(n) == \A i \in 1 .. n : chain[i + 1] = Best(logitRows[i])

Matches(n) == \A i \in 1 .. n : chain[i + 1] = Best(logitRows[i - 1])

\* Mutant: the target's distribution is read one row too far.
AcceptsNextRow(n) ==
    IF driver = "greedy"
    THEN Matches(n) /\ (n < Depth => ~Matches(n + 1))
    ELSE \A i \in 1 .. n : chain[i + 1] \in Likely(logitRows[i])

\* Greedy keeps the longest run of drafts that are the target's own choice;
\* sampling keeps a draft with a chance min(1, p / q), none when p = 0 (the
\* draw of exactly zero, one in 2^53, is left out).
Accepts(n) ==
    IF driver = "greedy"
    THEN Matches(n) /\ (n < Depth => ~Matches(n + 1))
    ELSE \A i \in 1 .. n : chain[i + 1] \in Likely(logitRows[i - 1])

AcceptAll ==
    /\ phase = "verified"
    /\ Accepts(Depth)
    /\ emitted' = chain
    /\ next' \in Choices(driver, logitRows[Depth])
    /\ refresh' = ~OneBuffer
    /\ phase' = "settled"
    /\ UNCHANGED <<callerVars, layerVars, snapshot, draftRows, hiddenVars,
                   logitVars, chain, searchVars>>

\* Mutant: the recurrence runs over the rejected draft as well.
RolledBackTooFar(n) == snapshot \o FirstTokens(chain, n + 2)

\* The snapshot and the recurrence over the accepted rows.
RolledBack(n) == snapshot \o FirstTokens(chain, n + 1)

\* rollback_to_accept; the attention rows of the rejected drafts stay where
\* they are.
Rollback(n) ==
    /\ phase = "verified"
    /\ driver \notin Replay
    /\ n < Depth
    /\ Accepts(n)
    /\ gdn' = RolledBack(n)
    /\ emitted' = FirstTokens(chain, n + 1)
    /\ next' \in Choices(driver, logitRows[n])
    /\ refresh' = (~OneBuffer /\ n > 0)
    /\ phase' = "settled"
    /\ UNCHANGED <<callerVars, kv, snapshot, draftRows, hiddenVars, logitVars,
                   chain, searchVars>>

\* What is forwarded again: the accepted prefix and, greedily, the token
\* that corrects the first rejected draft.
ReplayTokens(n) ==
    FirstTokens(chain, n + 1) \o
    (IF driver = "greedy" THEN <<Best(logitRows[n])>> ELSE << >>)

\* The comparison path: restore the snapshot and forward the prefix again.
ReplayAccepted(n) ==
    /\ phase = "verified"
    /\ driver \in Replay
    /\ n < Depth
    /\ Accepts(n)
    /\ LET tokens == ReplayTokens(n)
       IN  /\ Verify(Restored, tokens)
           /\ rowHidden' = BatchOf(Advance(Restored, kv, position, tokens),
                                   Len(tokens), rowHidden)
           /\ emitted' = tokens
           /\ next' \in Choices(driver, logitRows'[Len(tokens) - 1])
           /\ refresh' = (Len(tokens) > 1)
    /\ phase' = "settled"
    /\ UNCHANGED <<callerVars, snapshot, draftRows, finalHidden, hiddenSource,
                   logitRow, logitsValid, chain, searchVars>>

\* The variables of the step function itself end with it.
LeaveStep ==
    /\ chain' = << >>
    /\ emitted' = << >>
    /\ next' = Bad
    /\ refresh' = FALSE
    /\ roots' = {}
    /\ beam' = {}
    /\ savedHidden' = Zeroed

\* Mutant: the row of the whole chain's last token.
ChainRow == Depth

\* next_logit_row: the row of the last token handed out.
NextLogitRow == Len(emitted) - 1

\* Mutant: counted from zero.
HiddenCountedFromZero == Len(emitted) - 1

\* mtp_hidden_source counts rows from one; zero is the plain forward's.
NextHiddenSource == Len(emitted)

\* The end of every step: the pending refresh of the draft rows, then the
\* caller's token, position and history.
HandOver ==
    /\ phase = "settled"
    /\ draftRows' = IF refresh
                    THEN SuccessorRows(draftRows, rowHidden, Tail(emitted))
                    ELSE draftRows
    /\ rowHidden' = IF refresh THEN Overwritten(rowHidden, Len(emitted) - 1)
                    ELSE rowHidden
    /\ text' = text \o emitted
    /\ position' = position + Len(emitted)
    /\ pending' = next
    /\ hiddenSource' = NextHiddenSource
    /\ logitRow' = NextLogitRow
    /\ logitsValid' = TRUE
    /\ phase' = "ready"
    /\ LeaveStep
    /\ UNCHANGED <<driver, start, layerVars, snapshot, finalHidden, logitRows>>

-----------------------------------------------------------------------------
(* Searching: several chains from one snapshot.                            *)

\* Mutant: a search may be triggered at once.
SearchAtOnce == position >= start

\* generated_count is past viterbi_min_tokens, or long enough to repeat.
SearchDue == position - start >= SearchAfter

\* The caller asks for a search when it can read the logits of the pending
\* token; the greedy lattice takes its roots from them, the sampled search
\* keeps the pending token as its root.
BeginSearch ==
    /\ phase = "ready"
    /\ Search
    /\ logitsValid
    /\ SearchDue
    /\ Fits(1)
    /\ savedHidden' = Hidden
    /\ snapshot' = gdn
    /\ chain' = << >>
    /\ IF driver = "greedy"
       THEN /\ roots' = Likely(logitRows[logitRow])
            /\ beam' = {}
            /\ UNCHANGED logitsValid
       ELSE /\ roots' = {}
            /\ beam' = {<<pending>>}
            /\ logitsValid' = FALSE
    /\ phase' = "search"
    /\ UNCHANGED <<callerVars, layerVars, draftRows, hiddenVars, logitRows,
                   logitRow, resultVars>>

\* One root of the lattice: restore (but for the first branch), draft a
\* chain from the saved hidden, verify it, keep it if it scores best.
LatticeBranch(root, drafts) ==
    /\ phase = "search"
    /\ root \in roots
    /\ chain # << >> => Len(chain) = Len(drafts) + 1
    /\ Fits(Len(drafts))
    /\ LET base == IF chain = << >> THEN gdn ELSE Restored
           path == <<root>> \o drafts
       IN  /\ Verify(base, path)
           /\ rowHidden' = BatchOf(Advance(base, kv, position, path),
                                   Len(path), rowHidden)
           /\ draftRows' = ChainRows(savedHidden, root, Len(drafts))
           /\ chain' \in {path, chain} \ {<< >>}
    /\ roots' = roots \ {root}
    /\ finalHidden' = Garbage
    /\ UNCHANGED <<phase, callerVars, snapshot, hiddenSource, logitRow,
                   logitsValid, resultVars, beam, savedHidden>>

\* One level of the sampled search: every kept node is replayed from the
\* snapshot, its likely successors are scored, the best BeamWidth are kept.
\* The layers end as the last node left them.
Successors(node) ==
    {Append(node, t) :
        t \in Likely(RowOf(Advance(Restored, kv, position, node),
                           position + Len(node)))}

Candidates == UNION {Successors(node) : node \in beam}

ViterbiLevel(last, kept) ==
    /\ phase = "search"
    /\ last \in beam
    /\ Len(last) <= MaximumDepth
    /\ Fits(Len(last))
    /\ kept \subseteq Candidates
    /\ Cardinality(kept) = BeamWidth \/
       (Cardinality(kept) < BeamWidth /\ kept = Candidates)
    /\ Verify(Restored, last)
    /\ rowHidden' = BatchOf(Advance(Restored, kv, position, last), Len(last),
                            rowHidden)
    /\ beam' = kept
    /\ UNCHANGED <<phase, callerVars, snapshot, draftRows, finalHidden,
                   hiddenSource, logitRow, logitsValid, chain, resultVars,
                   roots, savedHidden>>

\* The winner is forwarded once more from the snapshot; the draft row of its
\* root comes from the saved hidden, those of its successors follow in
\* HandOver.
CommitPath(path) ==
    /\ phase = "search"
    /\ roots = {}
    /\ path \in beam \cup {chain}
    /\ Len(path) > 1
    /\ Verify(Restored, path)
    /\ rowHidden' = BatchOf(Advance(Restored, kv, position, path), Len(path),
                            rowHidden)
    /\ draftRows' = FirstRow(savedHidden, path[1])
    /\ finalHidden' = savedHidden
    /\ emitted' = path
    /\ next' \in Choices(driver, logitRows'[Len(path) - 1])
    /\ refresh' = TRUE
    /\ phase' = "settled"
    /\ UNCHANGED <<callerVars, snapshot, hiddenSource, logitRow, logitsValid,
                   chain, searchVars>>

\* A command that fails leaves the layers as they were, half advanced, or,
\* in a branch of a search, restored; the caller ends the reply and resets.
StepFails ==
    /\ Faults
    /\ phase \in {"ready", "drafted", "verified", "search", "settled"}
    /\ gdn' \in {gdn, snapshot, Garbage}
    /\ phase' = "failed"
    /\ LeaveStep
    /\ UNCHANGED <<callerVars, kv, snapshot, draftRows, hiddenVars, logitVars>>

Chains == UNION {[1 .. n -> Token] : n \in Depths}

OneChain ==
    \/ \E drafts \in Chains, looked \in BOOLEAN :
            FusedStep(Len(drafts), drafts, looked)
    \/ \E drafts \in Chains : Draft(Len(drafts), drafts)
    \/ VerifyChain

Settle ==
    \/ AcceptAll
    \/ \E n \in BatchRows : Rollback(n)
    \/ \E n \in BatchRows : ReplayAccepted(n)
    \/ HandOver

ManyChains ==
    \/ BeginSearch
    \/ \E root \in Token, drafts \in Chains : LatticeBranch(root, drafts)
    \/ \E last \in beam, kept \in SUBSET Candidates : ViterbiLevel(last, kept)
    \/ \E path \in beam \cup {chain} : CommitPath(path)

Next ==
    \/ \E prompt \in Prompts : NewReply(prompt) \/ ContinueReply(prompt)
    \/ OneChain
    \/ Settle
    \/ ManyChains
    \/ StepFails

Spec == Init /\ [][Next]_vars

-----------------------------------------------------------------------------
(* Properties.                                                             *)

\* Every variable has its type in every step.
TypeOK ==
    /\ phase \in Phases
    /\ driver \in {"greedy", "sampled"}
    /\ text \in Seq(Token)
    /\ start \in 0 .. Capacity
    /\ position \in 0 .. Capacity
    /\ pending \in Token \cup {Bad}
    /\ {gdn, snapshot, finalHidden, savedHidden} \subseteq Content
    /\ {kv, draftRows} \subseteq [Rows -> Content]
    /\ {rowHidden, logitRows} \subseteq [BatchRows -> Content]
    /\ hiddenSource \in 0 .. MaximumDepth + 1
    /\ logitRow \in BatchRows
    /\ {logitsValid, refresh} \subseteq BOOLEAN
    /\ {chain, emitted} \subseteq Seq(Token)
    /\ next \in Token \cup {Bad}
    /\ roots \subseteq Token
    /\ beam \subseteq Seq(Token)

\* Between steps the recurrent state and the attention rows are those of the
\* tokens handed out, however the chain was accepted, rolled back, replayed
\* or chosen among several: rejected drafts and losing branches leave no
\* trace (decode.m 3986-4017, 4417-4432).
LayersFollowText ==
    phase = "ready" =>
        /\ gdn = text
        /\ position = Len(text)
        /\ Holds(kv, text)

\* After a step the exposed logits are those the pending token was taken
\* from ("the target-model distribution that produced current_token",
\* decode.h): the row index survives truncation, replay and search.
LogitsOfPending ==
    phase = "ready" /\ position > start =>
        /\ logitsValid
        /\ logitRows[logitRow] = text
        /\ pending \in Choices(driver, text)

\* Between steps the hidden row the next draft starts from is the target's
\* own after the last token handed out (decode.m 2822-2825, 3945-3948).
HiddenOfTarget == phase = "ready" => Hidden = text

\* Between steps the draft layer's rows of the reply are those of the tokens
\* handed out, none of a rejected draft (decode.m 4036-4043).
DraftRowsFollowText ==
    phase = "ready" =>
        \A i \in start + 1 .. position : draftRows[i] = FirstTokens(text, i)

\* Before the first branch the roots of a lattice are the candidates for the
\* pending token, drawn from the distribution of the text it follows
\* (decode.h, mtp_lattice_step).
RootsOfPending ==
    phase = "search" /\ driver = "greedy" /\ chain = << >> =>
        roots = Likely(text)

\* Speculation is lossless: a greedy request that never searches gets
\* exactly the target's greedy continuation, a sampled one only tokens its
\* filtered distribution keeps, drafted, searched or not (decode.m
\* 4077-4085, 4279).
Lossless ==
    (phase = "ready" /\ (driver = "greedy" => ~Search)) =>
        \A i \in start + 1 .. Len(text) :
            text[i] \in Choices(driver, FirstTokens(text, i - 1))
=============================================================================
