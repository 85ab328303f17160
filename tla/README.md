# qwen3-27b-metal: a verification development

TLA+ models of the program in `src/`, TLC runs that check them on small
instances, and TLAPS proofs of what matters most for every instance. The source
is the reference: every definition names in `PROJECT.json` ("map") the lines it
stands for. Paths below are relative to `src/`.

## 1. The system

One model, one process, one server. `server/qwen38_serve.py` accepts HTTP
requests in a thread each and hands them, one at a time, to a resident process
(`commands/qwen38_m3_chat.c`) over a pair of pipes. The process keeps the model's
state on the GPU between requests (`runtime/qwen38_m3_decode.m`) and tries to
reuse as much of it as the next prompt allows. It generates one token per
forward, or several with speculative decoding. Beside the server stands the model
compiler (`compiler/*.py`): it quantizes a checkpoint into planes, packs them into
the images the runtime maps, and verifies the images against the planes.

| component | where | state it keeps | operations |
|---|---|---|---|
| request serialisation | `server/qwen38_serve.py` 672-733 | one `Engine`: lock, child process, two pipes | start, generate, the handlers' `on_delta` |
| chat request loop | `commands/qwen38_m3_chat.c` 594-1134 | history tokens, TURN and SYSTEM checkpoint tokens, the request in hand | read a line, resume, prefill, checkpoint, reply, finish or fail |
| layer state and slots | `runtime/qwen38_m3_decode.m` 2603-2741, 3281-3423, 4747-4939 | 48 recurrent (DeltaNet) layers, 16 attention caches, two checkpoint slots | reset, forward, prefill, prefix_save, prefix_restore |
| speculative step | `runtime/qwen38_m3_decode.m` 3004-4651 | snapshot, draft rows, hidden rows, logits rows | mtp_step, mtp_sample_step, mtp_lattice_step, mtp_viterbi_sample_step |
| DFlash2 draft context | `runtime/qwen38_m3_decode.m` 2050-2070, 5093-5461 | ring of target taps with tags, the drafter's rings | capture, append or rebuild, propose, step |
| forward submit and wait | `runtime/qwen38_m3_decode.m` 2643-2800 | command buffer in flight | submit, wait, reset, close |
| prefill chunking | `runtime/qwen38_m3_decode.m` 4747-4939 | position | chunks of 512 to 1 rows |
| text streaming | `commands/qwen38_m3_chat.c` 330-408 | bytes held back | feed, end |
| reply splitters, parsers | `server/qwen38_serve.py` 168-306, 562-666 | the end of the text that may still become a tag | feed, flush, split, parse |
| prompt templates | `server/qwen38_serve.py` 57-165, 309-560 | none | render chat, render Responses, declare the prefix |
| HTTP handlers | `server/qwen38_serve.py` 823-903, 986-1331 | per request: the two splitters and what was sent | plain and streaming, chat and Responses |
| sampler, tokenizer | `runtime/qwen38_sampler.c`, `runtime/qwen38_tokenizer.c` | none | pure |
| model compiler | `compiler/qwen38_build_model.py` | plane and output directories | build, resume, verify, clean up |
| quantizers | `compiler/qwen38_q4_quantize_all.py`, `qwen38_q8_quantize_all.py` | planes, the gate's verdict | quantize a group |
| packers, verifier | `compiler/qwen38_*_pack.py`, `qwen38_io_utils.py`, `qwen38_verify_hybrid.py` | the image being written | create, write, discard, compare |

`PROJECT.json` ("components") lists all of them, also the kernels, benchmarks and
scripts that are not modelled, with the reason.

**Interactions.** Server and process exchange lines: the request one way, `R`,
`D`, `E`, `X` back; a line does not name the request it answers. Process and
runtime share the live layers: the loop's bookkeeping (history, checkpoint
tokens) is right only as long as it describes what the runtime holds. Within the
runtime, drafting and verifying share workspaces (hidden rows, logits rows) that
are handed from one step to the next by index. A client's next prompt is rendered
from the reply it was sent, so the splitters and the templates decide together
whether the process can reuse its state. The compiler's invocations talk to each
other through the two directories: what one leaves, the next reuses.

**What is hard here.**

- *State kept across requests.* Which of four ways a request resumes depends on
  every request before it, and a wrong resume shows only in the quality of the
  text. The TURN slot mirrors the recurrent state but not the attention rows:
  it is right only while the rows below it are.
- *Partial failure.* A checkpoint, a prefill, a forward or a step may fail after
  part of the state has changed; each failure has an exit of its own.
- *Ordering inside a step.* Draft, verify, roll back, replay and refresh write
  overlapping buffers on four different paths.
- *Concurrency.* Handler threads share one process; clients disconnect, the
  process dies, the pipes fill up.
- *Chunks.* A reply arrives in pieces of any size; a tag or the line breaks after it
  may be split anywhere, and two splitters in a row hold text back.
- *Restarts.* A build of hours is killed, meets a full disk, is started again with
  other arguments; only existence says that a file is complete.
- *Boundaries.* Budget, stop tokens, step width and context capacity meet at the
  end of a reply.

`PROJECT.json` ("hazards") has each at the line where it bites.

**What makes each part correct.**

- *Request serialisation*: every request hears its own reply, a reply served as
  complete is complete, between requests the pipes are empty, and every request ends.
- *Chat loop*: a reply token is drawn from logits of exactly the prompt and the
  reply so far; the checkpoints are what their tokens say; the whole is
  indistinguishable from a process that starts over for each prompt.
- *Speculative step*: afterwards the layers hold exactly the tokens handed out,
  logits and hidden row belong to the pending token, the draft rows describe the
  text, and the reply is one the target itself might have given.
- *DFlash2 context*: the rows the drafter attends to were made from the present
  text, and it attends to as many as it can; a rewind must not be forgotten.
- *Splitters, templates, handlers*: no tool markup reaches the client as text, the
  stream shows what the plain reply says and never takes it back, nothing held back
  is lost, the declared prefix has nothing of the session in it and stays, and the
  next prompt extends what the process holds.
- *Model build*: what a build reports as verified is whole and equals the planes,
  whatever earlier invocations left; planes of a failed gate are not packed by the
  run that saw it fail; nothing whole is damaged and nothing is cleaned up too early.

## 2. Modules

| module | what it is |
|---|---|
| `LayerState` | contents of the layers, shared by the three models of GPU state |
| `ChatEngine` | the request loop with the runtime's layers and slots |
| `ReplyService` | abstract: a process that starts over for each prompt |
| `ServeProtocol` | handler threads, `Engine`, pipes, the process's line protocol |
| `SpeculativeStep` | the four kinds of speculative step, with the reply loop around them |
| `DraftRing` | the taps and rings of the DFlash2 drafter over the requests |
| `ReplyText` | how a reply is taken apart: splitters and parsers as operators |
| `ClientTurn` | a client session over both APIs, handlers and templates, on top of `ReplyText` |
| `ModelBuild` | builder, quantizers, packers and verifier over the two directories |
| `MC...` | instances for TLC |
| `..._proofs` | theorems and their proofs |

### LayerState

The runtime's state is gigabytes of floats; the models keep the sequence of
tokens a piece of state was *computed from*. `gdn` is that sequence for the
recurrent layers, `kv[i]` the context in which row `i` of the attention caches was
written, logits and hidden rows likewise. A forward over a state that does not
fit its position, or over a row that does not belong, yields a content with `Bad`
in it (`Advance`), and `Bad` never leaves again. So "computed from exactly this
text" is an equation, and every way of mixing states of different texts violates it.
The kernels are taken to compute what they are called for.

### ChatEngine

`stage` is the place in the loop body of chat.c.

| stage | actions | code |
|---|---|---|
| idle | `Reject`, `Request` (`Accept`) | 594-712: parse, tokenise, bounds |
| resume | `ContinueHistory`, `RestoreTurn`, `RestoreSystem`, `StartOver` | 722-760 |
| prefill, checkpoint, suffix | `PrefillPrefix`, `SaveSystem`, `SaveSystemFails`, `PrefillSuffix` | 770-808 |
| forward | `ForwardPrompt`, `PromptFails` | 809-825 |
| save | `SaveTurn`, `SaveTurnFails`, `SkipTurn` | 826-837 |
| generate, speculate | `PlainToken`, `DrawPending`, `EmitPending`, `SpeculativeStep`, `ReplyFails`, `TokenFails` | 859-1134 |

Draws and the contents of a step are choices over all tokens: the model covers
greedy and sampled requests and any target. `Faults` says which Metal calls may
fail. `prefix_save` and `prefix_restore` (decode.m) are part of the actions that
call them, including what a failure leaves half written. Two history variables, `gap`
and `tainted`, mark the one known divergence (section 6): a state resumed over
zeroed attention rows. Everything else is claimed without exception.

### ReplyService

What a client may assume of the process, whatever it keeps: a request is refused,
or it is answered by a run of tokens that are each drawn in the context "this
prompt, this reply so far", ends within its limit at the first stop token, or
fails. `StatelessService` in `ChatEngine` is its specification under the
refinement mapping that forgets history and checkpoints and takes `logits` for
the context of the draw.

### ServeProtocol

One handler thread per request (`handler[r]`, from "new" over "waiting",
"checking", "starting", "writing", "flushing", "reading" to "done"), the lock
(`holder`), the process (`engine`), the pipes as bounded queues. Each step of
`generate` between two points where another thread, the client or the process
may act is an action. A request line is short (the pipe takes `StdinRoom` of those and the
write returns) or in `LongRequests` (the write returns when the process has taken it). The process side has the print statements of chat.c:
`BecomeReady`, `TakeRequest`, `Say`, `Conclude`, and `FailSilently` for the exits
that print nothing. `Crash` may occur in any state. `poll` that sees a process
already exited but not reaped is a `Crash` between `FindRunning` and `Flush`:
the write then meets a broken pipe. `abandoned` and `misled` are history
variables that say after which disconnect the known divergence may show.

### SpeculativeStep

`phase` is how far the step is. A greedy fused step (`FusedStep`) drafts and
verifies in one command buffer; `Draft` then `VerifyChain` are the unfused path
and sampled steps. Acceptance is `AcceptAll`, `Rollback` (checkpoint factors) or
`ReplayAccepted`; `HandOver` writes what the next step reads. `BeginSearch`,
`LatticeBranch`, `ViterbiLevel` and `CommitPath` are the two searches. `NewReply`
and `ContinueReply` put a prefill around them, so state left by one request meets
the next.

Drafts are arbitrary tokens of any length up to the depth: every adaptive depth,
lookup, cooldown and acceptance estimate of the code is covered by a choice.
Scores and random numbers are choices as well. The target is a pair of constant
operators, `Best` (argmax) and `Likely` (what temperature, top-k and top-p leave,
and the top roots of the lattice). A uniform draw of exactly 0, where `<=` in
decode.m 4181 keeps a draft of probability 0, is left out.

### DraftRing

DFlash2 is the decode mode the server starts with. `taps` and `tags` are the ring
of target hidden states that every forward writes, `rows` the drafter's own ring,
`contextEnd` and `contextCount` the span it believes to hold. A content is again the
sequence of tokens it was computed from. Requests are coarser than in
`ChatEngine`: resume, prefill, forward and checkpoint are one action each way of resuming
(`ContinueHistory`, `RestoreTurn`, `RestoreSystem`, `StartOver`), because the
rings change only in the forwards and the reset; what a failure leaves is `Fail`,
which may come at any point, and `FailAfterPrefix`. A step is `BeginStep` (append
or rebuild), `FillContext` per command buffer, and `Verify` with any accepted
length. `block` shrinks at the end of the context as in the code.

The program does not know which rows are of another text, but the property needs
it: `oddTaps` and `oddRows` are history variables that name the positions a
rewind, an unrelated prompt or a wide prefill chunk has put in doubt (section 6).
They never guard an action.

### ReplyText and ClientTurn

A text is a sequence of pieces. A tag is two or three of them, so a chunk can end
inside a tag; a complete function block (of a known tool, of a known tool in a
namespace, of an unknown one), a line break or a word is one. `ThinkFeed`,
`ThinkFlush`, `CallFeed` and `CallFlush` are the methods of the two splitters,
`SplitFinished` and `ParseCalls` the parsers of a finished reply, `StripNoise`
the removal of wrapper tags and the line breaks after them. What is removed from a
text is said by the set of positions that stay (`Pick`), not by a loop, so that it can
be reasoned about. `Pieces` is the alphabet; two words stand for all words.

`ClientTurn` puts a session around them: `Ask` renders the client's history with
the API's template and declares the prefix; then either `Deliver(n)` feeds chunks
of any size until `FinishStream` flushes and parses, or `AnswerPlain` does it at
once; `Abort` is a failed engine or a broken connection; `Continue` is the client,
which appends the items it received and the tools' outputs or a next question.
`mode` is the API and the switches for thinking, tools and streaming. The engine
may reply anything in `Replies`, also text no well-trained model would produce.
`resident` is the prompt and reply that the process holds, what the next prompt
should extend. The handler's loops are those of `serve.py` 823-903 and 986-1331; the
engine is `ServeProtocol`'s subject.

### ModelBuild

The content of a plane or of an image segment is the number of the checkpoint it was
made from; 0 is missing, of the wrong size, or cut short. `Plan(i)` is the order in
which the packer of image `i` writes its segments, which is what several of the
properties hang on. `pc` is where the builder is: `Start`, the quantizers
(`Q4MakeGroup`, `Q4WritePlanes`, `Q4WriteVectors`, `Q8MakeGroup`, `Q8WritePlanes`,
`QuantizerFatal`, `QuantizerDone`), then per image `Refuse`, `TakeAsIs` or `Create`, `WriteSegment` or
`ShortWrite`, `Finalize` or `PackError`, then `Packed`, `Verify`, `Report`.

Around it, `Kill` stops the process at any step, also within a write (the segment is
cut); `ShortWrite` is the write that meets a full disk: the files are unbuffered and
the count is dropped (io_utils 45), so it is silent and the next one raises. `RunPacker`
is a packer run by hand, `RemovePlanes` an operator who clears the work directory,
and each `Start` may have other arguments, another checkpoint, and a tokenizer or none. A plane
directory that holds nothing may be there or not: a build that is to reuse both directories
looks only at that. `Hard` says which
groups fail the quantization gate.

## 3. Runs

Passing runs; all with the bounds of their cfg.

| run | bounds | shows |
|---|---|---|
| `chat_faults` | 2 ordinary tokens and a stop token, prompts up to 3 tokens including the empty one, context of 4, replies up to 2, prefix minimum 1, steps up to 2 tokens wide, all faults | logits, checkpoints, history, reply form |
| `chat_refinement` | four prompts that share and extend each other, replies up to 3, lattice on, checkpoint faults | refines `ReplyService`; each request finishes |
| `chat_single_turn` | `QWEN38_CONTINUE=0`, prompts up to 2, all faults | no prompt depends on an earlier one, whatever fails |
| `serve_faults` | 3 requests, 2 of them streaming, 2 of them longer than the pipe, replies of up to 3 pieces and an end line, room for 1 short request and for 2 reply lines, all failures | who holds the lock, own reply, complete reply, drained pipes; every waiting request ends unless one fails silently or a long one meets an abandoned reply that fills the pipe back |
| `spec_greedy` | depth 2, context 5, lookup, continuation, failures | layers on the text, losslessness of the fused path |
| `spec_search` | depth 2, beam 2, greedy with replay and sampled with rollback, both searches | logits and roots of the pending token, hidden row, draft rows, losslessness |
| `client_turn` | three requests of a session, both APIs, 8 switch settings; first every reply of up to three phrases and the well-formed ones with and without reasoning, in every chunking; then a word or a call; then a word | no markup shown, stream equals plain reply, nothing held back for ever, prefix free of the session and stable, next prompt extends the last |
| `model_build` | a DeltaNet layer, an attention layer and the global image, 2 checkpoints of which one fails its gate in a layer, four argument vectors, 3 invocations, 2 kills or full disks | what a verified report, an error and a cleanup leave on disk |
| `draft_ring` | five prompts of up to 3 tokens, context of 5, rings of 3 taps and 2 rows, blocks of 2, context chunks of 1 and 2, wide chunks, both checkpoints, all failures | the draft context follows the text and is as long as it can be |

**Why these bounds are enough.** In the chat loop the interesting cases are a prompt
that extends, equals, shares a prefix with, or is a stranger to history, TURN and
SYSTEM tokens. Three positions of two tokens have all of them at once, and a
context of 4 makes budget and step width collide with the capacity. Requests are
unbounded in number: the state graph is exhausted, so any sequence of requests
and failures is covered within these sizes. For the server, three requests are the one
that misbehaves, its victim, and a third waiting on the lock. A short and a streaming
long request, and a reply that is longer than the pipe back even after its first piece was
read, let both sides block on their pipes, separately and at once. For the speculative step, depth 2 is
the least where a rejection leaves both a kept and a lost draft and where the
refresh of the draft rows has more than one row; a context of 5 holds two
steps, so what one hands over the next one uses, and lets the end of the context cut
a chain short. `MCBest` repeats and alternates so that drafts can match and miss at each place.
For the rings, a context of 5 wraps both rings (of 3 and of 2 rows, sizes that differ by one as
2048 and 2047 do), the prompts extend, rewind and replace each other, and a
rebuild takes one or two chunks.
For the session, three phrases out of twelve include every pair of tags with
something between, and a chunk may end at every piece; three requests are the least
where a second follow-up meets a history that already holds a call and its output.
For the build, three invocations are one that leaves something behind, one that
builds on it, and one more with other arguments or after a packer run by hand; two
faults let the second invocation fail as well. One layer of each kind and the global
image have all the segment orders there are.

Symmetry (two ordinary tokens, requests of a kind) is used only in runs without
temporal properties.

`CHECK_DEADLOCK FALSE` is set where the system really stops: all requests are
served (`ServeProtocol`: each is made once), the context is full
(`SpeculativeStep`), the session is over (`ClientTurn`, after `MaxTurns`), or the operator
starts no other build (`ModelBuild`, after `MaxBuilds`). In the chat runs deadlock is checked.

Violations, each a statement of the repository the code does not keep, are the runs
`chat_independence`, `serve_strangers` and `build_verified`; section 6 explains them.

## 4. Fairness and liveness

- `ChatEngine!FairSpec`: weak fairness of `Serve`, the loop body. It is a
  sequential program whose waits are for the GPU; reading the next request owes
  nothing. `RequestsFinish` and the fairness of `ReplyService` follow.
- `ServeProtocol!FairSpec`: weak fairness of each handler's own step
  (`Handle(r)`, a running thread) and of `Process`. Clients need not come or
  leave, the process need not crash and Metal need not fail. The lock is not
  assumed fair: `threading.Lock` promises nothing. `EveryRequestEndsUnlessStuck` holds because
  each request is made once, so a waiter cannot be overtaken for ever. It has two
  exceptions, each the exact state in which nothing moves any more unless the process
  dies. `Silence` is a process that waits for work while somebody waits for the first
  line of its reply; without it TLC finds a failed prefill that leaves every later
  request waiting. `Standoff` is a server that writes a long request while the process
  prints an abandoned reply and neither reads; without it TLC finds a client
  that leaves and a long request behind it (section 6).
- The other modules have no liveness of their own: a step, a handler and a build are
  straight-line code, which may be interrupted anywhere (`Abort`, `Kill`).

## 5. Proofs

All theorems are for every value of the constants that satisfies the named
assumption of the module (`LayerAssumption`, `ChatAssumption`, `ServeAssumption`,
`StepAssumption`, `TurnAssumption`, `RingAssumption`, `BuildAssumption`), which only
give types and non-empty sizes. Eleven theorems have a condition more, stated as their
ASSUME, because the code keeps the property only in some configurations or for some
inputs; the run of the property is one of them, and for the seven where the condition
is about the engine's replies, the client's items or the lines it sends, it is said below
what it leaves out. Each module has an inductive invariant: `Init => Inv`, a lemma
per action, and the properties as consequences.

**ChatEngine_proofs.** `TypeOK /\ Progress /\ LiveState /\ TurnState /\
SystemSlotSelfContained`. The properties speak of the moments when a token is
drawn or a request has ended; in between, the layers hold a prefix of the prompt
that `filled` measures (`Progress`, `LiveState`), and the TURN slot is usable only
where the rows under it survive (`TurnState`), which is an argument about every
branch that resets, overlays or overwrites rows. Theorems: `TypeCorrect`,
`LogitsCorrect`, `TurnRowsCorrect`, `SystemSlotCorrect`, `HistoryCorrect`,
`ReplyCorrect`. All six invariants of `chat_faults` are thus proved. So is
`IndependentPrompts` where the process does not continue (`IndependentWhenSingleTurn`):
only `RestoreTurn` resumes over zeroed rows, and it needs continuation. With it the
property fails (section 6).

`ServiceImplemented` is the safety half of the refinement that `chat_refinement` checks:
the initial states are those of `ReplyService` under the mapping, and each action of
the loop is a step of the service or a stutter. Resuming, prefilling with its SYSTEM
checkpoint, and `DrawPending` stutter: the pending token is not yet part of the reply.
`Reject` is the service's `Refuse`, `Request` its `Ask`. The three actions at the TURN
checkpoint (`SaveTurn`, `SaveTurnFails`, `SkipTurn`) are its `Read`. `PlainToken`,
`EmitPending` and `SpeculativeStep` add one or several tokens to the reply: its `Reply`
or, at the stop token or the limit, its `End`. `Read` and `Reply` need the
invariant above, since only `LogitsOfPrompt` says that the context of what is drawn
next is the one the service names.
Its condition `Sturdy` is that of the run: checkpoints may fail, but no call that writes
the layers does, and no prompt is empty. Otherwise the failure exit is taken, and
with it the divergence of section 6. The lemmas `StandingStep` and `NothingFails` show
that under it the exit is never reached.

**ServeProtocol_proofs.** The two halves of `TypeOK`, `Typed` and `HolderInside` (the lock
is held by the one request inside `generate`), `Untouched`, `Silent`, `Quiet` (pipes drained when
nobody listens), `Starting`, `Exchange` (what is in the pipe back continues
exactly what the listener has heard, and the process will continue that), `Past`.
Since lines carry no name, everything rests on `Exchange`. Theorems:
`ServeTypes`, `OwnReplyHeard`, `ReplyServedCompletely`, `PipesDrained`: all
invariants of `serve_faults`.

**SpeculativeStep_proofs.** One conjunct per phase (`Caller`, `AtRest`,
`Drafted`, `Verified`, `InSearch`, `Settled`) says what recurrent state,
snapshot, attention rows and logits rows were computed from. Nothing is needed about the
draft layer: that is the point of the theorem, drafts are proposals. Theorems:
`LayersCorrect`, `LogitsCorrect`, `LosslessCorrect`, for both repair paths of both
drivers, with and without the fused buffer.

Its second half is the draft side, on top of that invariant. `Typed` is `TypeOK` in
parts, plus the fact that every logits row is of a context that fits.
`RootsCorrect` needs `SearchAfter > 0`: with 0 a search may start from logits of the
previous request. `HiddenInv` says in which row of which buffer the target's hidden is in
each phase, and `DraftInv` which draft rows are right, in particular which of them the
settling still has to write (`refresh`). Both need `RepairReplays`: where a fused step
rolls back without replaying, the refresh has overwritten the hiddens. The
second also needs drafts that are not looked up, since a lookup leaves the pending token's
row unwritten. Theorems: `TypeCorrect`, `RootsCorrect`, `HiddenCorrect`, `DraftRowsCorrect`.

**DraftRing_proofs.** For any ring sizes, blocks and chunks. `TapsFollow`: a tag tells which
position a slot holds, and outside `oddTaps` the tap in it is of the text.
`RowsFollow`, `OddBelow`: a row of the context is of the text, or in `oddRows`, and those
lie below its end. `Covered`: when a step begins, the taps between the end of
the context and the position are there, so that appending never leaves a gap. `Longest`:
the context stops only where a tap is gone. `TurnKept` carries what is needed over a
checkpoint. A capture or an append overwrites no row the window still
shows, because two positions less than a ring apart have different slots
(`SlotsDiffer`); where a chunk is longer than the ring, the last position on a slot wins (`LastOnFacts`).
Theorems: `RingInvariant`, `RingTypes`, `ContextCorrect`, `ContextLongest`.

**ModelBuild_proofs.** All seven properties of `model_build`, for any number of layers,
checkpoints, argument vectors, invocations and faults. Whatever the history of the
output directory, in any image only the last segment can be cut (`OnlyEndsCut`): the
write after a short one raises, and a kill is the end. While a packer writes on a disk
with room, nothing is cut (`WritesIntact`). So the verifier, which compares codes but
not vectors, still vouches for a layer: a compared segment follows the vectors, hence they
are whole. The argument fails for the global image, where the vector comes last, and
that is the finding of section 6. `InHand` says that every image asked for is still to do or
there, and that after the verifier the targets match. `GateInv` carries a failed gate
to the end of its quantizer, `StumpInv` says which image may be incomplete when no fault
has occurred. Theorems: `TypeCorrect`, `FilesCorrect`, `MatchesCorrect`, `LayersCorrect`,
`NoStumps`, `GateCorrect`, and the action properties `WholeKept` and `CleanupSafe`.

**ClientTurn_proofs.** For any sets of replies, any opening and any number of requests,
and therefore for every way of cutting a stream into chunks.

- `TypeOK`, with the fact that a splitter that has found its tag holds nothing back.
- `OpenedInv`. `CallFlow` says what the tool-call splitter has shown of the answer so
  far: all but an opening `<` that it holds, or, after a call was found, the text before
  the call, of which only the last chunk was rid of wrappers (`CallFlowOf`). So when the
  final output has a message, either something was shown, or the flush shows it.
- `MarkupInv` adds `ThinkFlow` and `AnswerFlow` for the splitter before it. While
  reasoning, what was emitted and what is held together contain no `<tool_call>`, and the
  held part is the beginning of a tag; behind it the answer is a text whose tags are
  whole. The step is the hard one: a chunk may end in any tag, and dropping a wrapper
  moves what was before it next to what comes after.
- `SessionInv` is about the session. `Extends`: the history begins with the opening.
  `Accounted`: it is still the opening, or a turn has left traffic, or one was lost. In the
  first case each request declares the same prefix as the one before, in the second the
  system turn, and both are made of the opening's words only (`RenderFacts`). `HistoryGrows`
  and `AnswerItems` are the reasons that every answer leaves the first case.

Theorems: `TurnTypes`, `MessagesOpened`, `NoMarkupShown`, `PrefixesSessionFree`, and the
action property `PrefixesStable`. `NoMarkupShown` needs `WholeTags`: the last piece of a
tool-call tag never stands alone. The last two need `OpeningShape(W)`: the opening has no
assistant or tool items, ends with the user's question, and its other items consist of
words `W` that are not the session's. The first two thousand lines are about the text
operators (`Hits`, `Find`, `Pick`, the wrappers' removal): what they return is determined
by least, greatest and counted positions, for which the library has theorems. `FlattenSeq`
is a recursive function of the community modules; its lemmas (`FlatConcat`, `FlatLeads`)
go by the least position at which a sum of layers could fail.

**ClientReply_proofs.** The same session, what becomes of a reply in it:

- `ShownInv` compares the stream with the plain reply. Two texts are `Alike` when what
  the handlers make of them says the same, line breaks and wrappers aside: the reasoning,
  the text before the first call, and the calls. At every moment of a stream, what was
  shown, what is held back and what is yet to come are together alike to the whole reply
  (`ReasonFlow` while the model reasons, `EndFlow` behind it). A chunk moves text from
  the last part to the first two (`ThinkFed`, `FlowCall`, `FlowStop`, `FlowOn`), and a
  flush at the end empties the second, so nothing is stranded; and what stands before the
  rest is a beginning of what the whole says, so nothing is taken back (`ShownLeads`).
  The reason it holds in spite of the chunks is `InkConcat`: what is visible of two
  unbroken texts is what is visible of each.
- `ExtendInv` follows one reply from the engine into the next request. While it streams,
  the answer is what was delivered of it (`Straight`); a client that has all of it
  holds its text and its calls, as the parser reads them (`Received`); and once the
  client has appended them, what is resident leads its next request (`Returned`). The two
  halves of the round trip are `FormatRead` (the parser takes a text in the template's
  format apart into the text and the calls it was written from, where every call stands at
  a multiple of nine pieces, `RowPlace`) and `ChatPrinted`, `MessagePrinted` and
  `CallsPrinted` (the template prints the items of the reply as the model wrote them).
  `PromptGrows` says that a history that grows by items of another role leaves the turns
  before them as they are.

Theorems: `ShownStaysShown`, `NothingIsStranded`, and the action property
`PlainTurnsAreExtended`. The first two need `UnbrokenTags`: no tag of a reply is broken by
another one or begins in the middle. What this and `WholeTags` leave out is a tag with a
wrapper inside, which really does come together or is cut differently by the stream and by
the parser (section 6), and inner pieces of a tag without its `<`. The third needs
`OpeningShape(W)` and `WellFormedTexts`, which says what the constant `WellFormed` stands
for: a text without line breaks around it and without a wrapper or an opening tag in it,
then any number of calls. `MCClientTurn` assumes all four conditions of its instance, so
TLC evaluates them.

`LayerState_proofs` has the lemmas on contents that the engine, the step and the
rings share.

**Only model-checked.** `RequestsFinish`, `EveryRequestEndsUnlessStuck` and the fairness
of `StatelessService`: liveness and ENABLED are out of the prover's reach. Every other
property of a passing run is stated by a theorem.

## 6. Where the code does not do what it says

Three runs find it (`PROJECT.json`, "findings", quotes the lines):

1. `chat_independence`: the failure exit of the loop (chat.c 817-819) zeroes the
   layers and forgets the history but keeps the TURN checkpoint. A later prompt
   that extends it resumes over zeroed attention rows. An empty prompt is enough: its
   `prompt_count - 1` wraps (770) and the prefill refuses it.
2. `serve_strangers`: `on_delta` raises inside `generate` when a streaming client
   has left; the rest of its reply stays in the pipe and the next request reads it.
3. `build_verified`: `check_global` compares the codes of the embedding and the head
   and never the final norm, which `pack_global` writes last. A run killed in that
   write, or a disk that fills up in it, leaves a global image that `--resume` takes
   and the verifier passes; the report says `verified_target`.

More were seen and have no run of their own. In the engine:

- A failed prefill or prompt forward prints no line. The reader waits with the lock
  held, and with it every other request (`EveryRequestEndsUnlessStuck` without
  `Silence`).
- After a rejection on the default path the next draft starts from a hidden row that
  the fused refresh of the draft rows has overwritten (decode.m 1905, against the
  comment at 2822-2825): `HiddenOfTarget` fails in a `spec_search` with `Replay = {}`.
  The reply is not affected (`Lossless`), the drafts are.
- The DFlash2 context is rebuilt after a rewind only if its end is past the new
  position. A request that resumes from a checkpoint and grows beyond the old end
  takes the append path, and the rows between the checkpoint and the old end stay
  those of the abandoned text, against the comment at decode.m 5109-5111.
  `ContextFollowsText` without its `oddRows` fails so.
- A step whose drafts were looked up never writes the draft row of its pending
  token (decode.m 3019-3021): `DraftRowsFollowText` fails in a `spec_greedy` with
  depth 1 (`MaximumDepth = 1`, `Lookup = TRUE`). Only drafts suffer.
- With `QWEN38_PREFILL_MAX_CHUNK=512` the taps of a wide chunk are read from the
  workspace of the narrow ones (decode.m 2060) and tagged as good. `DraftRing`
  has them as `Garbage` in `oddTaps`.
- After a SYSTEM restore the walk back over the tags may pick up taps of a prompt
  in between (decode.m 5124): tags know positions, not texts.
- With `QWEN38_MTP_VITERBI_MIN_TOKENS=0` (`SearchAfter = 0`) the first step of a
  continued request searches from the roots of the previous request's logits,
  because the valid flag survives the prompt: `RootsOfPending` fails.
- With a request line longer than the pipe and an abandoned reply that fills the pipe
  back, server and process wait for each other. `serve_faults` reaches that state, and
  `EveryRequestEndsUnlessStuck` without `Standoff` fails there.
- A half-allocated checkpoint slot is taken for a whole one by the next save
  (decode.m 3316); allocation failures are not modelled.

Between the handlers and the client; each is an exception some property of
`ClientTurn` states, and without it TLC finds the case:

- A reply that comes to nothing (reasoning cut off by the token budget, or only line
  breaks) leaves no item in a Responses client's history. The next request looks like
  an opening one, and the prefix it declares holds the session's own prompt
  (`LostTurn` in `PrefixSessionFree` and `PrefixStable`, against serve.py 553-555).
- The next prompt does not extend the last one with thinking on; for a Responses
  reply with text and a call, which comes back as two turns; for a streamed chat reply with
  text and a call, whose line breaks double; for a call into a namespace, which is
  rendered without it (`PlainTurnsExtend`). Each costs a full prefill, not a wrong reply.
- A line break after `</think>` that arrives in the next chunk is kept when streaming
  and dropped in the plain reply. `Ink` in the properties leaves line breaks out.
- The end of the reasoning that the splitter held back is sent nowhere in a
  Responses stream (`NothingStranded` claims reasoning for chat only).
- Without tools, a Responses reply loses the text after a literal `<tool_call>`:
  the splitter is always there.
- A `<tool_call>` with an invoke wrapper inside it (`<<invoke>tool_call>`) comes together
  when the wrapper is removed (serve.py 199-203, 282-287). Before a real call, the splitter
  shows it as text. The replies of `client_turn` have whole tags only, and `NoMarkupShown`
  says so (`WholeTags`), as `ShownStaysShown` and `NothingIsStranded` do (`UnbrokenTags`).
- A Responses stream whose message is only line breaks opens a message item that the
  final output does not contain.

In the compiler:

- `dflash2_pack` does not remove its image when it fails; `ErrorsLeaveNoStump` leaves
  it out.
- A packer run by hand on an image that exists deletes it: `create_exclusive` raises
  inside the `try` whose handler unlinks (`RunPacker`; `WholeImagesKept` claims the
  builder only).
- Planes that failed their gate stay in the directory and the next invocation
  reuses them without a word (`FreshPlanesPassedGate` claims fresh planes only).

## 7. Not modelled, and why

- Floating point: kernels, the quantization arithmetic, the sampler (penalty, min-p,
  top-p, the uniform draw). `LayerState`, `Hard` and `Likely` stand for their results.
- Bytes: offsets, headers and alignment inside an image, the tokenizer's merges, UTF-8
  sequences held back by chat.c 330-408. Tokens, pieces and segments are atomic.
- Formats: JSON and HTTP, malformed bodies, GET and OPTIONS, sampling fields, usage
  statistics, the wording of the system turn, parameters of a function block and their
  types.
- The forward in flight (decode.m 2643-2800): the callers submit and wait back to
  back, so no state in between is reached by the program; the refusals exist for callers
  the repository does not have.
- The chunks of a prefill, and the draft rows it writes for the prompt, among them the
  seam row that a continued prefill leaves out (decode.m 4860): `DraftRowsFollowText` starts at the reply.
- A GPU command that fails without anybody looking (`gdn_state_copy`, decode.m 3156)
  and single buffers that cannot be allocated: every fault of the models is one the
  code notices.
- In `SpeculativeStep` a step that fails ends the model's reply (`failed`): what
  the loop does then is `ChatEngine`'s `ReplyFails`.
- The copy of a legacy `--mtp-layer` file, the concurrent use of one output directory
  by two builders, and loss of data the system had acknowledged (nothing is synced before
  the end of a packer).
- Benchmarks, the one-shot generator, the stand-alone layer runtimes and the launch
  script: the first three have no control of their own or a special case of
  `ChatEngine`'s, the script polls with fixed bounds.

## 8. Plan

Done, in the order of what a user would notice:

1. `LayerState`, `ChatEngine`, `ReplyService`: state across requests. Proved.
2. `ServeProtocol`: concurrency and failure around the engine. Proved.
3. `SpeculativeStep`: losslessness. Proved, the draft side too.
4. `DraftRing`: the DFlash2 context. Proved.
5. `ReplyText`, `ClientTurn`: the session around the engine. Proved.
6. `ModelBuild`: what a build leaves on disk. Proved.
7. The step simulation of `ReplyService` by `ChatEngine`, as a theorem. Proved.

Left, in this order:

8. `PrefillChunks`: any chunking writes the same layers and draft rows as one
   pass; the seam row; the command that fails in the middle.
9. `TextStream`: the UTF-8 hold-back of chat.c.
10. `SpecSampling`: penalty, min-p, top-p and the speculative acceptance on small
    integer weights: the accepted distribution is the target's.
