----------------------------- MODULE ClientTurn -----------------------------
(***************************************************************************)
(* One client session over the HTTP server: the client sends its history,  *)
(* a handler renders it into a prompt, the engine's reply comes in chunks  *)
(* of any size and is split into reasoning, text and tool calls on the     *)
(* way out, and the client appends what it received and asks again.        *)
(*                                                                         *)
(* Both APIs are modelled, with thinking, tools and streaming on or off.   *)
(* What the engine generates is free (Replies); that it serves one request *)
(* at a time is the subject of ServeProtocol.                              *)
(***************************************************************************)
EXTENDS ReplyText

CONSTANTS Replies,      \* Replies[n]: the texts the engine may generate in turn n
          WellFormed,   \* WellFormed[thinking]: replies in the template's own format
          Opening,      \* Opening[api]: the items a session starts with
          MaxTurns      \* bound: requests of one session

ASSUME TurnAssumption ==
    /\ MaxTurns \in Nat /\ DOMAIN Replies = 1 .. MaxTurns
    /\ \A n \in 1 .. MaxTurns : Replies[n] \subseteq Seq(Pieces)
    /\ DOMAIN Opening = {"chat", "responses"}

VARIABLES
    mode,      \* the request's API and switches, fixed for the session
    history,   \* the items the client holds
    phase,     \* "client", "engine" or "answered"
    turn,
    prompt,    \* what the handler rendered
    prefix,    \* the leading span it declares to the engine
    resident,  \* prompt and reply of the last completed turn
    text, sent,        \* the reply, and how much of it was delivered
    think, splitter,   \* ThinkSplitter and ToolCallSplitter
    answer,    \* everything behind the reasoning, as the parser gets it
    got        \* what the client has received in this turn

session == <<mode, history, turn, prompt, prefix, resident>>
vars    == <<session, phase, text, sent, think, splitter, answer, got>>

Modes == [api : {"chat", "responses"}, thinking : BOOLEAN, tools : BOOLEAN,
          stream : BOOLEAN]
Chat  == mode.api = "chat"

Item(role, body)    == [role |-> role, text |-> body, reason |-> <<>>, calls |-> <<>>]
Nothing             == [content |-> <<>>, reason |-> <<>>, calls |-> <<>>, opened |-> FALSE]

-----------------------------------------------------------------------------
(* The templates.  "system", "user" and "assistant" open a turn, "end" is  *)
(* <|im_end|>.                                                             *)

ThinkOpen  == <<"assistant", "<think>", "nl">>
EmptyThink == ThinkOpen \o <<"nl">> \o CloseThink \o <<"nl", "nl">>
Generation == IF mode.thinking THEN ThinkOpen ELSE EmptyThink

SystemTurn(extra) ==
    LET head == (IF mode.thinking THEN << <<"effort">> >> ELSE <<>>)
                \o (IF mode.tools THEN << <<"tools">> >> ELSE <<>>)
                \o Pick(extra, {i \in DOMAIN extra : extra[i] # <<>>})
    IN IF head = <<>> THEN <<>>
       ELSE << <<"system">> \o Joined(head, <<"nl", "nl">>) \o <<"end">> >>

(* Neighbouring items of one of these roles share a turn.                  *)
Opens(h, i)  == i = 1 \/ h[i - 1].role # h[i].role
Closes(h, i) == i = Len(h) \/ h[i + 1].role # h[i].role
Only(b, s)   == IF b THEN s ELSE <<>>

UserTurn(body) == <<"user">> \o StripBlocks(body) \o <<"end">>

ToolTurn(h, i) == Only(Opens(h, i), <<"user">>)
                  \o <<"nl", "response", "nl">> \o h[i].text \o <<"nl", "/response">>
                  \o Only(Closes(h, i), <<"end">>)

\* A mutation: the empty line stands before the calls without a text, too.
ChatAssistantSpaced(m) ==
    ThinkOpen \o m.reason \o <<"nl">> \o CloseThink \o <<"nl", "nl">> \o m.text
    \o Only(m.calls # <<>>, <<"nl", "nl">> \o CallBlocks(m.calls)) \o <<"end">>

(* An assistant turn of render_template: reasoning, content, calls.        *)
ChatAssistant(m) ==
    ThinkOpen \o m.reason \o <<"nl">> \o CloseThink \o <<"nl", "nl">> \o m.text
    \o Only(m.calls # <<>>, Only(Strip(m.text) # <<>>, <<"nl", "nl">>) \o CallBlocks(m.calls))
    \o <<"end">>

(* Responses items: a message and a run of calls are a turn each.  A call  *)
(* item has its namespace in a field of its own, which is not rendered.    *)
Bare(f)           == IF f = "n" THEN "f" ELSE f
ItemAssistant(m)  == EmptyThink \o m.text \o <<"end">>
CallItem(h, i)    == (IF Opens(h, i) THEN EmptyThink ELSE <<"nl">>)
                     \o CallBlock(Bare(h[i].text[1])) \o Only(Closes(h, i), <<"end">>)

Turn(h, i) == CASE h[i].role = "tool"      -> ToolTurn(h, i)
                [] h[i].role = "call"      -> CallItem(h, i)
                [] h[i].role = "assistant" -> IF Chat THEN ChatAssistant(h[i])
                                                      ELSE ItemAssistant(h[i])
                [] OTHER -> UserTurn(h[i].text)
Turns(h) == [i \in DOMAIN h |-> Turn(h, i)]

(* render_template: a leading system message joins the system turn, which  *)
(* is the declared prefix.                                                 *)
RenderChat(h) ==
    LET own  == h # <<>> /\ h[1].role = "system"
        head == SystemTurn(IF own THEN << StripBlocks(h[1].text) >> ELSE <<>>)
        rest == IF own THEN Tail(h) ELSE h
    IN [prompt |-> FlattenSeq(head \o Turns(rest) \o <<Generation>>),
        prefix |-> FlattenSeq(head)]

\* A mutation: the outputs of tools do not count.
OpeningSoFar(items) == \A i \in DOMAIN items : items[i].role # "assistant"

(* No assistant or tool traffic yet.                                       *)
IsOpening(items) ==
    \A i \in DOMAIN items : items[i].role \notin {"call", "tool", "assistant"}

\* A mutation: the user's own prompt is taken for preamble.
DeclaredWithPrompt(head, parts, opening) ==
    IF opening /\ Len(parts) > 2 THEN SubSeq(parts, 1, Len(parts) - 1) ELSE head

(* All but the last turn and the generation prompt, or the system turn.    *)
Declared(head, parts, opening) ==
    IF opening /\ Len(parts) > 2 THEN SubSeq(parts, 1, Len(parts) - 2) ELSE head

(* render_responses_template: leading developer messages join the system   *)
(* turn; on an opening request the preamble joins the declared prefix.     *)
RenderResponses(h) ==
    LET n       == Cardinality({i \in DOMAIN h :
                                  \A j \in 1 .. i : h[j].role = "developer"})
        head    == SystemTurn([i \in 1 .. n |-> StripBlocks(h[i].text)])
        items   == From(h, n + 1)
        parts   == head \o Turns(items) \o <<Generation>>
    IN [prompt |-> FlattenSeq(parts),
        prefix |-> FlattenSeq(Declared(head, parts, IsOpening(items)))]

Render(h) == IF Chat THEN RenderChat(h) ELSE RenderResponses(h)

-----------------------------------------------------------------------------

Init == /\ mode \in Modes
        /\ history = Opening[mode.api]
        /\ phase = "client" /\ turn = 0
        /\ prompt = <<>> /\ prefix = <<>> /\ resident = <<>>
        /\ text = <<>> /\ sent = 0
        /\ think = NewThink(FALSE) /\ splitter = NewCalls
        /\ answer = <<>> /\ got = Nothing

(* do_POST and handle_responses up to the call of the reply handler.       *)
Ask == /\ phase = "client" /\ turn < MaxTurns
       /\ turn' = turn + 1
       /\ prompt' = Render(history).prompt
       /\ prefix' = Render(history).prefix
       /\ text' \in Replies[turn + 1] /\ sent' = 0
       /\ think' = NewThink(mode.thinking) /\ splitter' = NewCalls
       /\ answer' = <<>> /\ got' = Nothing
       /\ phase' = "engine"
       /\ UNCHANGED <<mode, history, resident>>

(* chat_tool_table and flatten_tools: only Responses has namespaces.       *)
Table == {f \in {"f", "n"} : mode.tools /\ (Chat => f = "f")}

(* The chat handler builds a ToolCallSplitter when it has a tool table,    *)
(* the Responses handler always.                                           *)
Splitting == mode.tools \/ ~Chat
Shown(content) == IF Splitting THEN CallFeed(splitter, content)
                  ELSE [next |-> splitter, visible |-> content]

(* deliver(): one chunk of the stream.                                     *)
Deliver(n) ==
    /\ phase = "engine" /\ mode.stream /\ sent + n <= Len(text)
    /\ sent' = sent + n
    /\ LET fed  == ThinkFeed(think, SubSeq(text, sent + 1, sent + n), mode.tools)
           show == Shown(fed.rest)
       IN /\ think' = fed.next
          /\ answer' = answer \o fed.rest
          /\ splitter' = IF fed.rest = <<>> THEN splitter ELSE show.next
          /\ got' = [got EXCEPT
                !.reason = @ \o fed.reason,
                !.content = IF fed.rest = <<>> THEN @ ELSE @ \o show.visible,
                !.opened = @ \/ (~Chat /\ fed.rest # <<>> /\ show.visible # <<>>)]
    /\ UNCHANGED <<session, phase, text>>

\* A mutation: a message that was held back to its end is never opened.
LeftoverSilent(left) == FALSE

LeftoverOpens(left) == ~Chat /\ left # <<>>

(* The end of a stream: both splitters are flushed, the answer is parsed.  *)
(* The Responses handler sends reasoning held back to the end nowhere.     *)
FinishStream ==
    /\ phase = "engine" /\ mode.stream /\ sent = Len(text)
    /\ LET tail == ThinkFlush(think, mode.tools)
           left == IF Splitting THEN CallFlush(splitter) ELSE <<>>
       IN /\ think' = [think EXCEPT !.buffer = <<>>]
          /\ splitter' = [splitter EXCEPT !.buffer = <<>>]
          /\ got' = [got EXCEPT !.reason = IF Chat THEN @ \o tail ELSE @,
                                !.content = @ \o left,
                                !.opened = @ \/ LeftoverOpens(left),
                                !.calls = ParseCalls(answer, Table).calls]
    /\ phase' = "answered"
    /\ resident' = prompt \o text
    /\ UNCHANGED <<mode, history, turn, prompt, prefix, text, sent, answer>>

(* What the plain handlers answer.                                         *)
PlainReply ==
    LET split  == SplitFinished(text, mode.thinking, mode.tools)
        parsed == ParseCalls(split.rest, Table)
    IN [content |-> IF Chat /\ parsed.calls = <<>> THEN split.rest ELSE parsed.leading,
        reason  |-> split.reason, calls |-> parsed.calls, opened |-> FALSE]

AnswerPlain ==
    /\ phase = "engine" /\ ~mode.stream
    /\ got' = PlainReply
    /\ answer' = SplitFinished(text, mode.thinking, mode.tools).rest
    /\ sent' = Len(text)
    /\ phase' = "answered"
    /\ resident' = prompt \o text
    /\ UNCHANGED <<mode, history, turn, prompt, prefix, text, think, splitter>>

(* The engine fails or the connection breaks: a plain request gets a 500,  *)
(* a stream just ends, and the client may ask the same again.              *)
Abort == /\ phase = "engine"
         /\ phase' = "client" /\ resident' = <<>>
         /\ UNCHANGED <<mode, history, turn, prompt, prefix, text, sent, think,
                        splitter, answer, got>>

(* The client appends the reply, and the tools' outputs or its next        *)
(* question.  A Responses client takes the output items, which             *)
(* responses_output made from the whole answer.                            *)
Items ==
    LET leading == ParseCalls(answer, Table).leading
        calls   == [i \in DOMAIN got.calls |-> Item("call", <<got.calls[i]>>)]
    IN IF Chat
       THEN << [Item("assistant", got.content) EXCEPT !.reason = got.reason,
                                                      !.calls = got.calls] >>
       ELSE Only(leading # <<>>, << Item("assistant", leading) >>) \o calls

Continue ==
    /\ phase = "answered"
    /\ history' = history \o Items \o
          (IF got.calls = <<>> THEN << Item("user", <<"ask">>) >>
           ELSE [i \in DOMAIN got.calls |-> Item("tool", <<"result">>)])
    /\ phase' = "client"
    /\ UNCHANGED <<mode, turn, prompt, prefix, resident, text, sent, think, splitter,
                   answer, got>>

Next == \/ Ask \/ FinishStream \/ AnswerPlain \/ Abort \/ Continue
        \/ \E n \in 1 .. Len(text) : Deliver(n)

Spec == Init /\ [][Next]_vars

-----------------------------------------------------------------------------
(* What the theorems ask of the engine's replies and the client's opening. *)

\* Each tool-call tag of a reply is whole: its last piece never stands alone.
Whole(s)  == \A i \in 1 .. Len(s) : s[i] = "tool_call>" => i > 1 /\ s[i - 1] \in {"<", "/"}
WholeTags == \A n \in 1 .. MaxTurns : \A r \in Replies[n] : Whole(r)

\* No tag of a reply is broken by another one or begins in the middle: with
\* a wrapper inside a tag the two ways to take the wrapper out differ.
Inner        == {"/", "think>", "tool_call>", "invoke>"}
Unbroken(s)  == \A i \in 1 .. Len(s) : s[i] \in Inner =>
                    i > 1 /\ s[i - 1] \in IF s[i] = "/" THEN {"<"} ELSE {"<", "/"}
UnbrokenTags == \A n \in 1 .. MaxTurns : \A r \in Replies[n] : Unbroken(r)

\* A reply in the template's own format is a text, some calls, or both with an
\* empty line between.  The text has no line breaks around it and no tag of a
\* call in it.
Formatted(c, calls) ==
    c \o Only(calls # <<>>, Only(c # <<>>, <<"nl", "nl">>) \o CallBlocks(calls))
Clean(c)    == Strip(c) = c /\ \A tag \in Wrappers \cup {OpenCall} : Find(c, tag) = 0
InFormat(s) == \E i \in 1 .. Len(s) + 1, n \in 0 .. Len(s) :
                   \E calls \in [1 .. n -> {"f", "n"}] :
                       Clean(Upto(s, i)) /\ s = Formatted(Upto(s, i), calls)
WellFormedTexts == \A s \in WellFormed[FALSE] : s # <<>> /\ InFormat(s)

\* The words of a prompt.  W is what the client's opening items say.
Frame     == {"system", "user", "end", "nl", "effort", "tools"}
Quiet(W)  == W \cup Frame
Spoken(W) == W \cup Frame \cup Pieces
             \cup {"assistant", "<think>", "response", "/response", "ask", "result"}

Roles       == {"system", "developer", "user", "assistant", "tool", "call"}
Messages(W) == {m \in [role : Roles, text : Seq(Spoken(W)), reason : Seq(Spoken(W)),
                       calls : Seq({"f", "n"})] : m.role = "call" => m.text # <<>>}

\* A session opens with items that are not yet traffic, and ends them with
\* the user's question; only that is the session's own.
OpeningShape(W) ==
    /\ W \cap {"ask", "assistant", "response"} = {}
    /\ \A api \in {"chat", "responses"} :
          LET o == Opening[api]
          IN  /\ \A i \in 1 .. Len(o) : o[i].role \in {"system", "developer", "user"}
              /\ o \in Seq(Messages(W)) /\ o # <<>>
              /\ o[Len(o)] = Item("user", <<"ask">>)
              /\ \A i \in 1 .. Len(o) - 1 : o[i].text \in Seq(W)

-----------------------------------------------------------------------------
(* Properties.                                                             *)

TypeOK ==
    /\ mode \in Modes /\ phase \in {"client", "engine", "answered"}
    /\ turn \in 0 .. MaxTurns /\ sent \in 0 .. Len(text)
    /\ text \in Seq(Pieces) /\ answer \in Seq(Pieces)
    /\ think \in [buffer : Seq(Pieces), done : BOOLEAN]
    /\ splitter \in [buffer : Seq(Pieces), stopped : BOOLEAN]
    /\ got \in [content : Seq(Pieces), reason : Seq(Pieces), calls : Seq({"f", "n"}),
                opened : BOOLEAN]
    /\ think.done => think.buffer = <<>>
    /\ splitter.stopped => splitter.buffer = <<>>

(* "A tool call must not reach the client as assistant text": in no chunk  *)
(* boundary does a <tool_call> get through the splitters, as text or as    *)
(* reasoning.                                                              *)
NoToolMarkup ==
    mode.stream => /\ Splitting => Find(got.content, OpenCall) = 0
                   /\ mode.tools => Find(got.reason, OpenCall) = 0

(* Line breaks and invoke wrappers may differ between the two ways to get  *)
(* a reply; nothing else may.                                              *)
Ink(s)      == Pick(s, {i \in Inked(s) : \A tag \in Wrappers : ~Inside(s, i, tag)})
Settled(s)  == Upto(s, Len(s) - HeldBack(s, Wrappers) + 1)
BeforeCall(s) == IF Splitting /\ Find(s, OpenCall) > 0 THEN Upto(s, Find(s, OpenCall)) ELSE s

(* What a stream has shown is never taken back: it is the beginning of     *)
(* what the finished reply says, however the reply was cut into chunks.    *)
ShownIsFinal ==
    mode.stream /\ phase = "engine" =>
        /\ IsPrefix(Ink(Settled(got.content)), Ink(BeforeCall(PlainReply.content)))
        /\ IsPrefix(Ink(Settled(got.reason)), Ink(PlainReply.reason))

(* A finished stream has shown everything a plain reply would have, and    *)
(* the same calls: no splitter strands a tail ("truncated output / the     *)
(* conversation appears to stall").  Responses reasoning is the exception. *)
NothingStranded ==
    mode.stream /\ phase = "answered" =>
        /\ Ink(got.content) = Ink(BeforeCall(PlainReply.content))
        /\ got.calls = PlainReply.calls
        /\ Chat => Ink(got.reason) = Ink(PlainReply.reason)

(* The final output of a Responses stream holds a message only when its    *)
(* item was opened in the stream.                                          *)
MessageWasOpened ==
    mode.stream /\ ~Chat /\ phase = "answered"
    /\ ParseCalls(answer, Table).leading # <<>> => got.opened

(* A reply that came to nothing (reasoning cut off by the token budget, or *)
(* only line breaks) leaves a Responses client's history without a trace   *)
(* of the turn, and its next request looks like an opening one again.      *)
LostTurn(h) == \E i \in 2 .. Len(h) : h[i - 1].text = <<"ask">> /\ h[i].text = <<"ask">>

(* The declared prefix leads the prompt and carries nothing of the session *)
(* itself: "the conversation in flight belongs to the turn checkpoint".    *)
PrefixSessionFree ==
    phase = "engine" /\ ~LostTurn(history) =>
        /\ IsPrefix(prefix, prompt)
        /\ {"ask", "assistant", "response"} \cap ToSet(prefix) = {}

(* Later requests of a session declare the same prefix or its beginning,   *)
(* so they find the checkpoint the first one wrote.                        *)
PrefixStable == [][turn >= 1 /\ ~LostTurn(history) => IsPrefix(prefix', prefix)]_vars

(* "Each follow-up request an exact token extension of the resident        *)
(* conversation state": it holds without thinking, for a reply in the      *)
(* template's own format, with two exceptions.  Text before calls comes    *)
(* back as the template prints it to a plain chat client only, and a call  *)
(* into a namespace comes back without it.                                 *)
CallAt == Find(text, OpenCall)
PlainTurnsExtend ==
    [][/\ phase = "client" /\ phase' = "engine" /\ resident # <<>>
       /\ ~mode.thinking /\ text \in WellFormed[FALSE]
       /\ CallAt > 0 => mode.tools /\ ToSet(text) \cap {"f", "n"} \subseteq Table \ {"n"}
       /\ CallAt > 1 => Chat /\ ~mode.stream
       => IsPrefix(resident, prompt')]_vars

=============================================================================
