----------------------------- MODULE ReplyText ------------------------------
(***************************************************************************)
(* How qwen38_serve.py takes a reply apart: the two streaming splitters,   *)
(* the parser of a finished reply, and the tool-call parser.               *)
(*                                                                         *)
(* A text is a sequence of pieces.  A tag is several pieces, so that a     *)
(* chunk of the stream can end inside it; every other piece is atomic:     *)
(* "nl" is a line break, "f" a complete <function=..>..</function> block   *)
(* of a known tool, "n" one of a known tool in a namespace, "u" one of an  *)
(* unknown tool, and any other piece is a word.                            *)
(***************************************************************************)
EXTENDS Integers, Sequences, FiniteSetsExt, SequencesExt

CloseThink == <<"<", "/", "think>">>
OpenCall   == <<"<", "tool_call>">>
CloseCall  == <<"<", "/", "tool_call>">>
Invoke     == <<"<", "invoke>">>
EndInvoke  == <<"<", "/", "invoke>">>
Wrappers   == {Invoke, EndInvoke}

Pieces == {"<", "/", "think>", "tool_call>", "invoke>", "nl", "f", "n", "u", "w", "v"}

-----------------------------------------------------------------------------
(* Text primitives.                                                        *)

Hits(s, tag) == {i \in 1 .. Len(s) - Len(tag) + 1 :
                    SubSeq(s, i, i + Len(tag) - 1) = tag}
Find(s, tag) == IF Hits(s, tag) = {} THEN 0 ELSE Min(Hits(s, tag))
Upto(s, i)   == SubSeq(s, 1, i - 1)
From(s, i)   == SubSeq(s, i, Len(s))

Inked(s)  == {i \in DOMAIN s : s[i] # "nl"}
LStrip(s) == IF Inked(s) = {} THEN <<>> ELSE From(s, Min(Inked(s)))
RStrip(s) == IF Inked(s) = {} THEN <<>> ELSE Upto(s, Max(Inked(s)) + 1)
Strip(s)  == LStrip(RStrip(s))

(* The elements of s at the positions in the set `at`, in their order.     *)
Nth(at, k)  == CHOOSE i \in at : Cardinality(at \cap 1 .. i) = k
Pick(s, at) == [k \in 1 .. Cardinality(at) |-> s[Nth(at, k)]]

Inside(s, i, tag) == \E h \in Hits(s, tag) : i \in h .. h + Len(tag) - 1
DropTag(s, tag)   == Pick(s, {i \in DOMAIN s : ~Inside(s, i, tag)})
DropWrappers(s)   == DropTag(DropTag(s, Invoke), EndInvoke)

(* strip_tool_wrapper_noise: the wrappers and the line breaks after them.  *)
Noise(s, i) == \E tag \in Wrappers : \E h \in Hits(s, tag) :
                   /\ i >= h
                   /\ \A j \in h + Len(tag) .. i : s[j] = "nl"
StripNoise(s) == RStrip(Pick(s, {i \in DOMAIN s : ~Noise(s, i)}))

(* Length of the longest end of s that a tag may still complete.           *)
HeldBack(s, tags) ==
    Max({0} \cup {n \in 1 .. Len(s) : \E tag \in tags :
                    n < Len(tag) /\ From(s, Len(s) - n + 1) = SubSeq(tag, 1, n)})

-----------------------------------------------------------------------------
(* ThinkSplitter: [buffer, done]; each call also says what it emits.       *)

NewThink(thinking) == [buffer |-> <<>>, done |-> ~thinking]

ToolFirst(tool, think) == tool > 0 /\ (think = 0 \/ tool < think)

\* A mutation: the text behind the boundary stays in the buffer too.
ThinkFeedKeeping(t, text, tools) ==
    LET all   == t.buffer \o text
        think == Find(all, CloseThink)
        keep  == HeldBack(all, {CloseThink})
    IN IF t.done
       THEN [next |-> t, reason |-> <<>>, rest |-> text]
       ELSE IF think > 0
       THEN [next |-> [buffer |-> From(all, think + Len(CloseThink)), done |-> TRUE],
             reason |-> Upto(all, think),
             rest |-> LStrip(From(all, think + Len(CloseThink)))]
       ELSE [next |-> [t EXCEPT !.buffer = From(all, Len(all) - keep + 1)],
             reason |-> Upto(all, Len(all) - keep + 1), rest |-> <<>>]

ThinkFeed(t, text, tools) ==
    LET all   == t.buffer \o text
        seen  == IF tools THEN DropWrappers(all) ELSE all
        think == Find(seen, CloseThink)
        tool  == IF tools THEN Find(seen, OpenCall) ELSE 0
        keep  == HeldBack(seen, {CloseThink} \cup
                                (IF tools THEN Wrappers \cup {OpenCall} ELSE {}))
        over  == [buffer |-> <<>>, done |-> TRUE]
    IN IF t.done
       THEN [next |-> t, reason |-> <<>>, rest |-> text]
       ELSE IF ToolFirst(tool, think)
       THEN [next |-> over, reason |-> RStrip(Upto(seen, tool)), rest |-> From(seen, tool)]
       ELSE IF think > 0
       THEN [next |-> over, reason |-> Upto(seen, think),
             rest |-> LStrip(From(seen, think + Len(CloseThink)))]
       ELSE [next |-> [t EXCEPT !.buffer = From(seen, Len(seen) - keep + 1)],
             reason |-> Upto(seen, Len(seen) - keep + 1), rest |-> <<>>]

ThinkFlush(t, tools) == IF tools THEN DropWrappers(t.buffer) ELSE t.buffer

(* ToolCallSplitter: [buffer, stopped].                                    *)

NewCalls == [buffer |-> <<>>, stopped |-> FALSE]

\* A mutation: each chunk is searched and shown alone.
CallFeedHasty(c, text) ==
    LET tool == Find(text, OpenCall)
    IN IF c.stopped THEN [next |-> c, visible |-> <<>>]
       ELSE IF tool > 0
       THEN [next |-> [c EXCEPT !.stopped = TRUE], visible |-> StripNoise(Upto(text, tool))]
       ELSE [next |-> c, visible |-> text]

\* A mutation: what is held back is shown already.
CallFeedTwice(c, text) ==
    LET seen == c.buffer \o text
        tool == Find(seen, OpenCall)
        keep == HeldBack(seen, {OpenCall})
    IN IF c.stopped THEN [next |-> c, visible |-> <<>>]
       ELSE IF tool > 0
       THEN [next |-> [buffer |-> <<>>, stopped |-> TRUE],
             visible |-> StripNoise(Upto(seen, tool))]
       ELSE [next |-> [c EXCEPT !.buffer = From(seen, Len(seen) - keep + 1)],
             visible |-> seen]

CallFeed(c, text) ==
    LET seen == c.buffer \o text
        tool == Find(seen, OpenCall)
        keep == HeldBack(seen, {OpenCall})
    IN IF c.stopped THEN [next |-> c, visible |-> <<>>]
       ELSE IF tool > 0
       THEN [next |-> [buffer |-> <<>>, stopped |-> TRUE],
             visible |-> StripNoise(Upto(seen, tool))]
       ELSE [next |-> [c EXCEPT !.buffer = From(seen, Len(seen) - keep + 1)],
             visible |-> Upto(seen, Len(seen) - keep + 1)]

\* A mutation: the tail is stranded.
CallFlushNothing(c) == <<>>

CallFlush(c) == IF c.stopped THEN <<>> ELSE c.buffer

-----------------------------------------------------------------------------
(* A finished reply.                                                       *)

SplitFinished(text, thinking, tools) ==
    LET think == Find(text, CloseThink)
        tool  == IF tools THEN Find(text, OpenCall) ELSE 0
    IN IF ~thinking THEN [reason |-> <<>>, rest |-> text]
       ELSE IF ToolFirst(tool, think)
       THEN [reason |-> StripNoise(Upto(text, tool)), rest |-> From(text, tool)]
       ELSE IF think > 0
       THEN [reason |-> Upto(text, think),
             rest |-> LStrip(From(text, think + Len(CloseThink)))]
       ELSE [reason |-> text, rest |-> <<>>]

(* A complete function block counts from a <tool_call> to the next one, to *)
(* a </tool_call>, or to the end; _resolve_tool drops the unknown ones.    *)
InCall(text, i) ==
    \E o \in Hits(text, OpenCall) :
        /\ o < i
        /\ \A h \in Hits(text, OpenCall) : ~(o < h /\ h < i)
        /\ \A h \in Hits(text, CloseCall) : ~(o < h /\ h < i)

ParseCalls(text, table) ==
    LET tool == Find(text, OpenCall)
    IN [leading |-> Strip(StripNoise(IF tool = 0 THEN text ELSE Upto(text, tool))),
        calls   |-> Pick(text, {i \in DOMAIN text : text[i] \in table /\ InCall(text, i)})]

(* strip_blocks and the content extractors: what a message contributes.    *)
StripBlocks(s) == Strip(Pick(s, {i \in DOMAIN s : s[i] # "plugins"}))

(* One assistant-side <tool_call> in the template's shape.                 *)
CallBlock(f) == OpenCall \o <<"nl", f, "nl">> \o CloseCall
Joined(seqs, sep) == FlattenSeq([i \in DOMAIN seqs |->
                         IF i = 1 THEN seqs[i] ELSE sep \o seqs[i]])

CallBlocks(calls) == Joined([i \in DOMAIN calls |-> CallBlock(calls[i])], <<"nl">>)

=============================================================================
