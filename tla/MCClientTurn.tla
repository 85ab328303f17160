---------------------------- MODULE MCClientTurn ----------------------------
(***************************************************************************)
(* First every reply of up to MaxPhrases phrases and the well-formed ones, *)
(* cut into chunks at every piece; then a word or a call; then a word.     *)
(***************************************************************************)
EXTENDS ClientTurn

CONSTANT MaxPhrases    \* bound: phrases of a free reply

Phrases == {<<"w">>, <<"v">>, <<"nl">>, <<"<">>, <<"f">>, <<"n">>, <<"u">>,
            CloseThink, OpenCall, CloseCall, Invoke, EndInvoke}

FreeReplies == {FlattenSeq(s) : s \in UNION {[1 .. n -> Phrases] : n \in 1 .. MaxPhrases}}

Call    == CallBlock("f")
Answers == {<<"w">>, <<"w", "nl", "v">>, Call, CallBlock("n"), Call \o <<"nl">> \o Call,
            <<"w", "nl", "nl">> \o Call}
Thought == <<"v", "nl">> \o CloseThink \o <<"nl", "nl">>

MCWellFormed == [t \in BOOLEAN |-> IF t THEN {Thought \o a : a \in Answers} ELSE Answers]
MCReplies    == <<FreeReplies \cup MCWellFormed[TRUE] \cup MCWellFormed[FALSE],
                  {<<"w">>, Call}, {<<"w">>}>>

MCOpening ==
    [chat      |-> <<Item("system", <<"plugins", "rules">>), Item("user", <<"ask">>)>>,
     responses |-> <<Item("developer", <<"rules">>), Item("user", <<"preamble">>),
                     Item("user", <<"ask">>)>>]

(* The theorems' hypotheses hold of these replies and openings.            *)
ASSUME MCShapes == /\ WholeTags /\ UnbrokenTags /\ WellFormedTexts
                   /\ OpeningShape({"plugins", "rules", "preamble"})
=============================================================================
