---------------------------- MODULE MCChatEngine ----------------------------
(***************************************************************************)
(* Instances of ChatEngine for TLC: two ordinary tokens and one stop token *)
(* over a context of a few positions.                                      *)
(***************************************************************************)
EXTENDS ChatEngine, TLC

CONSTANTS a, b, eos, PromptLength

MCToken == {a, b, eos}

\* Prompts over the ordinary tokens, and the empty line.
MCPrompts == UNION {[1 .. n -> {a, b}] : n \in 0 .. PromptLength}

\* Few prompts, chosen for the resume branches: the first two share a prefix
\* worth a checkpoint, the last two extend each other.
MCRelatedPrompts == {<<a, a, b>>, <<a, b, a>>, <<b, a>>, <<b>>}

OrdinaryTokens == Permutations({a, b})
=============================================================================
