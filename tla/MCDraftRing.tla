---------------------------- MODULE MCDraftRing ----------------------------
(* Instances of DraftRing for TLC. *)
EXTENDS DraftRing

CONSTANTS a, b

\* A short prompt, prompts that extend it in different ways, and a stranger
\* with a declared prefix of its own.
MCPrompts == {<<a>>, <<a, b>>, <<a, a, b>>, <<a, b, b>>, <<b, a, b>>}
=============================================================================
