-------------------------- MODULE MCSpeculativeStep --------------------------
(* Instances of SpeculativeStep for TLC. *)
EXTENDS SpeculativeStep

CONSTANTS a, b

\* A target that sometimes repeats and sometimes alternates, and that leaves
\* the sampled request a choice after every token a.
MCBest(c) == IF c # << >> /\ c[Len(c)] = a THEN b
             ELSE IF Len(c) \in {3, 4} THEN b ELSE a
MCLikely(c) == IF c # << >> /\ c[Len(c)] = a THEN {a, b} ELSE {MCBest(c)}
MCPrompts == {<<a>>, <<b>>}
=============================================================================
