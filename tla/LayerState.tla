----------------------------- MODULE LayerState -----------------------------
(***************************************************************************)
(* What the 64 resident layers remember (runtime/qwen38_m3_decode.m).      *)
(*                                                                         *)
(* The 48 DeltaNet layers hold one cumulative state: a function of every   *)
(* token processed so far, which cannot be rewound.  The 16 attention      *)
(* layers hold one row of keys and values per position; row i is the       *)
(* source's position i - 1.  The value of a row depends on every token up  *)
(* to its own position, so both kinds of content are represented by the    *)
(* token sequence they were computed from: two conversations that agree    *)
(* on a token but not on what precedes it have different rows there.       *)
(*                                                                         *)
(* A zeroed buffer is the empty sequence.  Content computed from a state   *)
(* and rows that do not belong together is Garbage, a sequence that no     *)
(* prompt can be, because Bad is not a token.                              *)
(***************************************************************************)
EXTENDS Integers, Sequences

CONSTANTS Token,     \* token ids
          Capacity,  \* positions the caches were opened for
          Bad        \* stands for a value no token sequence produces

ASSUME LayerAssumption ==
    /\ Capacity \in Nat \ {0}
    /\ Bad \notin Token

Rows == 1 .. Capacity
Content == Seq(Token \cup {Bad})
Zeroed == << >>
Garbage == <<Bad>>

FirstTokens(s, n) == SubSeq(s, 1, n)

\* The rows below Len(s) are the keys and values of the sequence s.
Holds(rows, s) ==
    /\ Len(s) <= Capacity
    /\ \A i \in 1 .. Len(s) : rows[i] = FirstTokens(s, i)

\* The recurrent state and the rows below `position` tell the same story.
Coherent(gdn, kv, position) ==
    /\ Len(gdn) = position
    /\ Holds(kv, gdn)

\* The context a batch of tokens is computed in when it is forwarded at
\* `position`: every layer reads the recurrent state it has and the rows
\* below, whatever they contain, and nothing in the code compares them.
Advance(gdn, kv, position, tokens) ==
    IF Coherent(gdn, kv, position) THEN gdn \o tokens ELSE Garbage

RowOf(context, i) ==
    IF i <= Len(context) THEN FirstTokens(context, i) ELSE Garbage

\* The rows the batch writes; all other rows keep what they had.
WriteRows(kv, position, count, context) ==
    [i \in Rows |-> IF i \in (position + 1) .. (position + count)
                    THEN RowOf(context, i) ELSE kv[i]]

\* The first `count` rows of one cache over those of another: saving a
\* mirror of the rows, and putting the mirror back.
OverlayRows(under, count, over) ==
    [i \in Rows |-> IF i <= count THEN over[i] ELSE under[i]]
=============================================================================
