------------------------ MODULE SpeculativeStep_proofs ------------------------
(***************************************************************************)
(* Speculation is invisible to the target, for every target model, depth,  *)
(* beam, capacity and repair path: between steps the layers hold exactly   *)
(* the tokens handed out, the exposed logits are those the pending token   *)
(* came from, and the reply is one the target itself might have given.     *)
(*                                                                         *)
(* The invariant says, phase by phase, what the recurrent state, the       *)
(* snapshot, the attention rows and the rows of logits were computed from. *)
(* The draft layer is not part of it: nothing of that reaches the target.  *)
(*                                                                         *)
(* The second half is the draft side: the types of all variables, the      *)
(* roots of a lattice and, where the repair path allows it, the hidden row *)
(* the next draft starts from and the rows of the draft layer.             *)
(*                                                                         *)
(* The last two are not promised by every configuration.  The fused greedy *)
(* step refreshes the draft rows before it knows what it accepts, in the   *)
(* workspace that holds the target's hiddens; after a rejection they are   *)
(* gone unless the accepted prefix is forwarded again (RepairReplays).  A  *)
(* chain that was looked up never writes its first draft row (~ Lookup).   *)
(***************************************************************************)
EXTENDS SpeculativeStep, LayerState_proofs

Working == phase \notin {"idle", "failed"}
Searching == phase = "search"

\* A run of tokens the next batch has room for.
Batch(tokens) ==
    /\ tokens \in Seq(Token)
    /\ Len(tokens) \in 1 .. MaximumDepth + 1
    /\ position + Len(tokens) <= Capacity

\* What a reply is promised to be: a greedy one that never searches is the
\* target's own, a sampled one is drawn from the target.
Promised == driver = "greedy" => ~ Search

\* From `from` on, s is what the target itself might have said.
Follows(from, s) ==
    \A i \in from .. Len(s) : s[i] \in Choices(driver, FirstTokens(s, i - 1))

\* t is what the target might have said after the text.
Drawn(t) ==
    \A i \in 1 .. Len(t) :
        t[i] \in Choices(driver, text \o FirstTokens(t, i - 1))

Caller ==
    Working =>
        /\ driver \in {"greedy", "sampled"}
        /\ text \in Seq(Token)
        /\ position = Len(text)
        /\ position <= Capacity
        /\ start \in 0 .. position
        /\ pending \in Choices(driver, text)
        /\ Promised => Follows(start + 1, text)

AtRest ==
    phase = "ready" =>
        /\ gdn = text
        /\ Holds(kv, text)
        /\ position > start => logitsValid /\ logitRows[logitRow] = text

Drafted ==
    phase = "drafted" =>
        /\ gdn = text
        /\ Holds(kv, text)
        /\ Batch(chain)
        /\ Len(chain) > 1
        /\ chain[1] = pending

Verified ==
    phase = "verified" =>
        /\ snapshot = text
        /\ gdn = text \o chain
        /\ Holds(kv, text \o chain)
        /\ Batch(chain)
        /\ Len(chain) > 1
        /\ chain[1] = pending
        /\ \A i \in 0 .. Len(chain) - 1 :
               logitRows[i] = text \o FirstTokens(chain, i + 1)

InSearch ==
    Searching =>
        /\ Search
        /\ snapshot = text
        /\ Holds(kv, text)
        /\ roots # {} /\ chain = << >> => gdn = text
        /\ roots # {} => beam = {}
        /\ chain # << >> => Batch(chain)
        /\ \A node \in beam : Batch(node)
        /\ \A m, n \in beam : Len(m) = Len(n)
        /\ driver = "sampled" => /\ chain = << >> /\ roots = {}
                                 /\ \A node \in beam : Drawn(node)

Settled ==
    phase = "settled" =>
        /\ Batch(emitted)
        /\ gdn = text \o emitted
        /\ Holds(kv, text \o emitted)
        /\ logitRows[Len(emitted) - 1] = text \o emitted
        /\ next \in Choices(driver, text \o emitted)
        /\ Promised => Follows(start + 1, text \o emitted)

Inv ==
    /\ kv \in [Rows -> Content]
    /\ Caller
    /\ AtRest
    /\ Drafted
    /\ Verified
    /\ InSearch
    /\ Settled

USE DEF callerVars, layerVars, hiddenVars, logitVars, resultVars, searchVars

-----------------------------------------------------------------------------
(* Sequences and the target.                                               *)

LEMMA Sizes ==
    /\ Capacity \in Nat \ {0}
    /\ MaximumDepth \in Nat \ {0}
    /\ \A s \in Seq(Token) : Len(s) \in Nat
<1>1. \A s \in Seq(Token) : Len(s) \in Nat
    BY LenProperties
<1> QED
    BY <1>1, LayerAssumption, StepAssumption

\* A sequence of tokens that fits the context is one the target can read.
LEMMA TargetReads ==
    ASSUME NEW s \in Seq(Token), Len(s) <= Capacity
    PROVE  /\ Best(s) \in Token
           /\ Likely(s) \subseteq Token
           /\ \A kind : Choices(kind, s) \subseteq Token
<1>1. Len(s) \in Nat /\ Capacity \in Nat
    BY Sizes
<1>2. s \in [1 .. Len(s) -> Token \cup {Bad}]
    BY SeqMonotonic, LenProperties
<1>3. s \in Contexts
    BY <1>1, <1>2 DEF Contexts
<1>4. Best(s) \in Likely(s) /\ Likely(s) \subseteq Token
    BY <1>3, StepAssumption
<1> QED
    BY <1>4 DEF Choices

\* The row of a batch's last token is the whole of it.
LEMMA LastRow ==
    ASSUME NEW tokens \in Seq(Token)
    PROVE  FirstTokens(tokens, Len(tokens)) = tokens
BY SubSeqFull DEF FirstTokens

\* A prefix that ends inside the second of two joined sequences.
LEMMA FirstOverConcat ==
    ASSUME NEW s \in Seq(Token), NEW t \in Seq(Token), NEW n \in 0 .. Len(t)
    PROVE  FirstTokens(s \o t, Len(s) + n) = s \o FirstTokens(t, n)
<1> DEFINE left == FirstTokens(s \o t, Len(s) + n)
           right == s \o FirstTokens(t, n)
<1>1. Len(s) \in Nat /\ Len(t) \in Nat
    BY Sizes
<1>2. /\ s \o t \in Seq(Token)
      /\ Len(s \o t) = Len(s) + Len(t)
      /\ \A i \in 1 .. Len(s) + Len(t) :
             (s \o t)[i] = IF i <= Len(s) THEN s[i] ELSE t[i - Len(s)]
    BY ConcatProperties
<1>3. /\ left \in Seq(Token)
      /\ Len(left) = Len(s) + n
      /\ \A i \in 1 .. Len(s) + n : left[i] = (s \o t)[i]
    <2>1. Len(s) + n \in 0 .. Len(s \o t)
        BY <1>1, <1>2
    <2> QED
        BY <1>2, <2>1, FirstTokensFacts
<1>4. /\ FirstTokens(t, n) \in Seq(Token)
      /\ Len(FirstTokens(t, n)) = n
      /\ \A i \in 1 .. n : FirstTokens(t, n)[i] = t[i]
    BY FirstTokensFacts
<1>5. /\ right \in Seq(Token)
      /\ Len(right) = Len(s) + n
      /\ \A i \in 1 .. Len(s) + n :
             right[i] = IF i <= Len(s) THEN s[i]
                        ELSE FirstTokens(t, n)[i - Len(s)]
    BY <1>4, ConcatProperties
<1> HIDE DEF left, right
<1>6. ASSUME NEW i \in 1 .. Len(s) + n
      PROVE  left[i] = right[i]
    <2>1. i \in 1 .. Len(s) + Len(t) /\ i \in Nat
        BY <1>1
    <2>2. CASE i <= Len(s)
        BY <1>2, <1>3, <1>5, <2>1, <2>2
    <2>3. CASE ~ (i <= Len(s))
        <3>1. i - Len(s) \in 1 .. n
            BY <1>1, <2>1, <2>3
        <3>2. FirstTokens(t, n)[i - Len(s)] = t[i - Len(s)]
            BY <1>4, <3>1
        <3> QED
            BY <1>2, <1>3, <1>5, <2>1, <2>3, <3>2
    <2> QED
        BY <2>2, <2>3
<1>7. left = right
    BY <1>1, <1>3, <1>5, <1>6, SeqEqual
<1> QED
    BY <1>7 DEF left, right

\* A text that follows the target goes on doing so with what was drawn.
LEMMA DrawnFollows ==
    ASSUME text \in Seq(Token), NEW t \in Seq(Token), NEW from \in Nat \ {0},
           Follows(from, text), Drawn(t)
    PROVE  Follows(from, text \o t)
<1>1. Len(text) \in Nat /\ Len(t) \in Nat
    BY Sizes
<1>2. /\ Len(text \o t) = Len(text) + Len(t)
      /\ \A i \in 1 .. Len(text) + Len(t) :
             (text \o t)[i] = IF i <= Len(text) THEN text[i] ELSE t[i - Len(text)]
    BY ConcatProperties
<1> SUFFICES ASSUME NEW i \in from .. Len(text) + Len(t)
             PROVE  (text \o t)[i] \in Choices(driver, FirstTokens(text \o t, i - 1))
    BY <1>2 DEF Follows
<1>3. i \in 1 .. Len(text) + Len(t)
    BY <1>1
<1>4. CASE i <= Len(text)
    <2>1. i \in from .. Len(text) /\ i - 1 \in 0 .. Len(text)
        BY <1>1, <1>3, <1>4
    <2>2. FirstTokens(text \o t, i - 1) = FirstTokens(text, i - 1)
        BY <2>1, FirstOfConcat
    <2> QED
        BY <1>2, <1>3, <1>4, <2>1, <2>2 DEF Follows
<1>5. CASE i > Len(text)
    <2> DEFINE k == i - Len(text)
    <2>1. k \in 1 .. Len(t) /\ k - 1 \in 0 .. Len(t) /\ i - 1 = Len(text) + (k - 1)
        BY <1>1, <1>3, <1>5
    <2>2. FirstTokens(text \o t, i - 1) = text \o FirstTokens(t, k - 1)
        BY <2>1, FirstOverConcat
    <2>3. (text \o t)[i] = t[k]
        BY <1>1, <1>2, <1>3, <1>5
    <2> QED
        BY <2>1, <2>2, <2>3 DEF Drawn
<1> QED
    BY <1>1, <1>3, <1>4, <1>5

\* One more token of the target's choice.
LEMMA DrawnAppend ==
    ASSUME text \in Seq(Token), NEW t \in Seq(Token), Drawn(t),
           NEW x \in Token, x \in Choices(driver, text \o t)
    PROVE  Drawn(Append(t, x))
<1> DEFINE u == Append(t, x)
<1>1. /\ u \in Seq(Token) /\ Len(u) = Len(t) + 1 /\ Len(t) \in Nat
      /\ \A i \in 1 .. Len(t) : u[i] = t[i]
      /\ u[Len(t) + 1] = x
    BY Sizes, AppendProperties
<1> DEFINE one == <<x>>
<1>2. u = t \o one /\ one \in Seq(Token)
    OBVIOUS
<1>3. ASSUME NEW i \in 1 .. Len(t) + 1
      PROVE  FirstTokens(u, i - 1) = FirstTokens(t, i - 1)
    <2> HIDE DEF u, one
    <2>1. i - 1 \in 0 .. Len(t)
        BY <1>1
    <2> QED
        BY <1>2, <2>1, FirstOfConcat
<1> HIDE DEF u
<1> SUFFICES ASSUME NEW i \in 1 .. Len(t) + 1
             PROVE  u[i] \in Choices(driver, text \o FirstTokens(u, i - 1))
    BY <1>1 DEF Drawn, u
<1>4. CASE i <= Len(t)
    <2>1. i \in 1 .. Len(t)
        BY <1>1, <1>4
    <2> QED
        BY <1>1, <1>3, <2>1 DEF Drawn
<1>5. CASE i = Len(t) + 1
    <2>1. i - 1 = Len(t)
        BY <1>1, <1>5
    <2>2. FirstTokens(u, i - 1) = t
        BY <1>3, <2>1, LastRow
    <2> QED
        BY <1>1, <1>5, <2>2
<1> QED
    BY <1>1, <1>4, <1>5

-----------------------------------------------------------------------------
(* Verifying a batch from the state the step found.                        *)

LEMMA VerifyStep ==
    ASSUME NEW tokens, Batch(tokens), Verify(text, tokens),
           kv \in [Rows -> Content], Holds(kv, text),
           text \in Seq(Token), position = Len(text)
    PROVE  /\ text \o tokens \in Seq(Token)
           /\ Len(text \o tokens) = position + Len(tokens)
           /\ Len(text \o tokens) <= Capacity
           /\ gdn' = text \o tokens
           /\ kv' \in [Rows -> Content]
           /\ Holds(kv', text \o tokens)
           /\ Holds(kv', text)
           /\ \A i \in 0 .. Len(tokens) - 1 :
                  logitRows'[i] = text \o FirstTokens(tokens, i + 1)
<1>1. /\ tokens \in Seq(Token)
      /\ Len(tokens) \in 1 .. MaximumDepth + 1
      /\ Len(text) + Len(tokens) <= Capacity
      /\ Len(text) \in Nat /\ Len(tokens) \in Nat
    BY Sizes DEF Batch
<1>2. text \o tokens \in Seq(Token) /\ Len(text \o tokens) = Len(text) + Len(tokens)
    BY <1>1, ConcatProperties
<1>3. /\ Advance(text, kv, position, tokens) = text \o tokens
      /\ Holds(WriteRows(kv, position, Len(tokens), text \o tokens),
               text \o tokens)
    BY <1>1, ForwardExtends
<1>4. /\ gdn' = text \o tokens
      /\ kv' = WriteRows(kv, position, Len(tokens), text \o tokens)
      /\ logitRows' = BatchOf(text \o tokens, Len(tokens), logitRows)
    BY <1>3 DEF Verify
<1>5. kv' \in [Rows -> Content]
    BY <1>1, <1>2, <1>4, WriteRowsType, ContentFacts
<1>6. Holds(kv', text)
    BY <1>1, <1>4, WriteKeepsBelow
<1>7. ASSUME NEW i \in 0 .. Len(tokens) - 1
      PROVE  logitRows'[i] = text \o FirstTokens(tokens, i + 1)
    <2>1. /\ i \in BatchRows /\ i < Len(tokens)
          /\ i + 1 \in 0 .. Len(tokens)
          /\ position + i + 1 = Len(text) + (i + 1)
          /\ position + i + 1 <= Len(text \o tokens)
        BY <1>1, <1>2, Sizes DEF BatchRows
    <2>2. logitRows'[i] = RowOf(text \o tokens, position + i + 1)
        BY <1>4, <2>1 DEF BatchOf
    <2>3. RowOf(text \o tokens, position + i + 1)
             = FirstTokens(text \o tokens, Len(text) + (i + 1))
        BY <2>1 DEF RowOf
    <2> QED
        BY <1>1, <2>1, <2>2, <2>3, FirstOverConcat
<1> QED
    BY <1>1, <1>2, <1>3, <1>4, <1>5, <1>6, <1>7

\* A drafted path: the root and one or more drafts.
LEMMA PathOf ==
    ASSUME NEW root \in Token, NEW drafts \in Chains, Fits(Len(drafts)),
           position \in Nat
    PROVE  /\ Batch(<<root>> \o drafts)
           /\ Len(<<root>> \o drafts) = Len(drafts) + 1
           /\ Len(<<root>> \o drafts) > 1
           /\ (<<root>> \o drafts)[1] = root
<1>1. PICK n \in Depths : drafts \in [1 .. n -> Token]
    BY DEF Chains
<1>2. n \in 1 .. MaximumDepth /\ n \in Nat
    BY Sizes DEF Depths
<1>3. drafts \in Seq(Token) /\ Len(drafts) = n
    BY <1>1, <1>2, IsASeq, LenProperties
<1>4. <<root>> \in Seq(Token) /\ Len(<<root>>) = 1 /\ <<root>>[1] = root
    OBVIOUS
<1>5. /\ <<root>> \o drafts \in Seq(Token)
      /\ Len(<<root>> \o drafts) = 1 + n
      /\ (<<root>> \o drafts)[1] = root
    BY <1>2, <1>3, <1>4, ConcatProperties
<1> QED
    BY <1>2, <1>3, <1>5, Sizes DEF Batch, Fits

\* Facts about the empty prefix and the whole.
LEMMA EmptyPrefix ==
    ASSUME NEW s \in Seq(Token), NEW t \in Seq(Token)
    PROVE  /\ FirstTokens(t, 0) = << >>
           /\ s \o FirstTokens(t, 0) = s
<1>1. FirstTokens(t, 0) = << >>
    BY SubSeqEmpty DEF FirstTokens
<1> QED
    BY <1>1, ConcatEmptySeq

\* The accepted part of a chain is what the target might have said.
LEMMA AcceptedDrawn ==
    ASSUME Inv, phase = "verified", NEW n \in 0 .. Depth, Accepts(n)
    PROVE  \A i \in 1 .. n + 1 :
               chain[i] \in Choices(driver, text \o FirstTokens(chain, i - 1))
<1>1. Verified /\ Caller
    BY DEF Inv
<1>2. /\ Batch(chain) /\ chain[1] = pending
      /\ \A i \in 0 .. Len(chain) - 1 :
             logitRows[i] = text \o FirstTokens(chain, i + 1)
    BY <1>1 DEF Verified
<1>3. /\ text \in Seq(Token) /\ pending \in Choices(driver, text)
      /\ driver \in {"greedy", "sampled"}
    BY <1>1 DEF Caller, Working
<1>4. chain \in Seq(Token) /\ Len(chain) \in Nat
    BY <1>2, Sizes DEF Batch
<1>5. n + 1 <= Len(chain) /\ n \in Nat
    BY <1>4 DEF Depth
<1>6. \A i \in 1 .. n : chain[i + 1] \in Choices(driver, logitRows[i - 1])
    BY <1>3 DEF Accepts, Matches, Choices
<1> SUFFICES ASSUME NEW i \in 1 .. n + 1
             PROVE  chain[i] \in Choices(driver, text \o FirstTokens(chain, i - 1))
    OBVIOUS
<1>7. CASE i = 1
    <2>1. text \o FirstTokens(chain, 0) = text
        BY <1>3, <1>4, EmptyPrefix
    <2>2. i - 1 = 0
        BY <1>7
    <2> QED
        BY <1>2, <1>3, <1>7, <2>1, <2>2
<1>8. CASE i # 1
    <2>1. /\ i - 1 \in 1 .. n
          /\ (i - 1) + 1 = i
          /\ (i - 1) - 1 \in 0 .. Len(chain) - 1
          /\ ((i - 1) - 1) + 1 = i - 1
        BY <1>4, <1>5, <1>8
    <2>2. logitRows[(i - 1) - 1] = text \o FirstTokens(chain, i - 1)
        BY <1>2, <2>1
    <2> QED
        BY <1>6, <2>1, <2>2
<1> QED
    BY <1>7, <1>8

-----------------------------------------------------------------------------
(* Every action keeps the invariant.                                       *)

LEMMA NewReplyKeeps ==
    ASSUME Inv, NEW prompt \in Prompts, NewReply(prompt)
    PROVE  Inv'
<1> DEFINE blank == [i \in Rows |-> Zeroed]
<1>1. /\ prompt \in Seq(Token) /\ Len(prompt) \in Nat
      /\ Len(prompt) <= Capacity
    BY StepAssumption, Sizes DEF NewReply
<1>2. /\ phase' = "ready" /\ text' = prompt /\ gdn' = prompt
      /\ position' = Len(prompt) /\ start' = Len(prompt)
      /\ driver' \in {"greedy", "sampled"}
      /\ pending' \in Choices(driver', prompt)
      /\ kv' = WriteRows(blank, 0, Len(prompt), prompt)
    BY StepAssumption DEF NewReply
<1>3. blank \in [Rows -> Content]
    BY ContentFacts
<1>4. kv' \in [Rows -> Content]
    BY <1>1, <1>2, <1>3, WriteRowsType, ContentFacts
<1>5. Holds(kv', prompt)
    <2>1. Zeroed \in Seq(Token) /\ Len(Zeroed) = 0
        BY ContentFacts DEF Zeroed
    <2>2. Zeroed \o prompt = prompt
        BY <1>1, ConcatEmptySeq DEF Zeroed
    <2>3. Holds(blank, Zeroed)
        BY <2>1, Sizes DEF Holds
    <2> HIDE DEF blank
    <2>4. Holds(WriteRows(blank, Len(Zeroed), Len(prompt), Zeroed \o prompt),
                Zeroed \o prompt)
        <3>1. Len(Zeroed) + Len(prompt) <= Capacity
            BY <1>1, <2>1
        <3> QED
            BY <1>1, <1>3, <2>1, <2>3, <3>1, ForwardExtends
    <2> QED
        BY <1>2, <2>1, <2>2, <2>4
<1>6. Caller'
    BY <1>1, <1>2 DEF Caller, Working, Promised, Follows
<1>7. AtRest'
    BY <1>1, <1>2, <1>5 DEF AtRest
<1> QED
    BY <1>2, <1>4, <1>6, <1>7
       DEF Inv, Drafted, Verified, InSearch, Searching, Settled

LEMMA ContinueReplyKeeps ==
    ASSUME Inv, NEW tokens \in Prompts, ContinueReply(tokens)
    PROVE  Inv'
<1>1. /\ tokens \in Seq(Token) /\ Len(tokens) \in Nat
      /\ text \in Seq(Token) /\ Len(text) \in Nat
      /\ Len(text) + Len(tokens) <= Capacity
      /\ position = Len(text) /\ gdn = text /\ Holds(kv, text)
      /\ kv \in [Rows -> Content]
    BY StepAssumption, Sizes DEF ContinueReply, Inv, Caller, Working, AtRest
<1>2. /\ text \o tokens \in Seq(Token)
      /\ Len(text \o tokens) = Len(text) + Len(tokens)
    BY <1>1, ConcatProperties
<1>3. /\ Advance(gdn, kv, position, tokens) = text \o tokens
      /\ Holds(WriteRows(kv, position, Len(tokens), text \o tokens),
               text \o tokens)
    BY <1>1, ForwardExtends
<1>4. /\ phase' = "ready" /\ text' = text \o tokens /\ gdn' = text \o tokens
      /\ start' = Len(text') /\ position' = Len(text')
      /\ driver' \in {"greedy", "sampled"}
      /\ pending' \in Choices(driver', text \o tokens)
      /\ kv' = WriteRows(kv, position, Len(tokens), text \o tokens)
    BY <1>3, StepAssumption DEF ContinueReply
<1>5. kv' \in [Rows -> Content]
    BY <1>1, <1>2, <1>4, WriteRowsType, ContentFacts
<1>6. Caller'
    BY <1>1, <1>2, <1>4 DEF Caller, Working, Promised, Follows
<1>7. AtRest'
    BY <1>1, <1>2, <1>3, <1>4 DEF AtRest
<1> QED
    BY <1>4, <1>5, <1>6, <1>7
       DEF Inv, Drafted, Verified, InSearch, Searching, Settled

\* A step that leaves the caller's variables alone.
LEMMA CallerKept ==
    ASSUME Inv, Working, UNCHANGED callerVars
    PROVE  Caller'
<1>1. Caller
    BY DEF Inv
<1> QED
    BY <1>1 DEF Caller, Choices, Promised, Follows

LEMMA FusedStepKeeps ==
    ASSUME Inv, NEW drafts \in Chains, NEW looked \in BOOLEAN,
           FusedStep(Len(drafts), drafts, looked)
    PROVE  Inv'
<1> DEFINE tokens == <<pending>> \o drafts
<1>1. /\ text \in Seq(Token) /\ position = Len(text) /\ position \in Nat
      /\ position <= Capacity /\ pending \in Choices(driver, text)
      /\ gdn = text /\ Holds(kv, text) /\ kv \in [Rows -> Content]
    BY Sizes DEF FusedStep, Inv, Caller, Working, AtRest
<1>2. pending \in Token
    BY <1>1, TargetReads
<1>3. /\ Fits(Len(drafts)) /\ phase' = "verified" /\ chain' = tokens
      /\ Verify(text, tokens) /\ snapshot' = text
      /\ UNCHANGED callerVars /\ phase = "ready"
    BY <1>1 DEF FusedStep
<1>4. /\ Batch(tokens) /\ Len(tokens) > 1 /\ tokens[1] = pending
    BY <1>1, <1>2, <1>3, PathOf
<1> HIDE DEF tokens
<1>5. /\ gdn' = text \o tokens /\ kv' \in [Rows -> Content]
      /\ Holds(kv', text \o tokens)
      /\ \A i \in 0 .. Len(tokens) - 1 :
             logitRows'[i] = text \o FirstTokens(tokens, i + 1)
    BY <1>1, <1>3, <1>4, VerifyStep
<1>6. Caller'
    BY <1>3, CallerKept DEF Working
<1>7. Verified'
    BY <1>3, <1>4, <1>5 DEF Verified, Batch
<1> QED
    BY <1>3, <1>5, <1>6, <1>7
       DEF Inv, AtRest, Drafted, InSearch, Searching, Settled

LEMMA DraftKeeps ==
    ASSUME Inv, NEW drafts \in Chains, Draft(Len(drafts), drafts)
    PROVE  Inv'
<1> DEFINE tokens == <<pending>> \o drafts
<1>1. /\ text \in Seq(Token) /\ position = Len(text) /\ position \in Nat
      /\ position <= Capacity /\ pending \in Choices(driver, text)
      /\ gdn = text /\ Holds(kv, text) /\ kv \in [Rows -> Content]
    BY Sizes DEF Draft, Inv, Caller, Working, AtRest
<1>2. pending \in Token
    BY <1>1, TargetReads
<1>3. /\ Fits(Len(drafts)) /\ phase' = "drafted" /\ chain' = tokens
      /\ UNCHANGED <<callerVars, layerVars>> /\ phase = "ready"
    BY DEF Draft
<1>4. /\ Batch(tokens) /\ Len(tokens) > 1 /\ tokens[1] = pending
    BY <1>1, <1>2, <1>3, PathOf
<1> HIDE DEF tokens
<1>5. Caller'
    BY <1>3, CallerKept DEF Working
<1>6. Drafted'
    BY <1>1, <1>3, <1>4 DEF Drafted, Batch
<1> QED
    BY <1>1, <1>3, <1>5, <1>6
       DEF Inv, AtRest, Verified, InSearch, Searching, Settled

LEMMA VerifyChainKeeps ==
    ASSUME Inv, VerifyChain
    PROVE  Inv'
<1>1. /\ text \in Seq(Token) /\ position = Len(text)
      /\ gdn = text /\ Holds(kv, text) /\ kv \in [Rows -> Content]
      /\ Batch(chain) /\ Len(chain) > 1 /\ chain[1] = pending
    BY DEF VerifyChain, Inv, Caller, Working, Drafted
<1>2. /\ phase = "drafted" /\ phase' = "verified" /\ snapshot' = text
      /\ Verify(text, chain) /\ UNCHANGED <<callerVars, chain>>
    BY <1>1 DEF VerifyChain
<1>3. /\ gdn' = text \o chain /\ kv' \in [Rows -> Content]
      /\ Holds(kv', text \o chain)
      /\ \A i \in 0 .. Len(chain) - 1 :
             logitRows'[i] = text \o FirstTokens(chain, i + 1)
    BY <1>1, <1>2, VerifyStep
<1>4. Caller'
    BY <1>2, CallerKept DEF Working
<1>5. Verified'
    BY <1>1, <1>2, <1>3 DEF Verified, Batch
<1> QED
    BY <1>2, <1>3, <1>4, <1>5
       DEF Inv, AtRest, Drafted, InSearch, Searching, Settled

\* What a verified chain leaves to settle.
LEMMA VerifiedFacts ==
    ASSUME Inv, phase = "verified"
    PROVE  /\ text \in Seq(Token) /\ Len(text) \in Nat
           /\ position = Len(text) /\ snapshot = text
           /\ chain \in Seq(Token) /\ Len(chain) \in Nat
           /\ Depth \in Nat /\ Len(chain) = Depth + 1
           /\ kv \in [Rows -> Content]
           /\ Holds(kv, text \o chain) /\ Batch(chain)
           /\ \A i \in 0 .. Depth :
                  logitRows[i] = text \o FirstTokens(chain, i + 1)
<1>1. Caller /\ Verified /\ kv \in [Rows -> Content]
    BY DEF Inv
<1>2. text \in Seq(Token) /\ position = Len(text) /\ Len(text) \in Nat
    BY <1>1, Sizes DEF Caller, Working
<1>3. Batch(chain) /\ Len(chain) > 1
    BY <1>1 DEF Verified
<1>4. chain \in Seq(Token) /\ Len(chain) \in Nat
    BY <1>3, Sizes DEF Batch
<1> QED
    BY <1>1, <1>2, <1>3, <1>4 DEF Verified, Depth

\* A prefix of a chain verified after the text.
LEMMA KeptPrefix ==
    ASSUME Inv, phase = "verified", NEW n \in 0 .. Depth
    PROVE  LET kept == FirstTokens(chain, n + 1)
           IN  /\ kept \in Seq(Token) /\ Len(kept) = n + 1
               /\ Batch(kept)
               /\ text \o kept \in Seq(Token)
               /\ Len(text \o kept) <= Capacity
               /\ Holds(kv, text \o kept)
               /\ Holds(kv, text)
               /\ logitRows[n] = text \o kept
<1> DEFINE kept == FirstTokens(chain, n + 1)
<1>1. /\ text \in Seq(Token) /\ Len(text) \in Nat /\ position = Len(text)
      /\ chain \in Seq(Token) /\ Len(chain) \in Nat
      /\ Depth \in Nat /\ Len(chain) = Depth + 1
      /\ Holds(kv, text \o chain) /\ Batch(chain)
      /\ logitRows[n] = text \o kept
    BY VerifiedFacts
<1>2. n \in Nat /\ n + 1 \in 0 .. Len(chain) /\ n + 1 \in 1 .. Len(chain)
    BY <1>1
<1>3. kept \in Seq(Token) /\ Len(kept) = n + 1
    BY <1>1, <1>2, FirstTokensFacts
<1>4. /\ text \o chain \in Seq(Token)
      /\ Len(text \o chain) = Len(text) + Len(chain)
    BY <1>1, ConcatProperties
<1>5. /\ text \o kept \in Seq(Token)
      /\ Len(text \o kept) = Len(text) + (n + 1)
    <2> HIDE DEF kept
    <2>1. /\ text \o kept \in Seq(Token)
          /\ Len(text \o kept) = Len(text) + Len(kept)
        BY <1>1, <1>3, ConcatProperties
    <2> QED
        BY <1>3, <2>1
<1>6. Batch(kept)
    BY <1>1, <1>2, <1>3, Sizes DEF Batch
<1>7. Len(text \o kept) <= Capacity
    BY <1>1, <1>2, <1>5, Sizes DEF Batch
<1>8. Holds(kv, text \o kept)
    <2>1. Len(text) + (n + 1) \in 0 .. Len(text \o chain)
        BY <1>1, <1>2, <1>4
    <2>2. FirstTokens(text \o chain, Len(text) + (n + 1)) = text \o kept
        BY <1>1, <1>2, FirstOverConcat
    <2> QED
        BY <1>1, <1>4, <2>1, <2>2, HoldsPrefix
<1>9. Holds(kv, text)
    <2>1. Len(text) \in 0 .. Len(text) /\ Len(text) \in 0 .. Len(text \o chain)
        BY <1>1, <1>4
    <2>2. FirstTokens(text \o chain, Len(text)) = text
        BY <1>1, <2>1, FirstOfConcat, LastRow
    <2> QED
        BY <1>1, <1>4, <2>1, <2>2, HoldsPrefix
<1> QED
    BY <1>1, <1>3, <1>5, <1>6, <1>7, <1>8, <1>9

\* The accepted prefix on its own.
LEMMA KeptDrawn ==
    ASSUME Inv, phase = "verified", NEW n \in 0 .. Depth, Accepts(n)
    PROVE  Drawn(FirstTokens(chain, n + 1))
<1> DEFINE kept == FirstTokens(chain, n + 1)
<1> SUFFICES ASSUME NEW i \in 1 .. n + 1
             PROVE  kept[i] \in Choices(driver, text \o FirstTokens(kept, i - 1))
    BY KeptPrefix DEF Drawn
<1>1. chain \in Seq(Token) /\ Len(chain) = Depth + 1 /\ Depth \in Nat
    BY VerifiedFacts
<1>2. n + 1 \in 0 .. Len(chain) /\ n \in Nat
    BY <1>1
<1>3. kept \in Seq(Token) /\ kept[i] = chain[i]
    BY <1>1, <1>2, FirstTokensFacts
<1>4. chain[i] \in Choices(driver, text \o FirstTokens(chain, i - 1))
    BY AcceptedDrawn
<1>5. FirstTokens(kept, i - 1) = FirstTokens(chain, i - 1)
    <2>1. CASE i = 1
        <3>1. FirstTokens(kept, 0) = << >> /\ FirstTokens(chain, 0) = << >>
            BY <1>1, <1>3, EmptyPrefix
        <3>2. i - 1 = 0
            BY <2>1
        <3> QED
            BY <3>1, <3>2
    <2>2. CASE i # 1
        <3>1. i - 1 \in 1 .. n + 1
            BY <1>2, <2>2
        <3> QED
            BY <1>1, <1>2, <3>1, FirstOfFirst
    <2> QED
        BY <2>1, <2>2
<1> QED
    BY <1>3, <1>4, <1>5

\* What the caller was promised extends over what was drawn.
LEMMA PromiseKept ==
    ASSUME Inv, Working, NEW t \in Seq(Token), Promised => Drawn(t)
    PROVE  Promised => Follows(start + 1, text \o t)
<1>1. /\ text \in Seq(Token) /\ start \in 0 .. position
      /\ Promised => Follows(start + 1, text)
    BY DEF Inv, Caller
<1>2. start + 1 \in Nat \ {0}
    BY <1>1
<1> QED
    BY <1>1, <1>2, DrawnFollows

\* A prefix handed out without touching the attention rows.
LEMMA SettleKept ==
    ASSUME Inv, phase = "verified", NEW n \in 0 .. Depth, Accepts(n),
           gdn' = text \o FirstTokens(chain, n + 1),
           emitted' = FirstTokens(chain, n + 1),
           next' \in Choices(driver, logitRows[n]),
           phase' = "settled",
           UNCHANGED <<callerVars, kv, logitRows>>
    PROVE  Inv'
<1> DEFINE kept == FirstTokens(chain, n + 1)
<1>1. /\ kept \in Seq(Token) /\ Len(kept) = n + 1 /\ Batch(kept)
      /\ Holds(kv, text \o kept) /\ logitRows[n] = text \o kept
    BY KeptPrefix
<1>2. n \in Nat /\ Len(kept) - 1 = n
    BY <1>1, VerifiedFacts
<1>3. Promised => Follows(start + 1, text \o kept)
    <2>1. Drawn(kept)
        BY KeptDrawn
    <2> HIDE DEF kept
    <2> QED
        BY <1>1, <2>1, PromiseKept DEF Working
<1>4. /\ emitted' = kept /\ gdn' = text \o kept
      /\ next' \in Choices(driver, text \o kept)
    BY <1>1
<1> HIDE DEF kept
<1>5. Caller'
    BY CallerKept DEF Working
<1>6. Settled'
    BY <1>1, <1>2, <1>3, <1>4 DEF Settled, Batch, Choices, Promised, Follows
<1>7. (kv \in [Rows -> Content])'
    BY DEF Inv
<1> QED
    BY <1>5, <1>6, <1>7
       DEF Inv, AtRest, Drafted, Verified, InSearch, Searching

LEMMA AcceptAllKeeps ==
    ASSUME Inv, AcceptAll
    PROVE  Inv'
<1>1. /\ phase = "verified" /\ phase' = "settled" /\ Accepts(Depth)
      /\ emitted' = chain /\ next' \in Choices(driver, logitRows[Depth])
      /\ UNCHANGED <<callerVars, gdn, kv, logitRows>>
    BY DEF AcceptAll
<1>2. chain \in Seq(Token) /\ Len(chain) = Depth + 1 /\ Depth \in 0 .. Depth
    BY <1>1, VerifiedFacts
<1>3. FirstTokens(chain, Depth + 1) = chain
    BY <1>2, LastRow
<1>4. gdn = text \o chain
    BY <1>1 DEF Inv, Verified
<1> QED
    BY <1>1, <1>2, <1>3, <1>4, SettleKept

LEMMA RollbackKeeps ==
    ASSUME Inv, NEW n \in BatchRows, Rollback(n)
    PROVE  Inv'
<1>1. /\ phase = "verified" /\ phase' = "settled" /\ Accepts(n)
      /\ n < Depth /\ emitted' = FirstTokens(chain, n + 1)
      /\ next' \in Choices(driver, logitRows[n])
      /\ gdn' = snapshot \o FirstTokens(chain, n + 1)
      /\ UNCHANGED <<callerVars, kv, logitRows>>
    BY DEF Rollback, RolledBack
<1>2. n \in 0 .. Depth /\ snapshot = text
    BY <1>1, VerifiedFacts, Sizes DEF BatchRows
<1> QED
    BY <1>1, <1>2, SettleKept

\* A batch verified from the text and handed out as it is.
LEMMA SettleVerified ==
    ASSUME Inv, Working, NEW tokens, Batch(tokens), Holds(kv, text),
           Verify(text, tokens), emitted' = tokens,
           next' \in Choices(driver, logitRows'[Len(tokens) - 1]),
           Promised => Drawn(tokens),
           phase' = "settled", UNCHANGED callerVars
    PROVE  Inv'
<1>1. /\ text \in Seq(Token) /\ position = Len(text)
      /\ kv \in [Rows -> Content]
    BY DEF Inv, Caller
<1>2. tokens \in Seq(Token) /\ Len(tokens) \in Nat /\ Len(tokens) >= 1
    BY Sizes DEF Batch
<1>3. /\ gdn' = text \o tokens /\ kv' \in [Rows -> Content]
      /\ Holds(kv', text \o tokens)
      /\ \A i \in 0 .. Len(tokens) - 1 :
             logitRows'[i] = text \o FirstTokens(tokens, i + 1)
    BY <1>1, VerifyStep
<1>4. logitRows'[Len(tokens) - 1] = text \o tokens
    <2>1. Len(tokens) - 1 \in 0 .. Len(tokens) - 1 /\ (Len(tokens) - 1) + 1 = Len(tokens)
        BY <1>2
    <2>2. logitRows'[Len(tokens) - 1] = text \o FirstTokens(tokens, Len(tokens))
        BY <1>3, <2>1
    <2> QED
        BY <1>2, <2>2, LastRow
<1>5. Promised => Follows(start + 1, text \o tokens)
    BY <1>2, PromiseKept
<1>6. Caller'
    BY CallerKept
<1>7. Settled'
    BY <1>3, <1>4, <1>5 DEF Settled, Batch, Choices, Promised, Follows
<1> QED
    BY <1>3, <1>6, <1>7
       DEF Inv, AtRest, Drafted, Verified, InSearch, Searching

LEMMA ReplayAcceptedKeeps ==
    ASSUME Inv, NEW n \in BatchRows, ReplayAccepted(n)
    PROVE  Inv'
<1> DEFINE kept == FirstTokens(chain, n + 1)
           best == Best(text \o kept)
           tokens == ReplayTokens(n)
<1>1. /\ phase = "verified" /\ phase' = "settled" /\ Accepts(n) /\ n < Depth
      /\ UNCHANGED callerVars /\ emitted' = tokens
      /\ Verify(Restored, tokens)
      /\ next' \in Choices(driver, logitRows'[Len(tokens) - 1])
    BY DEF ReplayAccepted
<1>2. /\ snapshot = text /\ text \in Seq(Token) /\ Len(text) \in Nat
      /\ position = Len(text) /\ Depth \in Nat /\ Len(chain) = Depth + 1
      /\ Batch(chain)
    BY <1>1, VerifiedFacts
<1>3. n \in 0 .. Depth /\ n \in Nat
    BY <1>1, <1>2, Sizes DEF BatchRows
<1>4. /\ kept \in Seq(Token) /\ Len(kept) = n + 1 /\ Batch(kept)
      /\ text \o kept \in Seq(Token) /\ Len(text \o kept) <= Capacity
      /\ Holds(kv, text) /\ logitRows[n] = text \o kept
    BY <1>1, <1>3, KeptPrefix
<1>5. best \in Token /\ best \in Choices("greedy", text \o kept)
    BY <1>4, TargetReads DEF Choices
<1>6. /\ driver = "greedy" => tokens = Append(kept, best)
      /\ driver # "greedy" => tokens = kept
    <2>1. kept \o << >> = kept
        BY <1>4, ConcatEmptySeq
    <2> QED
        BY <1>4, <1>5, <2>1 DEF ReplayTokens
<1>7. Drawn(kept)
    BY <1>1, <1>3, KeptDrawn
<1>8. Verify(text, tokens)
    BY <1>1, <1>2 DEF Restored
<1> HIDE DEF kept, best, tokens
<1>9. Batch(tokens)
    <2>1. CASE driver # "greedy"
        BY <1>4, <1>6, <2>1
    <2>2. CASE driver = "greedy"
        <3>1. tokens = Append(kept, best)
            BY <1>6, <2>2
        <3>2. tokens \in Seq(Token) /\ Len(tokens) = Len(kept) + 1
            BY <1>4, <1>5, <3>1, AppendProperties
        <3>3. Len(tokens) = (n + 1) + 1
            BY <1>4, <3>2
        <3> QED
            BY <1>1, <1>2, <1>3, <3>2, <3>3, Sizes DEF Batch
    <2> QED
        BY <2>1, <2>2
<1>10. Drawn(tokens)
    <2>1. CASE driver # "greedy"
        BY <1>6, <1>7, <2>1
    <2>2. CASE driver = "greedy"
        BY <1>2, <1>4, <1>5, <1>6, <1>7, <2>2, DrawnAppend
    <2> QED
        BY <2>1, <2>2
<1> QED
    BY <1>1, <1>4, <1>8, <1>9, <1>10, SettleVerified DEF Working

LEMMA HandOverKeeps ==
    ASSUME Inv, HandOver
    PROVE  Inv'
<1>1. /\ phase = "settled" /\ phase' = "ready"
      /\ text' = text \o emitted /\ position' = position + Len(emitted)
      /\ pending' = next /\ logitRow' = Len(emitted) - 1 /\ logitsValid'
      /\ UNCHANGED <<driver, start, layerVars, logitRows>>
    BY DEF HandOver, NextLogitRow
<1>2. Caller /\ Settled /\ kv \in [Rows -> Content]
    BY DEF Inv
<1>3. /\ driver \in {"greedy", "sampled"} /\ text \in Seq(Token)
      /\ position = Len(text) /\ start \in 0 .. position
    BY <1>1, <1>2 DEF Caller, Working
<1>4. /\ Batch(emitted) /\ gdn = text \o emitted
      /\ Holds(kv, text \o emitted)
      /\ logitRows[Len(emitted) - 1] = text \o emitted
      /\ next \in Choices(driver, text \o emitted)
      /\ Promised => Follows(start + 1, text \o emitted)
    BY <1>1, <1>2 DEF Settled
<1>5. /\ emitted \in Seq(Token) /\ Len(emitted) \in Nat
      /\ position + Len(emitted) <= Capacity
      /\ Len(text) \in Nat
    BY <1>3, <1>4, Sizes DEF Batch
<1>6. /\ text \o emitted \in Seq(Token)
      /\ Len(text \o emitted) = Len(text) + Len(emitted)
    BY <1>3, <1>5, ConcatProperties
<1>7. Caller'
    <2>1. (pending \in Choices(driver, text))'
        BY <1>1, <1>4 DEF Choices
    <2>2. (Promised => Follows(start + 1, text))'
        BY <1>1, <1>4 DEF Promised, Follows, Choices
    <2>3. (/\ text \in Seq(Token) /\ position = Len(text)
           /\ position <= Capacity /\ start \in 0 .. position)'
        BY <1>1, <1>3, <1>5, <1>6
    <2> QED
        BY <1>1, <1>3, <2>1, <2>2, <2>3 DEF Caller
<1>8. AtRest'
    BY <1>1, <1>4 DEF AtRest
<1> QED
    BY <1>1, <1>2, <1>7, <1>8
       DEF Inv, Drafted, Verified, InSearch, Searching, Settled

-----------------------------------------------------------------------------
(* Searches.                                                               *)

LEMMA BeginSearchKeeps ==
    ASSUME Inv, BeginSearch
    PROVE  Inv'
<1>1. /\ text \in Seq(Token) /\ position = Len(text) /\ position \in Nat
      /\ position <= Capacity /\ pending \in Choices(driver, text)
      /\ gdn = text /\ Holds(kv, text) /\ kv \in [Rows -> Content]
    BY Sizes DEF BeginSearch, Inv, Caller, Working, AtRest
<1>2. pending \in Token
    BY <1>1, TargetReads
<1>3. /\ phase = "ready" /\ phase' = "search" /\ Search /\ Fits(1)
      /\ snapshot' = text /\ chain' = << >>
      /\ \/ driver = "greedy" /\ beam' = {}
         \/ roots' = {} /\ beam' = {<<pending>>}
      /\ UNCHANGED <<callerVars, layerVars>>
    BY <1>1 DEF BeginSearch
<1>4. Batch(<<pending>>)
    <2>1. <<pending>> \in Seq(Token) /\ Len(<<pending>>) = 1
        BY <1>2
    <2> QED
        BY <1>1, <1>3, <2>1, Sizes DEF Batch, Fits
<1>5. \A node \in beam' : node = <<pending>>
    BY <1>3
<1>6. (\A node \in beam : Batch(node))'
    BY <1>3, <1>4, <1>5 DEF Batch
<1>7. (\A node \in beam : Drawn(node))'
    <2> DEFINE one == <<pending>>
    <2>1. one \in Seq(Token) /\ Len(one) = 1 /\ one[1] = pending
        BY <1>2
    <2> HIDE DEF one
    <2>2. text \o FirstTokens(one, 0) = text
        BY <1>1, <2>1, EmptyPrefix
    <2>3. ASSUME NEW i \in 1 .. Len(one)
          PROVE  one[i] \in Choices(driver, text \o FirstTokens(one, i - 1))
        <3>1. i = 1 /\ i - 1 = 0
            BY <2>1
        <3> QED
            BY <1>1, <2>1, <2>2, <3>1
    <2>4. Drawn(one)
        BY <2>3 DEF Drawn
    <2>5. \A node \in beam' : node = one
        BY <1>5 DEF one
    <2> QED
        BY <1>3, <2>4, <2>5 DEF Drawn, Choices
<1>8. InSearch'
    BY <1>1, <1>3, <1>5, <1>6, <1>7 DEF InSearch, Searching
<1>9. Caller'
    BY <1>3, CallerKept DEF Working
<1> QED
    BY <1>1, <1>3, <1>8, <1>9
       DEF Inv, AtRest, Drafted, Verified, Settled

\* What the search found stays true of the snapshot and the rows below it.
LEMMA SearchFacts ==
    ASSUME Inv, phase = "search"
    PROVE  /\ text \in Seq(Token) /\ position = Len(text) /\ position \in Nat
           /\ Search /\ snapshot = text /\ Holds(kv, text)
           /\ kv \in [Rows -> Content] /\ Working
           /\ roots # {} /\ chain = << >> => gdn = text
           /\ roots # {} => beam = {}
           /\ chain # << >> => Batch(chain)
           /\ \A node \in beam : Batch(node)
           /\ \A m, n \in beam : Len(m) = Len(n)
           /\ driver \in {"greedy", "sampled"}
           /\ driver = "sampled" => /\ chain = << >> /\ roots = {}
                                    /\ \A node \in beam : Drawn(node)
BY Sizes DEF Inv, Caller, Working, InSearch, Searching

LEMMA LatticeBranchKeeps ==
    ASSUME Inv, NEW root \in Token, NEW drafts \in Chains,
           LatticeBranch(root, drafts)
    PROVE  Inv'
<1> DEFINE path == <<root>> \o drafts
<1>1. /\ phase = "search" /\ phase' = "search" /\ root \in roots
      /\ Fits(Len(drafts))
      /\ Verify(IF chain = << >> THEN gdn ELSE Restored, path)
      /\ chain' \in {path, chain} \ {<< >>}
      /\ roots' = roots \ {root}
      /\ UNCHANGED <<callerVars, snapshot, beam>>
    BY DEF LatticeBranch
<1>2. Verify(text, path)
    BY <1>1, SearchFacts DEF Restored
<1>3. Batch(path)
    BY <1>1, SearchFacts, PathOf
<1> HIDE DEF path
<1>4. kv' \in [Rows -> Content] /\ Holds(kv', text)
    BY <1>1, <1>2, <1>3, SearchFacts, VerifyStep
<1>5. chain' # << >> /\ Batch(chain')
    BY <1>1, <1>3, SearchFacts
<1>6. beam = {}
    BY <1>1, SearchFacts
<1>7. InSearch'
    BY <1>1, <1>4, <1>5, <1>6, SearchFacts DEF InSearch, Searching, Batch
<1>8. Caller'
    BY <1>1, SearchFacts, CallerKept
<1> QED
    BY <1>1, <1>4, <1>7, <1>8
       DEF Inv, AtRest, Drafted, Verified, Settled

\* A kept node with one of its successors.
LEMMA SuccessorFits ==
    ASSUME Inv, phase = "search", NEW node \in beam,
           Len(node) <= MaximumDepth, Fits(Len(node)),
           NEW child \in Successors(node)
    PROVE  /\ Batch(child) /\ Len(child) = Len(node) + 1
           /\ driver = "sampled" => Drawn(child)
<1>1. /\ text \in Seq(Token) /\ position = Len(text) /\ position \in Nat
      /\ snapshot = text /\ Holds(kv, text) /\ kv \in [Rows -> Content]
      /\ Batch(node)
    BY SearchFacts
<1>2. /\ node \in Seq(Token) /\ Len(node) \in Nat /\ Len(node) >= 1
      /\ Len(text) + Len(node) <= Capacity
    BY <1>1, Sizes DEF Batch
<1>3. /\ text \o node \in Seq(Token)
      /\ Len(text \o node) = Len(text) + Len(node)
    BY <1>1, <1>2, ConcatProperties
<1>4. Advance(Restored, kv, position, node) = text \o node
    BY <1>1, <1>2, ForwardExtends DEF Restored
<1>5. RowOf(text \o node, position + Len(node)) = text \o node
    <2>1. position + Len(node) = Len(text \o node)
        BY <1>1, <1>3
    <2>2. RowOf(text \o node, Len(text \o node))
             = FirstTokens(text \o node, Len(text \o node))
        BY <1>1, <1>2, <1>3 DEF RowOf
    <2> QED
        BY <1>3, <2>1, <2>2, LastRow
<1>6. Likely(text \o node) \subseteq Token
    BY <1>1, <1>2, <1>3, TargetReads
<1>7. PICK t \in Likely(text \o node) : child = Append(node, t)
    BY <1>4, <1>5 DEF Successors
<1>8. t \in Token
    BY <1>6
<1>9. child \in Seq(Token) /\ Len(child) = Len(node) + 1
    BY <1>2, <1>7, <1>8, AppendProperties
<1>10. driver = "sampled" => Drawn(child)
    <2> SUFFICES ASSUME driver = "sampled"
                 PROVE  Drawn(child)
        OBVIOUS
    <2>1. Drawn(node)
        BY SearchFacts
    <2>2. t \in Choices(driver, text \o node)
        BY DEF Choices
    <2> QED
        BY <1>1, <1>2, <1>7, <1>8, <2>1, <2>2, DrawnAppend
<1>11. Batch(child)
    BY <1>1, <1>2, <1>9, Sizes DEF Batch, Fits
<1> QED
    BY <1>9, <1>10, <1>11

LEMMA ViterbiLevelKeeps ==
    ASSUME Inv, NEW last \in beam, NEW kept \in SUBSET Candidates,
           ViterbiLevel(last, kept)
    PROVE  Inv'
<1>1. /\ phase = "search" /\ phase' = "search"
      /\ Len(last) <= MaximumDepth /\ Fits(Len(last))
      /\ Verify(Restored, last) /\ beam' = kept
      /\ UNCHANGED <<callerVars, snapshot, chain, roots>>
    BY DEF ViterbiLevel
<1>2. Verify(text, last) /\ Batch(last)
    BY <1>1, SearchFacts DEF Restored
<1>3. kv' \in [Rows -> Content] /\ Holds(kv', text)
    BY <1>1, <1>2, SearchFacts, VerifyStep
<1>4. ASSUME NEW child \in kept
      PROVE  /\ Batch(child) /\ Len(child) = Len(last) + 1
             /\ driver = "sampled" => Drawn(child)
    <2>1. PICK node \in beam : child \in Successors(node)
        BY DEF Candidates
    <2>2. Len(node) = Len(last)
        BY <1>1, SearchFacts
    <2> QED
        BY <1>1, <2>1, <2>2, SuccessorFits
<1>5. roots = {}
    BY <1>1, SearchFacts
<1>6. (\A node \in beam : Batch(node))'
    BY <1>1, <1>4 DEF Batch
<1>7. (\A m, n \in beam : Len(m) = Len(n))'
    BY <1>1, <1>4
<1>8. (chain # << >> => Batch(chain))'
    BY <1>1, SearchFacts DEF Batch
<1>9. (driver = "sampled" => /\ chain = << >> /\ roots = {}
                              /\ \A node \in beam : Drawn(node))'
    BY <1>1, <1>4, SearchFacts DEF Drawn, Choices
<1>10. InSearch'
    BY <1>1, <1>3, <1>5, <1>6, <1>7, <1>8, <1>9, SearchFacts
       DEF InSearch, Searching
<1>11. Caller'
    BY <1>1, SearchFacts, CallerKept
<1> QED
    BY <1>1, <1>3, <1>10, <1>11
       DEF Inv, AtRest, Drafted, Verified, Settled

LEMMA CommitPathKeeps ==
    ASSUME Inv, NEW path \in beam \cup {chain}, CommitPath(path)
    PROVE  Inv'
<1>1. /\ phase = "search" /\ phase' = "settled" /\ Len(path) > 1
      /\ Verify(Restored, path) /\ emitted' = path
      /\ next' \in Choices(driver, logitRows'[Len(path) - 1])
      /\ UNCHANGED callerVars
    BY DEF CommitPath
<1>2. path # << >>
    BY <1>1
<1>3. Verify(text, path) /\ Batch(path) /\ Holds(kv, text) /\ Search /\ Working
    BY <1>1, <1>2, SearchFacts DEF Restored
<1>4. Promised => Drawn(path)
    <2> SUFFICES ASSUME Promised
                 PROVE  Drawn(path)
        OBVIOUS
    <2>1. driver = "sampled"
        BY <1>1, SearchFacts DEF Promised
    <2> QED
        BY <1>1, <1>2, <2>1, SearchFacts
<1> QED
    BY <1>1, <1>3, <1>4, SettleVerified

-----------------------------------------------------------------------------
(* The theorems.                                                           *)

\* Nothing is promised before the first request or after a failure.
LEMMA StepFailsKeeps ==
    ASSUME Inv, StepFails
    PROVE  Inv'
BY DEF StepFails, Inv, Caller, Working, AtRest, Drafted, Verified, InSearch,
       Searching, Settled

LEMMA InitHolds ==
    ASSUME Init
    PROVE  Inv
BY ContentFacts
   DEF Init, Inv, Caller, Working, AtRest, Drafted, Verified, InSearch,
       Searching, Settled

LEMMA StutterKeeps ==
    ASSUME Inv, UNCHANGED vars
    PROVE  Inv'
BY DEF vars, Inv, Caller, Working, AtRest, Drafted, Verified, InSearch,
       Searching, Settled, Batch, Choices, Promised, Follows, Drawn, Holds

LEMMA StepKeeps ==
    ASSUME Inv, [Next]_vars
    PROVE  Inv'
<1>1. ASSUME NEW prompt \in Prompts, NewReply(prompt) \/ ContinueReply(prompt)
      PROVE  Inv'
    BY <1>1, NewReplyKeeps, ContinueReplyKeeps
<1>2. CASE OneChain
    BY <1>2, FusedStepKeeps, DraftKeeps, VerifyChainKeeps DEF OneChain
<1>3. CASE Settle
    BY <1>3, AcceptAllKeeps, RollbackKeeps, ReplayAcceptedKeeps, HandOverKeeps
       DEF Settle
<1>4. CASE ManyChains
    BY <1>4, BeginSearchKeeps, LatticeBranchKeeps, ViterbiLevelKeeps,
       CommitPathKeeps DEF ManyChains
<1>5. CASE StepFails
    BY <1>5, StepFailsKeeps
<1>6. CASE UNCHANGED vars
    BY <1>6, StutterKeeps
<1> QED
    BY <1>1, <1>2, <1>3, <1>4, <1>5, <1>6 DEF Next

\* The invariant of the whole step, in every phase.
THEOREM Invariance == Spec => []Inv
<1>1. Init => Inv
    BY InitHolds
<1>2. Inv /\ [Next]_vars => Inv'
    BY StepKeeps
<1> QED
    BY <1>1, <1>2, PTL DEF Spec

\* LayersFollowText for every target, depth, beam and capacity: whatever the
\* step drafted, rejected, rolled back, replayed or searched, the layers a
\* step leaves are those of the tokens it handed out.
THEOREM LayersCorrect == Spec => []LayersFollowText
<1>1. Inv => LayersFollowText
    BY DEF Inv, AtRest, Caller, Working, LayersFollowText
<1> QED
    BY <1>1, Invariance, PTL

\* LogitsOfPending for every instance: the exposed row of logits is the one
\* the pending token was taken from.
THEOREM LogitsCorrect == Spec => []LogitsOfPending
<1>1. Inv => LogitsOfPending
    BY DEF Inv, AtRest, Caller, Working, LogitsOfPending
<1> QED
    BY <1>1, Invariance, PTL

\* Lossless for every instance: speculation never makes a reply say what the
\* target would not have said.
THEOREM LosslessCorrect == Spec => []Lossless
<1>1. Inv => Lossless
    BY DEF Inv, Caller, Working, Lossless, Promised, Follows
<1> QED
    BY <1>1, Invariance, PTL

-----------------------------------------------------------------------------
(* The draft side.                                                         *)

RepairReplays == Fused => "greedy" \in Replay

\* TypeOK in parts, and one thing more: every row of logits was computed in
\* a context the target can read.
CallerTypes ==
    /\ driver \in {"greedy", "sampled"}
    /\ text \in Seq(Token)
    /\ start \in 0 .. Capacity
    /\ position \in 0 .. Capacity
    /\ pending \in Token \cup {Bad}

LayerTypes ==
    /\ gdn \in Content
    /\ snapshot \in Content
    /\ kv \in [Rows -> Content]
    /\ draftRows \in [Rows -> Content]

HiddenTypes ==
    /\ finalHidden \in Content
    /\ savedHidden \in Content
    /\ rowHidden \in [BatchRows -> Content]
    /\ hiddenSource \in 0 .. MaximumDepth + 1

LogitTypes ==
    /\ logitRows \in [BatchRows -> Content]
    /\ \A i \in BatchRows : logitRows[i] \in Contexts
    /\ logitRow \in BatchRows
    /\ logitsValid \in BOOLEAN

StepTypes ==
    /\ phase \in Phases
    /\ chain \in Seq(Token)
    /\ emitted \in Seq(Token)
    /\ next \in Token \cup {Bad}
    /\ refresh \in BOOLEAN
    /\ roots \subseteq Token
    /\ beam \subseteq Seq(Token)

Typed == CallerTypes /\ LayerTypes /\ HiddenTypes /\ LogitTypes /\ StepTypes

USE DEF callerVars, layerVars, hiddenVars, logitVars, resultVars, searchVars

-----------------------------------------------------------------------------
(* Types of what the operators return.                                     *)

LEMMA RowOfType ==
    ASSUME NEW context \in Content, NEW i \in Nat
    PROVE  RowOf(context, i) \in Content
<1>1. CASE i <= Len(context)
    <2>1. Len(context) \in Nat
        BY LenProperties DEF Content
    <2>2. i \in 0 .. Len(context)
        BY <1>1, <2>1
    <2> QED
        BY <1>1, <2>2, FirstTokensFacts DEF RowOf, Content
<1>2. CASE ~ (i <= Len(context))
    BY <1>2, ContentFacts DEF RowOf
<1> QED
    BY <1>1, <1>2

\* A row of the context window is one the target can read.
LEMMA RowReadable ==
    ASSUME NEW context \in Content, NEW i \in 1 .. Capacity
    PROVE  RowOf(context, i) \in Contexts
<1>1. Len(context) \in Nat /\ Capacity \in Nat \ {0} /\ i \in Nat
    BY LenProperties, Sizes DEF Content
<1>2. CASE i <= Len(context)
    <2>1. i \in 0 .. Len(context)
        BY <1>1, <1>2
    <2>2. FirstTokens(context, i) \in Content /\ Len(FirstTokens(context, i)) = i
        BY <2>1, FirstTokensFacts DEF Content
    <2>3. FirstTokens(context, i) \in [1 .. i -> Token \cup {Bad}]
        BY <2>2, LenProperties DEF Content
    <2> QED
        BY <1>1, <1>2, <2>3 DEF RowOf, Contexts
<1>3. CASE ~ (i <= Len(context))
    <2>1. Garbage \in [1 .. 1 -> Token \cup {Bad}]
        BY DEF Garbage
    <2>2. 1 \in 0 .. Capacity
        BY <1>1
    <2> QED
        BY <1>3, <2>1, <2>2 DEF RowOf, Contexts
<1> QED
    BY <1>2, <1>3

LEMMA PairType ==
    ASSUME NEW hidden \in Content, NEW token \in Token
    PROVE  Pair(hidden, token) \in Content
<1>1. Append(hidden, token) \in Content
    BY AppendProperties DEF Content
<1> QED
    BY <1>1, ContentFacts DEF Pair

LEMMA BatchOfType ==
    ASSUME NEW context \in Content, NEW count \in Nat, position \in Nat,
           NEW old \in [BatchRows -> Content]
    PROVE  BatchOf(context, count, old) \in [BatchRows -> Content]
<1>1. ASSUME NEW i \in BatchRows
      PROVE  RowOf(context, position + i + 1) \in Content
    <2>1. position + i + 1 \in Nat
        BY Sizes DEF BatchRows
    <2> QED
        BY <2>1, RowOfType
<1> QED
    BY <1>1 DEF BatchOf

LEMMA OverwrittenType ==
    ASSUME NEW hiddens \in [BatchRows -> Content], NEW count
    PROVE  Overwritten(hiddens, count) \in [BatchRows -> Content]
BY ContentFacts DEF Overwritten

LEMMA HiddenType ==
    ASSUME HiddenTypes
    PROVE  Hidden \in Content
<1>1. hiddenSource # 0 => hiddenSource - 1 \in BatchRows
    BY Sizes DEF HiddenTypes, BatchRows
<1>2. finalHidden \in Content /\ rowHidden \in [BatchRows -> Content]
    BY DEF HiddenTypes
<1> QED
    BY <1>1, <1>2 DEF Hidden

LEMMA ChainRowsType ==
    ASSUME draftRows \in [Rows -> Content], NEW hidden \in Content,
           NEW token \in Token, NEW depth
    PROVE  ChainRows(hidden, token, depth) \in [Rows -> Content]
<1>1. Pair(hidden, token) \in Content
    BY PairType
<1> QED
    BY <1>1, ContentFacts DEF ChainRows

LEMMA FirstRowType ==
    ASSUME draftRows \in [Rows -> Content], NEW hidden \in Content,
           NEW token \in Token
    PROVE  FirstRow(hidden, token) \in [Rows -> Content]
<1>1. Pair(hidden, token) \in Content
    BY PairType
<1> QED
    BY <1>1 DEF FirstRow

LEMMA SuccessorRowsType ==
    ASSUME NEW under \in [Rows -> Content], position \in Nat,
           NEW hiddens \in [BatchRows -> Content],
           NEW tokens \in Seq(Token), Len(tokens) <= MaximumDepth
    PROVE  SuccessorRows(under, hiddens, tokens) \in [Rows -> Content]
<1>1. Len(tokens) \in Nat /\ MaximumDepth \in Nat
    BY Sizes
<1>2. ASSUME NEW i \in Rows, i \in (position + 2) .. (position + 1 + Len(tokens))
      PROVE  Pair(hiddens[i - position - 2], tokens[i - position - 1]) \in Content
    <2>1. i - position - 2 \in BatchRows /\ i - position - 1 \in 1 .. Len(tokens)
        BY <1>1, <1>2 DEF BatchRows
    <2>2. tokens[i - position - 1] \in Token
        BY <2>1, ElementOfSeq
    <2>3. hiddens[i - position - 2] \in Content
        BY <2>1
    <2> QED
        BY <2>2, <2>3, PairType
<1> QED
    BY <1>2 DEF SuccessorRows

\* A verification in any context, whole or not.
LEMMA VerifyTypes ==
    ASSUME Typed, NEW base \in Content, NEW tokens, Batch(tokens),
           Verify(base, tokens)
    PROVE  /\ gdn' \in Content
           /\ kv' \in [Rows -> Content]
           /\ logitRows' \in [BatchRows -> Content]
           /\ \A i \in BatchRows : logitRows'[i] \in Contexts
           /\ BatchOf(Advance(base, kv, position, tokens), Len(tokens), rowHidden)
                \in [BatchRows -> Content]
<1> DEFINE context == Advance(base, kv, position, tokens)
<1>1. /\ kv \in [Rows -> Content] /\ position \in Nat
      /\ logitRows \in [BatchRows -> Content]
      /\ rowHidden \in [BatchRows -> Content]
      /\ \A i \in BatchRows : logitRows[i] \in Contexts
    BY Sizes DEF Typed, CallerTypes, LayerTypes, HiddenTypes, LogitTypes
<1>2. /\ tokens \in Seq(Token) /\ Len(tokens) \in Nat
      /\ position + Len(tokens) <= Capacity
    BY Sizes DEF Batch
<1>3. context \in Content
    BY <1>1, <1>2, ForwardType
<1> HIDE DEF context
<1>4. /\ gdn' = context
      /\ kv' = WriteRows(kv, position, Len(tokens), context)
      /\ logitRows' = BatchOf(context, Len(tokens), logitRows)
    BY DEF Verify, context
<1>5. kv' \in [Rows -> Content]
    BY <1>1, <1>2, <1>3, <1>4, WriteRowsType
<1>6. /\ logitRows' \in [BatchRows -> Content]
      /\ BatchOf(context, Len(tokens), rowHidden) \in [BatchRows -> Content]
    BY <1>1, <1>2, <1>3, <1>4, BatchOfType
<1>7. ASSUME NEW i \in BatchRows
      PROVE  logitRows'[i] \in Contexts
    <2>1. CASE i < Len(tokens)
        <3>1. position + i + 1 \in 1 .. Capacity
            BY <1>1, <1>2, <2>1, Sizes DEF BatchRows
        <3>2. logitRows'[i] = RowOf(context, position + i + 1)
            BY <1>4, <2>1 DEF BatchOf
        <3> QED
            BY <1>3, <3>1, <3>2, RowReadable
    <2>2. CASE ~ (i < Len(tokens))
        BY <1>1, <1>4, <2>2 DEF BatchOf
    <2> QED
        BY <2>1, <2>2
<1> QED
    BY <1>3, <1>4, <1>5, <1>6, <1>7 DEF context

-----------------------------------------------------------------------------
(* Every action keeps the types.                                           *)

LEMMA InitTyped ==
    ASSUME Init
    PROVE  Typed
<1>1. Zeroed \in Contexts
    <2>1. Zeroed \in [1 .. 0 -> Token \cup {Bad}]
        BY DEF Zeroed
    <2> QED
        BY <2>1, Sizes DEF Contexts
<1> QED
    BY <1>1, ContentFacts, Sizes, StepAssumption
       DEF Init, Typed, CallerTypes, LayerTypes, HiddenTypes, LogitTypes,
           StepTypes, Phases, BatchRows, Zeroed

\* What the invariant and the types say of a working step.
LEMMA WorkingFacts ==
    ASSUME Inv, Typed, Working
    PROVE  /\ text \in Seq(Token) /\ position = Len(text) /\ position \in Nat
           /\ position <= Capacity /\ start \in 0 .. position
           /\ pending \in Token
           /\ gdn \in Content /\ snapshot \in Content
           /\ kv \in [Rows -> Content] /\ draftRows \in [Rows -> Content]
           /\ rowHidden \in [BatchRows -> Content]
           /\ finalHidden \in Content /\ savedHidden \in Content
           /\ Hidden \in Content
<1>1. /\ text \in Seq(Token) /\ position = Len(text) /\ position <= Capacity
      /\ start \in 0 .. position /\ pending \in Choices(driver, text)
    BY DEF Inv, Caller
<1>2. pending \in Token
    BY <1>1, TargetReads
<1> QED
    BY <1>1, <1>2, HiddenType, Sizes
       DEF Typed, CallerTypes, LayerTypes, HiddenTypes

LEMMA NewReplyTyped ==
    ASSUME Inv, Typed, NEW prompt \in Prompts, NewReply(prompt)
    PROVE  Typed'
<1>1. /\ prompt \in Seq(Token) /\ Len(prompt) \in Nat
      /\ Len(prompt) <= Capacity
    BY StepAssumption, Sizes DEF NewReply
<1>2. /\ text' = prompt /\ start' = Len(prompt) /\ position' = Len(prompt)
      /\ gdn' = prompt /\ finalHidden' = prompt /\ hiddenSource' = 0
      /\ driver' \in Drivers /\ pending' \in Choices(driver', prompt)
      /\ draftRows' = [i \in Rows |-> IF i \in 2 .. Len(prompt)
                                      THEN FirstTokens(prompt, i) ELSE Zeroed]
      /\ logitsValid' = FALSE /\ phase' = "ready"
      /\ UNCHANGED <<snapshot, rowHidden, logitRows, logitRow, chain,
                     resultVars, searchVars>>
    BY DEF NewReply
<1>3. Inv'
    BY NewReplyKeeps
<1>4. kv' \in [Rows -> Content] /\ pending' \in Token
    BY <1>1, <1>2, <1>3, TargetReads DEF Inv
<1>5. draftRows' \in [Rows -> Content]
    <2>1. ASSUME NEW i \in 2 .. Len(prompt)
          PROVE  FirstTokens(prompt, i) \in Content
        BY <1>1, FirstTokensFacts, ContentFacts
    <2> QED
        BY <1>2, <2>1, ContentFacts
<1>6. prompt \in Content
    BY <1>1, ContentFacts
<1>7. (/\ driver \in {"greedy", "sampled"}
       /\ start \in 0 .. Capacity /\ position \in 0 .. Capacity
       /\ hiddenSource \in 0 .. MaximumDepth + 1
       /\ phase \in Phases)'
    BY <1>1, <1>2, StepAssumption, Sizes DEF Phases
<1>8. CallerTypes'
    BY <1>1, <1>2, <1>4, <1>5, <1>6, <1>7 DEF Typed, CallerTypes
<1>9. LayerTypes'
    BY <1>1, <1>2, <1>4, <1>5, <1>6, <1>7 DEF Typed, LayerTypes
<1>10. HiddenTypes'
    BY <1>1, <1>2, <1>4, <1>5, <1>6, <1>7 DEF Typed, HiddenTypes
<1>11. LogitTypes'
    BY <1>1, <1>2, <1>4, <1>5, <1>6, <1>7 DEF Typed, LogitTypes
<1>12. StepTypes'
    BY <1>1, <1>2, <1>4, <1>5, <1>6, <1>7 DEF Typed, StepTypes
<1> QED
    BY <1>8, <1>9, <1>10, <1>11, <1>12 DEF Typed

LEMMA ContinueReplyTyped ==
    ASSUME Inv, Typed, NEW tokens \in Prompts, ContinueReply(tokens)
    PROVE  Typed'
<1> DEFINE context == Advance(gdn, kv, position, tokens)
<1>1. /\ tokens \in Seq(Token) /\ Len(tokens) \in Nat /\ Working
      /\ Len(text) + Len(tokens) < Capacity
    BY StepAssumption, Sizes DEF ContinueReply, Working
<1>2. context \in Content
    BY <1>1, WorkingFacts, ForwardType
<1>3. /\ driver' \in Drivers /\ text' = text \o tokens
      /\ start' = Len(text') /\ position' = Len(text')
      /\ gdn' = context /\ finalHidden' = context /\ hiddenSource' = 0
      /\ draftRows' = [i \in Rows |->
                          IF i \in (position + 2) .. (position + Len(tokens))
                          THEN RowOf(context, i) ELSE draftRows[i]]
      /\ UNCHANGED <<phase, snapshot, rowHidden, logitVars, chain, resultVars,
                     searchVars>>
    BY DEF ContinueReply
<1> HIDE DEF context
<1>4. Inv' /\ phase' = "ready"
    BY ContinueReplyKeeps DEF ContinueReply
<1>5. (/\ text \in Seq(Token) /\ position = Len(text) /\ position <= Capacity
       /\ pending \in Choices(driver, text) /\ kv \in [Rows -> Content])'
    BY <1>4 DEF Inv, Caller, Working
<1>6. (/\ start \in 0 .. Capacity /\ position \in 0 .. Capacity
       /\ driver \in {"greedy", "sampled"}
       /\ hiddenSource \in 0 .. MaximumDepth + 1)'
    BY <1>3, <1>5, Sizes, StepAssumption
<1>7. pending' \in Token
    <2>1. Choices(driver', text') \subseteq Token
        BY <1>5, TargetReads
    <2>2. pending' \in Choices(driver', text')
        BY <1>5 DEF Choices
    <2> QED
        BY <2>1, <2>2
<1>8. draftRows' \in [Rows -> Content]
    <2>1. \A i \in Rows : RowOf(context, i) \in Content
        BY <1>2, RowOfType, Sizes DEF Rows
    <2> QED
        BY <1>1, <1>3, <2>1, WorkingFacts
<1>9. CallerTypes'
    BY <1>2, <1>3, <1>5, <1>6, <1>7, <1>8 DEF Typed, CallerTypes
<1>10. LayerTypes'
    BY <1>2, <1>3, <1>5, <1>6, <1>7, <1>8 DEF Typed, LayerTypes
<1>11. HiddenTypes'
    BY <1>2, <1>3, <1>5, <1>6, <1>7, <1>8 DEF Typed, HiddenTypes
<1>12. LogitTypes'
    BY <1>2, <1>3, <1>5, <1>6, <1>7, <1>8 DEF Typed, LogitTypes
<1>13. StepTypes'
    BY <1>2, <1>3, <1>5, <1>6, <1>7, <1>8 DEF Typed, StepTypes
<1> QED
    BY <1>9, <1>10, <1>11, <1>12, <1>13 DEF Typed

\* A drafted chain, ready for any verification.
LEMMA ChainOf ==
    ASSUME Inv, Typed, Working, NEW root \in Token, NEW drafts \in Chains,
           Fits(Len(drafts))
    PROVE  /\ drafts \in Seq(Token) /\ Len(drafts) \in 1 .. MaximumDepth
           /\ Batch(<<root>> \o drafts)
           /\ <<root>> \o drafts \in Seq(Token)
           /\ Len(<<root>> \o drafts) = Len(drafts) + 1
           /\ Tail(<<root>> \o drafts) = drafts
<1>1. PICK n \in Depths : drafts \in [1 .. n -> Token]
    BY DEF Chains
<1>2. n \in 1 .. MaximumDepth /\ n \in Nat
    BY Sizes DEF Depths
<1>3. drafts \in Seq(Token) /\ Len(drafts) = n
    BY <1>1, <1>2, IsASeq, LenProperties
<1>4. /\ Batch(<<root>> \o drafts)
      /\ Len(<<root>> \o drafts) = Len(drafts) + 1
    BY WorkingFacts, PathOf
<1>5. Tail(<<root>> \o drafts) = drafts
    BY <1>3
<1> QED
    BY <1>2, <1>3, <1>4, <1>5 DEF Batch

LEMMA FusedStepTyped ==
    ASSUME Inv, Typed, NEW drafts \in Chains, NEW looked \in BOOLEAN,
           FusedStep(Len(drafts), drafts, looked)
    PROVE  Typed'
<1> DEFINE tokens == <<pending>> \o drafts
           context == Advance(gdn, kv, position, tokens)
           depth == Len(drafts)
           hiddens == BatchOf(context, depth + 1, rowHidden)
           under == IF looked THEN draftRows ELSE ChainRows(Hidden, pending, depth)
<1>1. /\ Working /\ Fits(depth) /\ chain' = tokens /\ Verify(gdn, tokens)
      /\ draftRows' = SuccessorRows(under, hiddens, drafts)
      /\ rowHidden' = Overwritten(hiddens, depth)
      /\ finalHidden' \in {finalHidden, Garbage}
      /\ snapshot' = gdn /\ logitsValid' = FALSE /\ phase' = "verified"
      /\ UNCHANGED <<callerVars, hiddenSource, logitRow, resultVars, searchVars>>
    BY DEF FusedStep, Working
<1>2. /\ Batch(tokens) /\ tokens \in Seq(Token) /\ Len(tokens) = depth + 1
      /\ drafts \in Seq(Token) /\ depth <= MaximumDepth
    BY <1>1, ChainOf, WorkingFacts
<1> HIDE DEF tokens
<1>3. /\ gdn' \in Content /\ kv' \in [Rows -> Content]
      /\ logitRows' \in [BatchRows -> Content]
      /\ \A i \in BatchRows : logitRows'[i] \in Contexts
      /\ hiddens \in [BatchRows -> Content]
    BY <1>1, <1>2, WorkingFacts, VerifyTypes
<1>4. under \in [Rows -> Content]
    BY <1>1, WorkingFacts, ChainRowsType
<1> HIDE DEF hiddens, under
<1>5. draftRows' \in [Rows -> Content]
    BY <1>1, <1>2, <1>3, <1>4, WorkingFacts, SuccessorRowsType
<1>6. rowHidden' \in [BatchRows -> Content]
    BY <1>1, <1>3, OverwrittenType
<1>7. finalHidden' \in Content
    BY <1>1, WorkingFacts, ContentFacts
<1>8. CallerTypes'
    BY <1>1, <1>2, <1>3, <1>5, <1>6, <1>7 DEF Typed, CallerTypes
<1>9. LayerTypes'
    BY <1>1, <1>2, <1>3, <1>5, <1>6, <1>7 DEF Typed, LayerTypes
<1>10. HiddenTypes'
    BY <1>1, <1>2, <1>3, <1>5, <1>6, <1>7 DEF Typed, HiddenTypes
<1>11. LogitTypes'
    BY <1>1, <1>2, <1>3, <1>5, <1>6, <1>7 DEF Typed, LogitTypes
<1>12. StepTypes'
    BY <1>1, <1>2, <1>3, <1>5, <1>6, <1>7 DEF Typed, StepTypes, Phases
<1> QED
    BY <1>8, <1>9, <1>10, <1>11, <1>12 DEF Typed

LEMMA DraftTyped ==
    ASSUME Inv, Typed, NEW drafts \in Chains, Draft(Len(drafts), drafts)
    PROVE  Typed'
<1> DEFINE tokens == <<pending>> \o drafts
<1>1. /\ Working /\ Fits(Len(drafts)) /\ chain' = tokens
      /\ draftRows' = ChainRows(Hidden, pending, Len(drafts))
      /\ finalHidden' = Garbage /\ logitsValid' = FALSE /\ phase' = "drafted"
      /\ UNCHANGED <<callerVars, layerVars, snapshot, rowHidden, hiddenSource,
                     logitRows, logitRow, resultVars, searchVars>>
    BY DEF Draft, Working
<1>2. tokens \in Seq(Token)
    BY <1>1, ChainOf, WorkingFacts
<1> HIDE DEF tokens
<1>3. draftRows' \in [Rows -> Content]
    BY <1>1, WorkingFacts, ChainRowsType
<1>4. CallerTypes'
    BY <1>1, <1>2, <1>3, ContentFacts DEF Typed, CallerTypes
<1>5. LayerTypes'
    BY <1>1, <1>2, <1>3, ContentFacts DEF Typed, LayerTypes
<1>6. HiddenTypes'
    BY <1>1, <1>2, <1>3, ContentFacts DEF Typed, HiddenTypes
<1>7. LogitTypes'
    BY <1>1, <1>2, <1>3, ContentFacts DEF Typed, LogitTypes
<1>8. StepTypes'
    BY <1>1, <1>2, <1>3, ContentFacts DEF Typed, StepTypes, Phases
<1> QED
    BY <1>4, <1>5, <1>6, <1>7, <1>8 DEF Typed

LEMMA VerifyChainTyped ==
    ASSUME Inv, Typed, VerifyChain
    PROVE  Typed'
<1>1. /\ Working /\ Batch(chain) /\ snapshot' = gdn /\ Verify(gdn, chain)
      /\ rowHidden' = BatchOf(Advance(gdn, kv, position, chain), Len(chain),
                              rowHidden)
      /\ phase' = "verified"
      /\ UNCHANGED <<callerVars, draftRows, finalHidden, hiddenSource, logitRow,
                     logitsValid, chain, resultVars, searchVars>>
    BY DEF VerifyChain, Working, Inv, Drafted
<1>2. /\ gdn' \in Content /\ kv' \in [Rows -> Content]
      /\ logitRows' \in [BatchRows -> Content]
      /\ \A i \in BatchRows : logitRows'[i] \in Contexts
      /\ rowHidden' \in [BatchRows -> Content]
    BY <1>1, WorkingFacts, VerifyTypes
<1>3. CallerTypes'
    BY <1>1, <1>2, WorkingFacts DEF Typed, CallerTypes
<1>4. LayerTypes'
    BY <1>1, <1>2, WorkingFacts DEF Typed, LayerTypes
<1>5. HiddenTypes'
    BY <1>1, <1>2, WorkingFacts DEF Typed, HiddenTypes
<1>6. LogitTypes'
    BY <1>1, <1>2, WorkingFacts DEF Typed, LogitTypes
<1>7. StepTypes'
    BY <1>1, <1>2, WorkingFacts DEF Typed, StepTypes, Phases
<1> QED
    BY <1>3, <1>4, <1>5, <1>6, <1>7 DEF Typed

\* A step that settles leaves the tokens to hand out in order.
LEMMA SettledTypes ==
    ASSUME Inv', phase' = "settled"
    PROVE  /\ emitted' \in Seq(Token) /\ next' \in Token
           /\ gdn' \in Content /\ kv' \in [Rows -> Content]
<1>1. (/\ Batch(emitted) /\ gdn = text \o emitted
       /\ next \in Choices(driver, text \o emitted)
       /\ text \in Seq(Token) /\ position = Len(text)
       /\ kv \in [Rows -> Content])'
    BY DEF Inv, Settled, Caller, Working
<1>2. /\ emitted' \in Seq(Token) /\ Len(emitted') \in Nat
      /\ text' \in Seq(Token) /\ Len(text') \in Nat
      /\ Len(text') + Len(emitted') <= Capacity
      /\ next' \in Choices(driver', text' \o emitted')
    BY <1>1, Sizes DEF Batch, Choices
<1>3. /\ text' \o emitted' \in Seq(Token)
      /\ Len(text' \o emitted') = Len(text') + Len(emitted')
    BY <1>2, ConcatProperties
<1>4. Choices(driver', text' \o emitted') \subseteq Token
    BY <1>2, <1>3, TargetReads
<1> QED
    BY <1>1, <1>2, <1>3, <1>4, ContentFacts

LEMMA AcceptAllTyped ==
    ASSUME Inv, Typed, AcceptAll
    PROVE  Typed'
<1>1. /\ phase' = "settled" /\ refresh' = ~OneBuffer
      /\ UNCHANGED <<callerVars, layerVars, snapshot, draftRows, hiddenVars,
                     logitVars, chain, searchVars>>
    BY DEF AcceptAll
<1>2. emitted' \in Seq(Token) /\ next' \in Token
    BY <1>1, AcceptAllKeeps, SettledTypes
<1>3. CallerTypes' /\ LayerTypes' /\ HiddenTypes' /\ LogitTypes'
    BY <1>1 DEF Typed, CallerTypes, LayerTypes, HiddenTypes, LogitTypes
<1>4. refresh' \in BOOLEAN
    BY <1>1
<1>5. StepTypes'
    BY <1>1, <1>2, <1>4 DEF Typed, StepTypes, Phases
<1> QED
    BY <1>3, <1>5 DEF Typed

LEMMA RollbackTyped ==
    ASSUME Inv, Typed, NEW n \in BatchRows, Rollback(n)
    PROVE  Typed'
<1>1. /\ phase' = "settled" /\ refresh' = (~OneBuffer /\ n > 0)
      /\ UNCHANGED <<callerVars, kv, snapshot, draftRows, hiddenVars, logitVars,
                     chain, searchVars>>
    BY DEF Rollback
<1>2. emitted' \in Seq(Token) /\ next' \in Token /\ gdn' \in Content
    BY <1>1, RollbackKeeps, SettledTypes
<1>3. CallerTypes' /\ LayerTypes' /\ HiddenTypes' /\ LogitTypes'
    BY <1>1, <1>2 DEF Typed, CallerTypes, LayerTypes, HiddenTypes, LogitTypes
<1>4. refresh' \in BOOLEAN
    BY <1>1
<1>5. StepTypes'
    BY <1>1, <1>2, <1>4 DEF Typed, StepTypes, Phases
<1> QED
    BY <1>3, <1>5 DEF Typed

LEMMA ReplayAcceptedTyped ==
    ASSUME Inv, Typed, NEW n \in BatchRows, ReplayAccepted(n)
    PROVE  Typed'
<1> DEFINE tokens == ReplayTokens(n)
<1>1. /\ phase' = "settled" /\ Working /\ emitted' = tokens
      /\ Verify(snapshot, tokens)
      /\ rowHidden' = BatchOf(Advance(snapshot, kv, position, tokens),
                              Len(tokens), rowHidden)
      /\ refresh' = (Len(tokens) > 1)
      /\ UNCHANGED <<callerVars, snapshot, draftRows, finalHidden,
                     hiddenSource, logitRow, logitsValid, chain, searchVars>>
    BY DEF ReplayAccepted, Working, Restored
<1> HIDE DEF tokens
<1>2. emitted' \in Seq(Token) /\ next' \in Token
    BY <1>1, ReplayAcceptedKeeps, SettledTypes
<1>3. Batch(tokens)
    BY <1>1, ReplayAcceptedKeeps DEF Inv, Settled, Batch
<1>4. /\ gdn' \in Content /\ kv' \in [Rows -> Content]
      /\ logitRows' \in [BatchRows -> Content]
      /\ \A i \in BatchRows : logitRows'[i] \in Contexts
      /\ rowHidden' \in [BatchRows -> Content]
    BY <1>1, <1>3, WorkingFacts, VerifyTypes
<1>5. CallerTypes' /\ LayerTypes' /\ HiddenTypes' /\ LogitTypes'
    BY <1>1, <1>4 DEF Typed, CallerTypes, LayerTypes, HiddenTypes, LogitTypes
<1>6. refresh' \in BOOLEAN
    BY <1>1
<1>7. StepTypes'
    BY <1>1, <1>2, <1>6 DEF Typed, StepTypes, Phases
<1> QED
    BY <1>5, <1>7 DEF Typed

\* What a settled step hands over.
LEMMA SettledFacts ==
    ASSUME Inv, phase = "settled"
    PROVE  /\ emitted \in Seq(Token) /\ Len(emitted) \in 1 .. MaximumDepth + 1
           /\ Tail(emitted) \in Seq(Token)
           /\ Len(Tail(emitted)) = Len(emitted) - 1
           /\ \A i \in 1 .. Len(emitted) - 1 : Tail(emitted)[i] = emitted[i + 1]
           /\ Batch(emitted)
<1>1. Batch(emitted)
    BY DEF Inv, Settled
<1>2. /\ emitted \in Seq(Token) /\ Len(emitted) \in 1 .. MaximumDepth + 1
      /\ Len(emitted) \in Nat
    BY <1>1, Sizes DEF Batch
<1>3. emitted # << >>
    BY <1>2
<1> QED
    BY <1>1, <1>2, <1>3, HeadTailProperties

LEMMA HandOverTyped ==
    ASSUME Inv, Typed, HandOver
    PROVE  Typed'
<1>1. /\ phase = "settled" /\ phase' = "ready" /\ Working
      /\ draftRows' \in {draftRows,
                         SuccessorRows(draftRows, rowHidden, Tail(emitted))}
      /\ rowHidden' \in {rowHidden, Overwritten(rowHidden, Len(emitted) - 1)}
      /\ hiddenSource' = Len(emitted) /\ logitRow' = Len(emitted) - 1
      /\ logitsValid' = TRUE /\ LeaveStep
      /\ UNCHANGED <<driver, start, layerVars, snapshot, finalHidden, logitRows>>
    BY DEF HandOver, Working, NextHiddenSource, NextLogitRow
<1>2. /\ Len(emitted) \in 1 .. MaximumDepth + 1 /\ Tail(emitted) \in Seq(Token)
      /\ Len(Tail(emitted)) <= MaximumDepth
    BY <1>1, SettledFacts, Sizes
<1>3. draftRows' \in [Rows -> Content] /\ rowHidden' \in [BatchRows -> Content]
    <2>1. /\ draftRows \in [Rows -> Content] /\ position \in Nat
          /\ rowHidden \in [BatchRows -> Content]
        BY <1>1, WorkingFacts
    <2>2. SuccessorRows(draftRows, rowHidden, Tail(emitted))
             \in [Rows -> Content]
        BY <1>2, <2>1, SuccessorRowsType
    <2>3. Overwritten(rowHidden, Len(emitted) - 1) \in [BatchRows -> Content]
        BY <2>1, OverwrittenType
    <2> QED
        BY <1>1, <2>1, <2>2, <2>3
<1>4. (/\ text \in Seq(Token) /\ position = Len(text) /\ position <= Capacity
       /\ pending \in Choices(driver, text))'
    BY <1>1, HandOverKeeps DEF Inv, Caller, Working
<1>5. CallerTypes'
    <2>1. Choices(driver', text') \subseteq Token
        BY <1>4, TargetReads
    <2>2. pending' \in Choices(driver', text')
        BY <1>4 DEF Choices
    <2>3. position' \in 0 .. Capacity
        BY <1>4, Sizes
    <2> QED
        BY <1>1, <1>4, <2>1, <2>2, <2>3 DEF Typed, CallerTypes
<1>6. LayerTypes'
    BY <1>1, <1>3 DEF Typed, LayerTypes
<1>7. HiddenTypes'
    BY <1>1, <1>2, <1>3, ContentFacts DEF Typed, HiddenTypes, LeaveStep
<1>8. LogitTypes'
    BY <1>1, <1>2, Sizes DEF Typed, LogitTypes, BatchRows
<1>9. StepTypes'
    <2>1. << >> \in Seq(Token)
        BY ContentFacts DEF Zeroed
    <2> QED
        BY <1>1, <2>1 DEF Typed, StepTypes, Phases, LeaveStep
<1> QED
    BY <1>5, <1>6, <1>7, <1>8, <1>9 DEF Typed

LEMMA BeginSearchTyped ==
    ASSUME Inv, Typed, BeginSearch
    PROVE  Typed'
<1>1. /\ Working /\ savedHidden' = Hidden /\ snapshot' = gdn
      /\ chain' = << >> /\ phase' = "search"
      /\ roots' \in {{}, Likely(logitRows[logitRow])}
      /\ beam' \in {{}, {<<pending>>}}
      /\ logitsValid' \in {FALSE, logitsValid}
      /\ UNCHANGED <<callerVars, layerVars, draftRows, hiddenVars, logitRows,
                     logitRow, resultVars>>
    BY DEF BeginSearch, Working
<1>2. Likely(logitRows[logitRow]) \subseteq Token
    BY StepAssumption DEF Typed, LogitTypes
<1>3. <<pending>> \in Seq(Token)
    BY <1>1, WorkingFacts
<1>4. CallerTypes' /\ LayerTypes' /\ LogitTypes'
    BY <1>1 DEF Typed, CallerTypes, LayerTypes, LogitTypes
<1>5. HiddenTypes'
    BY <1>1, WorkingFacts DEF Typed, HiddenTypes
<1>6. StepTypes'
    <2>1. << >> \in Seq(Token)
        BY ContentFacts DEF Zeroed
    <2>2. roots' \subseteq Token /\ beam' \subseteq Seq(Token)
        BY <1>1, <1>2, <1>3
    <2> QED
        BY <1>1, <2>1, <2>2 DEF Typed, StepTypes, Phases
<1> QED
    BY <1>4, <1>5, <1>6 DEF Typed

LEMMA LatticeBranchTyped ==
    ASSUME Inv, Typed, NEW root \in Token, NEW drafts \in Chains,
           LatticeBranch(root, drafts)
    PROVE  Typed'
<1> DEFINE path == <<root>> \o drafts
           base == IF chain = << >> THEN gdn ELSE snapshot
<1>1. /\ Working /\ Fits(Len(drafts)) /\ Verify(base, path)
      /\ rowHidden' = BatchOf(Advance(base, kv, position, path), Len(path),
                              rowHidden)
      /\ draftRows' = ChainRows(savedHidden, root, Len(drafts))
      /\ chain' \in {path, chain} /\ roots' \subseteq roots
      /\ finalHidden' = Garbage
      /\ UNCHANGED <<phase, callerVars, snapshot, hiddenSource, logitRow,
                     logitsValid, resultVars, beam, savedHidden>>
    BY DEF LatticeBranch, Working, Restored
<1>2. Batch(path) /\ path \in Seq(Token)
    BY <1>1, ChainOf
<1> HIDE DEF path
<1>3. base \in Content
    BY <1>1, WorkingFacts
<1> HIDE DEF base
<1>4. /\ gdn' \in Content /\ kv' \in [Rows -> Content]
      /\ logitRows' \in [BatchRows -> Content]
      /\ \A i \in BatchRows : logitRows'[i] \in Contexts
      /\ rowHidden' \in [BatchRows -> Content]
    BY <1>1, <1>2, <1>3, VerifyTypes
<1>5. draftRows' \in [Rows -> Content]
    BY <1>1, WorkingFacts, ChainRowsType
<1>6. CallerTypes' /\ LayerTypes' /\ LogitTypes'
    BY <1>1, <1>4, <1>5 DEF Typed, CallerTypes, LayerTypes, LogitTypes
<1>7. HiddenTypes'
    BY <1>1, <1>4, ContentFacts DEF Typed, HiddenTypes
<1>8. StepTypes'
    BY <1>1, <1>2 DEF Typed, StepTypes
<1> QED
    BY <1>6, <1>7, <1>8 DEF Typed

LEMMA ViterbiLevelTyped ==
    ASSUME Inv, Typed, NEW last \in beam, NEW kept \in SUBSET Candidates,
           ViterbiLevel(last, kept)
    PROVE  Typed'
<1>1. /\ phase = "search" /\ phase' = "search" /\ Working
      /\ Verify(snapshot, last)
      /\ rowHidden' = BatchOf(Advance(snapshot, kv, position, last), Len(last),
                              rowHidden)
      /\ beam' = kept
      /\ UNCHANGED <<phase, callerVars, snapshot, draftRows, finalHidden,
                     hiddenSource, logitRow, logitsValid, chain, resultVars,
                     roots, savedHidden>>
    BY DEF ViterbiLevel, Working, Restored
<1>2. Batch(last)
    BY <1>1, SearchFacts
<1>3. /\ gdn' \in Content /\ kv' \in [Rows -> Content]
      /\ logitRows' \in [BatchRows -> Content]
      /\ \A i \in BatchRows : logitRows'[i] \in Contexts
      /\ rowHidden' \in [BatchRows -> Content]
    BY <1>1, <1>2, WorkingFacts, VerifyTypes
<1>4. beam' \subseteq Seq(Token)
    <2>1. (\A node \in beam : Batch(node))'
        BY <1>1, ViterbiLevelKeeps DEF Inv, InSearch, Searching
    <2> QED
        BY <2>1 DEF Batch
<1>5. CallerTypes' /\ LayerTypes' /\ HiddenTypes' /\ LogitTypes'
    BY <1>1, <1>3 DEF Typed, CallerTypes, LayerTypes, HiddenTypes, LogitTypes
<1>6. StepTypes'
    BY <1>1, <1>4 DEF Typed, StepTypes
<1> QED
    BY <1>5, <1>6 DEF Typed

LEMMA CommitPathTyped ==
    ASSUME Inv, Typed, NEW path \in beam \cup {chain}, CommitPath(path)
    PROVE  Typed'
<1>1. /\ phase = "search" /\ phase' = "settled" /\ Working /\ Len(path) > 1
      /\ Verify(snapshot, path)
      /\ rowHidden' = BatchOf(Advance(snapshot, kv, position, path), Len(path),
                              rowHidden)
      /\ draftRows' = FirstRow(savedHidden, path[1])
      /\ finalHidden' = savedHidden /\ refresh' = TRUE
      /\ UNCHANGED <<callerVars, snapshot, hiddenSource, logitRow, logitsValid,
                     chain, searchVars>>
    BY DEF CommitPath, Working, Restored
<1>2. Batch(path)
    BY <1>1, SearchFacts
<1>3. path[1] \in Token
    <2>1. path \in Seq(Token) /\ 1 \in 1 .. Len(path)
        BY <1>2, Sizes DEF Batch
    <2> QED
        BY <2>1, ElementOfSeq
<1>4. emitted' \in Seq(Token) /\ next' \in Token
    BY <1>1, CommitPathKeeps, SettledTypes
<1>5. /\ gdn' \in Content /\ kv' \in [Rows -> Content]
      /\ logitRows' \in [BatchRows -> Content]
      /\ \A i \in BatchRows : logitRows'[i] \in Contexts
      /\ rowHidden' \in [BatchRows -> Content]
    BY <1>1, <1>2, WorkingFacts, VerifyTypes
<1>6. draftRows' \in [Rows -> Content]
    BY <1>1, <1>3, WorkingFacts, FirstRowType
<1>7. CallerTypes' /\ LayerTypes' /\ LogitTypes'
    BY <1>1, <1>5, <1>6 DEF Typed, CallerTypes, LayerTypes, LogitTypes
<1>8. HiddenTypes'
    BY <1>1, <1>5, WorkingFacts DEF Typed, HiddenTypes
<1>9. StepTypes'
    BY <1>1, <1>4 DEF Typed, StepTypes, Phases
<1> QED
    BY <1>7, <1>8, <1>9 DEF Typed

LEMMA StepFailsTyped ==
    ASSUME Typed, StepFails
    PROVE  Typed'
<1>1. /\ gdn' \in {gdn, snapshot, Garbage} /\ phase' = "failed" /\ LeaveStep
      /\ UNCHANGED <<callerVars, kv, snapshot, draftRows, hiddenVars, logitVars>>
    BY DEF StepFails
<1>2. CallerTypes' /\ LayerTypes' /\ LogitTypes'
    BY <1>1, ContentFacts DEF Typed, CallerTypes, LayerTypes, LogitTypes
<1>3. HiddenTypes'
    BY <1>1, ContentFacts DEF Typed, HiddenTypes, LeaveStep
<1>4. StepTypes'
    <2>1. << >> \in Seq(Token)
        BY ContentFacts DEF Zeroed
    <2> QED
        BY <1>1, <2>1 DEF Typed, StepTypes, Phases, LeaveStep
<1> QED
    BY <1>2, <1>3, <1>4 DEF Typed

LEMMA StepTyped ==
    ASSUME Inv, Typed, [Next]_vars
    PROVE  Typed'
<1>1. ASSUME NEW prompt \in Prompts, NewReply(prompt) \/ ContinueReply(prompt)
      PROVE  Typed'
    BY <1>1, NewReplyTyped, ContinueReplyTyped
<1>2. CASE OneChain
    BY <1>2, FusedStepTyped, DraftTyped, VerifyChainTyped DEF OneChain
<1>3. CASE Settle
    BY <1>3, AcceptAllTyped, RollbackTyped, ReplayAcceptedTyped, HandOverTyped
       DEF Settle
<1>4. CASE ManyChains
    BY <1>4, BeginSearchTyped, LatticeBranchTyped, ViterbiLevelTyped,
       CommitPathTyped DEF ManyChains
<1>5. CASE StepFails
    BY <1>5, StepFailsTyped
<1>6. CASE UNCHANGED vars
    BY <1>6 DEF vars, Typed, CallerTypes, LayerTypes, HiddenTypes, LogitTypes,
                StepTypes
<1> QED
    BY <1>1, <1>2, <1>3, <1>4, <1>5, <1>6 DEF Next

\* The types of all variables, and what the step keeps, together.
THEOREM TypedInvariance == Spec => [](Inv /\ Typed)
<1>1. Init => Inv /\ Typed
    BY InitHolds, InitTyped
<1>2. Inv /\ Typed /\ [Next]_vars => (Inv /\ Typed)'
    BY StepKeeps, StepTyped
<1> QED
    BY <1>1, <1>2, PTL DEF Spec

\* TypeOK for every instance.  Not by shape alone: an index may not leave a
\* workspace, and the target is asked only about contexts that fit.
THEOREM TypeCorrect == Spec => []TypeOK
<1>1. Typed => TypeOK
    BY DEF Typed, CallerTypes, LayerTypes, HiddenTypes, LogitTypes, StepTypes,
           TypeOK
<1> QED
    BY <1>1, TypedInvariance, PTL

-----------------------------------------------------------------------------
(* The roots of a lattice.                                                 *)

LEMMA RootsInit ==
    ASSUME Init
    PROVE  RootsOfPending
BY DEF Init, RootsOfPending

LEMMA RootsStep ==
    ASSUME SearchAfter > 0, Inv, RootsOfPending, [Next]_vars
    PROVE  RootsOfPending'
<1>1. ASSUME NEW prompt \in Prompts, NewReply(prompt) \/ ContinueReply(prompt)
      PROVE  RootsOfPending'
    BY <1>1 DEF NewReply, ContinueReply, RootsOfPending
<1>2. CASE OneChain
    BY <1>2 DEF OneChain, FusedStep, Draft, VerifyChain, RootsOfPending
<1>3. CASE Settle
    BY <1>3 DEF Settle, AcceptAll, Rollback, ReplayAccepted, HandOver,
                RootsOfPending
<1>4. CASE BeginSearch
    <2>1. /\ phase = "ready" /\ SearchDue
          /\ driver = "greedy" => roots' = Likely(logitRows[logitRow])
          /\ UNCHANGED <<driver, text>>
        BY <1>4 DEF BeginSearch
    <2>2. position > start
        <3>1. position \in Nat /\ start \in Nat
            BY <2>1, Sizes DEF Inv, Caller, Working
        <3> QED
            BY <2>1, <3>1, StepAssumption DEF SearchDue
    <2>3. logitRows[logitRow] = text
        BY <2>1, <2>2 DEF Inv, AtRest
    <2> QED
        BY <2>1, <2>3 DEF RootsOfPending
<1>5. ASSUME NEW root \in Token, NEW drafts \in Chains,
             LatticeBranch(root, drafts)
      PROVE  RootsOfPending'
    <2>1. chain' # << >>
        BY <1>5 DEF LatticeBranch
    <2> QED
        BY <2>1 DEF RootsOfPending
<1>6. ASSUME NEW last \in beam, NEW kept \in SUBSET Candidates,
             ViterbiLevel(last, kept)
      PROVE  RootsOfPending'
    BY <1>6 DEF ViterbiLevel, RootsOfPending
<1>7. ASSUME NEW path \in beam \cup {chain}, CommitPath(path)
      PROVE  RootsOfPending'
    BY <1>7 DEF CommitPath, RootsOfPending
<1>8. CASE StepFails
    BY <1>8 DEF StepFails, RootsOfPending
<1>9. CASE UNCHANGED vars
    BY <1>9 DEF vars, RootsOfPending
<1> QED
    BY <1>1, <1>2, <1>3, <1>4, <1>5, <1>6, <1>7, <1>8, <1>9
       DEF Next, ManyChains

\* RootsOfPending for every instance in which a search waits for the first
\* token of the reply: the valid flag of the logits survives into the next
\* request, the logits it vouches for do not.
THEOREM RootsCorrect ==
    ASSUME SearchAfter > 0
    PROVE  Spec => []RootsOfPending
<1>1. Init => RootsOfPending
    BY RootsInit
<1>2. Inv /\ Inv' /\ RootsOfPending /\ [Next]_vars => RootsOfPending'
    BY RootsStep
<1> QED
    BY <1>1, <1>2, Invariance, PTL DEF Spec

-----------------------------------------------------------------------------
(* The hidden row the next draft starts from.                              *)

\* A batch from the text leaves the target's own rows.
LEMMA BatchRowsOf ==
    ASSUME Inv, Working, Holds(kv, text), NEW tokens, Batch(tokens), NEW old
    PROVE  \A i \in 0 .. Len(tokens) - 1 :
               BatchOf(Advance(text, kv, position, tokens), Len(tokens), old)[i]
                   = text \o FirstTokens(tokens, i + 1)
<1>1. /\ text \in Seq(Token) /\ position = Len(text) /\ Len(text) \in Nat
      /\ kv \in [Rows -> Content]
    BY Sizes DEF Inv, Caller
<1>2. /\ tokens \in Seq(Token) /\ Len(tokens) \in Nat
      /\ Len(tokens) <= MaximumDepth + 1
      /\ Len(text) + Len(tokens) <= Capacity
    BY <1>1, Sizes DEF Batch
<1>3. /\ text \o tokens \in Seq(Token)
      /\ Len(text \o tokens) = Len(text) + Len(tokens)
    BY <1>1, <1>2, ConcatProperties
<1>4. Advance(text, kv, position, tokens) = text \o tokens
    BY <1>1, <1>2, ForwardExtends
<1> SUFFICES ASSUME NEW i \in 0 .. Len(tokens) - 1
             PROVE  BatchOf(text \o tokens, Len(tokens), old)[i]
                        = text \o FirstTokens(tokens, i + 1)
    BY <1>4
<1>5. /\ i \in BatchRows /\ i < Len(tokens) /\ i + 1 \in 0 .. Len(tokens)
      /\ position + i + 1 = Len(text) + (i + 1)
      /\ position + i + 1 <= Len(text \o tokens)
    BY <1>1, <1>2, <1>3, Sizes DEF BatchRows
<1>6. BatchOf(text \o tokens, Len(tokens), old)[i]
         = RowOf(text \o tokens, position + i + 1)
    BY <1>5 DEF BatchOf
<1>7. RowOf(text \o tokens, position + i + 1)
         = FirstTokens(text \o tokens, Len(text) + (i + 1))
    BY <1>5 DEF RowOf
<1> QED
    BY <1>1, <1>2, <1>5, <1>6, <1>7, FirstOverConcat

HiddenVerified ==
    phase = "verified" =>
        /\ rowHidden[Depth] = text \o chain
        /\ ~ OneBuffer => \A i \in 0 .. Len(chain) - 1 :
                              rowHidden[i] = text \o FirstTokens(chain, i + 1)

HiddenSettled ==
    phase = "settled" =>
        /\ rowHidden[Len(emitted) - 1] = text \o emitted
        /\ refresh => \A i \in 0 .. Len(emitted) - 1 :
                          rowHidden[i] = text \o FirstTokens(emitted, i + 1)

\* Where the target's hidden row is in each phase.
HiddenInv ==
    /\ HiddenOfTarget
    /\ HiddenVerified
    /\ HiddenSettled
    /\ phase = "search" => savedHidden = text

\* A batch verified from the text and handed out as it is.
LEMMA HiddenOfBatch ==
    ASSUME Inv, Working, Holds(kv, text), NEW tokens, Batch(tokens),
           rowHidden' = BatchOf(Advance(text, kv, position, tokens),
                                Len(tokens), rowHidden),
           UNCHANGED text
    PROVE  /\ \A i \in 0 .. Len(tokens) - 1 :
                  rowHidden'[i] = text' \o FirstTokens(tokens, i + 1)
           /\ rowHidden'[Len(tokens) - 1] = text' \o tokens
<1>1. \A i \in 0 .. Len(tokens) - 1 :
          rowHidden'[i] = text' \o FirstTokens(tokens, i + 1)
    BY BatchRowsOf
<1>2. /\ tokens \in Seq(Token) /\ Len(tokens) - 1 \in 0 .. Len(tokens) - 1
      /\ (Len(tokens) - 1) + 1 = Len(tokens)
    BY Sizes DEF Batch
<1>3. rowHidden'[Len(tokens) - 1] = text' \o FirstTokens(tokens, Len(tokens))
    BY <1>1, <1>2
<1>4. FirstTokens(tokens, Len(tokens)) = tokens
    BY <1>2, LastRow
<1> QED
    BY <1>1, <1>3, <1>4

LEMMA ContinueReplyHidden ==
    ASSUME Inv, NEW tokens \in Prompts, ContinueReply(tokens)
    PROVE  HiddenInv'
<1>1. /\ tokens \in Seq(Token) /\ Len(tokens) \in Nat
      /\ text \in Seq(Token) /\ Len(text) \in Nat
      /\ Len(text) + Len(tokens) <= Capacity
      /\ position = Len(text) /\ gdn = text /\ Holds(kv, text)
      /\ kv \in [Rows -> Content]
    BY StepAssumption, Sizes DEF ContinueReply, Inv, Caller, Working, AtRest
<1>2. Advance(gdn, kv, position, tokens) = text \o tokens
    BY <1>1, ForwardExtends
<1>3. /\ finalHidden' = text \o tokens /\ text' = text \o tokens
      /\ hiddenSource' = 0 /\ phase' = "ready"
    BY <1>2 DEF ContinueReply
<1> QED
    BY <1>3 DEF HiddenInv, HiddenOfTarget, Hidden, HiddenVerified, HiddenSettled

LEMMA FusedStepHidden ==
    ASSUME Inv, NEW drafts \in Chains, NEW looked \in BOOLEAN,
           FusedStep(Len(drafts), drafts, looked)
    PROVE  HiddenInv'
<1> DEFINE tokens == <<pending>> \o drafts
           depth == Len(drafts)
           hiddens == BatchOf(Advance(text, kv, position, tokens), depth + 1,
                              rowHidden)
<1>1. /\ gdn = text /\ Working /\ Holds(kv, text)
      /\ text \in Seq(Token) /\ position = Len(text) /\ position \in Nat
      /\ position <= Capacity /\ pending \in Choices(driver, text)
    BY Sizes DEF FusedStep, Inv, Caller, Working, AtRest
<1>2. pending \in Token
    BY <1>1, TargetReads
<1>3. /\ Fits(depth) /\ chain' = tokens /\ phase' = "verified"
      /\ rowHidden' = Overwritten(hiddens, depth)
      /\ driver' = "greedy" /\ Fused /\ text' = text
    BY <1>1 DEF FusedStep
<1>4. Batch(tokens) /\ Len(tokens) = depth + 1
    BY <1>1, <1>2, <1>3, PathOf
<1> HIDE DEF tokens
<1>5. tokens \in Seq(Token) /\ depth \in 0 .. MaximumDepth /\ depth \in BatchRows
      /\ depth \in 0 .. Len(tokens) - 1
    <2>1. tokens \in Seq(Token) /\ Len(tokens) \in 1 .. MaximumDepth + 1
        BY <1>4 DEF Batch
    <2>2. depth = Len(tokens) - 1
        <3>1. depth \in Nat
            BY StepAssumption, LenProperties, IsASeq DEF Chains, Depths
        <3> QED
            BY <1>4, <2>1, <3>1
    <2> QED
        BY <2>1, <2>2, Sizes DEF BatchRows
<1>6. hiddens[depth] = text \o tokens
    <2>1. hiddens[depth] = text \o FirstTokens(tokens, depth + 1)
        BY <1>1, <1>4, <1>5, BatchRowsOf
    <2> QED
        BY <1>4, <1>5, <2>1, LastRow
<1> HIDE DEF hiddens
<1>7. rowHidden'[depth] = text \o tokens
    BY <1>3, <1>5, <1>6 DEF Overwritten
<1>8. Depth' = depth
    BY <1>3, <1>4, <1>5 DEF Depth
<1> QED
    BY <1>3, <1>7, <1>8
       DEF HiddenInv, HiddenOfTarget, HiddenVerified, HiddenSettled, OneBuffer

LEMMA VerifyChainHidden ==
    ASSUME Inv, VerifyChain
    PROVE  HiddenInv'
<1>1. /\ gdn = text /\ Working /\ Holds(kv, text) /\ Batch(chain)
    BY DEF VerifyChain, Inv, Working, Drafted
<1>2. /\ rowHidden' = BatchOf(Advance(text, kv, position, chain), Len(chain),
                              rowHidden)
      /\ phase' = "verified" /\ UNCHANGED <<text, chain>>
    BY <1>1 DEF VerifyChain
<1>3. /\ \A i \in 0 .. Len(chain) - 1 :
             rowHidden'[i] = text' \o FirstTokens(chain, i + 1)
      /\ rowHidden'[Len(chain) - 1] = text' \o chain
    BY <1>1, <1>2, HiddenOfBatch
<1> QED
    BY <1>2, <1>3
       DEF HiddenInv, HiddenOfTarget, HiddenVerified, HiddenSettled, Depth

LEMMA AcceptAllHidden ==
    ASSUME HiddenInv, AcceptAll
    PROVE  HiddenInv'
BY DEF AcceptAll, HiddenInv, HiddenOfTarget, HiddenVerified, HiddenSettled,
       Depth

\* The fused step never reaches this: its rejected drafts are replayed.
LEMMA RollbackHidden ==
    ASSUME RepairReplays, Inv, HiddenInv, NEW n \in BatchRows, Rollback(n)
    PROVE  HiddenInv'
<1> DEFINE kept == FirstTokens(chain, n + 1)
<1>1. /\ phase = "verified" /\ phase' = "settled" /\ driver \notin Replay
      /\ n < Depth /\ emitted' = kept
      /\ UNCHANGED <<text, rowHidden>>
    BY DEF Rollback
<1>2. ~ OneBuffer
    BY <1>1 DEF RepairReplays, OneBuffer
<1>3. \A i \in 0 .. Len(chain) - 1 :
          rowHidden[i] = text \o FirstTokens(chain, i + 1)
    BY <1>1, <1>2 DEF HiddenInv, HiddenVerified
<1>4. /\ n \in Nat /\ chain \in Seq(Token) /\ n + 1 \in 0 .. Len(chain)
      /\ Len(chain) \in Nat /\ n \in 0 .. Len(chain) - 1
    BY <1>1, VerifiedFacts, Sizes DEF BatchRows
<1>5. Len(kept) = n + 1
    BY <1>4, FirstTokensFacts
<1>6. ASSUME NEW i \in 0 .. n
      PROVE  rowHidden'[i] = text' \o FirstTokens(kept, i + 1)
    <2>1. i + 1 \in 1 .. n + 1 /\ i \in 0 .. Len(chain) - 1
        BY <1>4
    <2>2. FirstTokens(kept, i + 1) = FirstTokens(chain, i + 1)
        BY <1>4, <2>1, FirstOfFirst
    <2> QED
        BY <1>1, <1>3, <2>1, <2>2
<1>7. rowHidden'[n] = text' \o kept
    BY <1>1, <1>3, <1>4
<1> HIDE DEF kept
<1>8. Len(kept) - 1 = n
    BY <1>4, <1>5
<1> QED
    BY <1>1, <1>6, <1>7, <1>8
       DEF HiddenInv, HiddenOfTarget, HiddenVerified, HiddenSettled

LEMMA ReplayAcceptedHidden ==
    ASSUME Inv, NEW n \in BatchRows, ReplayAccepted(n)
    PROVE  HiddenInv'
<1> DEFINE tokens == ReplayTokens(n)
<1>1. /\ phase = "verified" /\ phase' = "settled" /\ emitted' = tokens
      /\ rowHidden' = BatchOf(Advance(snapshot, kv, position, tokens),
                              Len(tokens), rowHidden)
      /\ Working /\ n < Depth /\ UNCHANGED <<text, position>>
    BY DEF ReplayAccepted, Working, Restored
<1> HIDE DEF tokens
<1>2. Batch(tokens)
    BY <1>1, ReplayAcceptedKeeps DEF Inv, Settled, Batch
<1>3. snapshot = text /\ Holds(kv, text)
    <2>1. n \in 0 .. Depth
        BY <1>1, VerifiedFacts, Sizes DEF BatchRows
    <2> QED
        BY <1>1, <2>1, VerifiedFacts, KeptPrefix
<1>4. /\ \A i \in 0 .. Len(tokens) - 1 :
             rowHidden'[i] = text' \o FirstTokens(tokens, i + 1)
      /\ rowHidden'[Len(tokens) - 1] = text' \o tokens
    BY <1>1, <1>2, <1>3, HiddenOfBatch
<1> QED
    BY <1>1, <1>4
       DEF HiddenInv, HiddenOfTarget, HiddenVerified, HiddenSettled

LEMMA HandOverHidden ==
    ASSUME Inv, HiddenInv, HandOver
    PROVE  HiddenInv'
<1> DEFINE last == Len(emitted) - 1
<1>1. /\ phase = "settled" /\ phase' = "ready" /\ text' = text \o emitted
      /\ hiddenSource' = Len(emitted)
      /\ rowHidden' = IF refresh THEN Overwritten(rowHidden, last) ELSE rowHidden
    BY DEF HandOver, NextHiddenSource
<1>2. Len(emitted) # 0 /\ last \in BatchRows
    BY <1>1, SettledFacts, Sizes DEF BatchRows
<1>3. rowHidden[last] = text \o emitted
    BY <1>1 DEF HiddenInv, HiddenSettled
<1>4. rowHidden'[last] = rowHidden[last]
    <2>1. last \in Nat /\ ~ (last < last)
        BY <1>2, Sizes DEF BatchRows
    <2> HIDE DEF last
    <2> QED
        BY <1>1, <1>2, <2>1 DEF Overwritten
<1>5. Hidden' = text'
    BY <1>1, <1>2, <1>3, <1>4 DEF Hidden
<1> QED
    BY <1>1, <1>5
       DEF HiddenInv, HiddenOfTarget, HiddenVerified, HiddenSettled

LEMMA CommitPathHidden ==
    ASSUME Inv, NEW path \in beam \cup {chain}, CommitPath(path)
    PROVE  HiddenInv'
<1>1. /\ phase = "search" /\ phase' = "settled" /\ emitted' = path
      /\ rowHidden' = BatchOf(Advance(snapshot, kv, position, path), Len(path),
                              rowHidden)
      /\ Len(path) > 1 /\ Working /\ UNCHANGED <<text, position>>
    BY DEF CommitPath, Working, Restored
<1>2. path # << >>
    BY <1>1
<1>3. Batch(path) /\ snapshot = text /\ Holds(kv, text)
    BY <1>1, <1>2, SearchFacts
<1>4. /\ \A i \in 0 .. Len(path) - 1 :
             rowHidden'[i] = text' \o FirstTokens(path, i + 1)
      /\ rowHidden'[Len(path) - 1] = text' \o path
    BY <1>1, <1>3, HiddenOfBatch
<1> QED
    BY <1>1, <1>4
       DEF HiddenInv, HiddenOfTarget, HiddenVerified, HiddenSettled

LEMMA HiddenStep ==
    ASSUME RepairReplays, Inv, HiddenInv, [Next]_vars
    PROVE  HiddenInv'
<1> USE DEF HiddenInv, HiddenOfTarget, HiddenVerified, HiddenSettled
<1>1. ASSUME NEW prompt \in Prompts, NewReply(prompt)
      PROVE  HiddenInv'
    BY <1>1 DEF NewReply, Hidden
<1>2. ASSUME NEW prompt \in Prompts, ContinueReply(prompt)
      PROVE  HiddenInv'
    BY <1>2, ContinueReplyHidden
<1>3. ASSUME NEW drafts \in Chains, Draft(Len(drafts), drafts)
      PROVE  HiddenInv'
    BY <1>3 DEF Draft
<1>4. CASE OneChain
    BY <1>3, <1>4, FusedStepHidden, VerifyChainHidden DEF OneChain
<1>5. CASE Settle
    BY <1>5, AcceptAllHidden, RollbackHidden, ReplayAcceptedHidden,
       HandOverHidden DEF Settle
<1>6. CASE BeginSearch
    BY <1>6 DEF BeginSearch
<1>7. ASSUME NEW root \in Token, NEW drafts \in Chains,
             LatticeBranch(root, drafts)
      PROVE  HiddenInv'
    BY <1>7 DEF LatticeBranch
<1>8. ASSUME NEW last \in beam, NEW kept \in SUBSET Candidates,
             ViterbiLevel(last, kept)
      PROVE  HiddenInv'
    BY <1>8 DEF ViterbiLevel
<1>9. CASE ManyChains
    BY <1>6, <1>7, <1>8, <1>9, CommitPathHidden DEF ManyChains
<1>10. CASE StepFails
    BY <1>10 DEF StepFails
<1>11. CASE UNCHANGED vars
    BY <1>11 DEF vars, Hidden, OneBuffer, Depth
<1> QED
    BY <1>1, <1>2, <1>4, <1>5, <1>9, <1>10, <1>11 DEF Next

\* HiddenOfTarget for every instance whose fused step replays what it
\* accepts: the next draft starts from the target's hidden after the last
\* token handed out.
THEOREM HiddenCorrect ==
    ASSUME RepairReplays
    PROVE  Spec => []HiddenOfTarget
<1>1. Init => HiddenInv
    BY DEF Init, HiddenInv, HiddenOfTarget, HiddenVerified, HiddenSettled
<1>2. Inv /\ HiddenInv /\ [Next]_vars => HiddenInv'
    BY HiddenStep
<1>3. HiddenInv => HiddenOfTarget
    BY DEF HiddenInv
<1> QED
    BY <1>1, <1>2, <1>3, Invariance, PTL DEF Spec

-----------------------------------------------------------------------------
(* The rows of the draft layer.                                            *)

RowsOfText ==
    Working => \A i \in start + 1 .. position : draftRows[i] = FirstTokens(text, i)

RowsDrafted ==
    phase \in {"drafted", "verified"} =>
        draftRows[position + 1] = text \o FirstTokens(chain, 1)

RowsVerified ==
    phase = "verified" /\ OneBuffer =>
        \A i \in 1 .. Len(chain) :
            draftRows[position + i] = text \o FirstTokens(chain, i)

RowsSettled ==
    phase = "settled" =>
        /\ draftRows[position + 1] = text \o FirstTokens(emitted, 1)
        /\ ~ refresh => \A i \in 1 .. Len(emitted) :
                            draftRows[position + i] = text \o FirstTokens(emitted, i)

\* Which draft rows are right in each phase.
DraftInv ==
    /\ RowsOfText
    /\ RowsDrafted
    /\ RowsVerified
    /\ RowsSettled
    /\ phase = "drafted" => ~ OneBuffer

\* A row fused with the target's own hidden is the next one of the text.
LEMMA PairOfText ==
    ASSUME NEW s \in Seq(Token), NEW tokens \in Seq(Token),
           NEW i \in 0 .. Len(tokens) - 1
    PROVE  Pair(s \o FirstTokens(tokens, i), tokens[i + 1])
               = s \o FirstTokens(tokens, i + 1)
<1> DEFINE head == FirstTokens(tokens, i)
           more == FirstTokens(tokens, i + 1)
           before == s \o head
           token == tokens[i + 1]
           left == Append(before, token)
           right == s \o more
<1>1. /\ Len(s) \in Nat /\ Len(tokens) \in Nat /\ i \in Nat
      /\ i \in 0 .. Len(tokens) /\ i + 1 \in 0 .. Len(tokens)
      /\ i + 1 \in 1 .. Len(tokens)
    BY Sizes
<1>2. /\ head \in Seq(Token) /\ Len(head) = i
      /\ \A k \in 1 .. i : head[k] = tokens[k]
      /\ more \in Seq(Token) /\ Len(more) = i + 1
      /\ \A k \in 1 .. i + 1 : more[k] = tokens[k]
    BY <1>1, FirstTokensFacts
<1>3. token \in Token
    BY <1>1, ElementOfSeq
<1> HIDE DEF head, more
<1>4. /\ before \in Seq(Token) /\ Len(before) = Len(s) + i
      /\ \A k \in 1 .. Len(s) + i :
             before[k] = IF k <= Len(s) THEN s[k] ELSE head[k - Len(s)]
    BY <1>2, ConcatProperties
<1>5. /\ right \in Seq(Token) /\ Len(right) = Len(s) + (i + 1)
      /\ \A k \in 1 .. Len(s) + (i + 1) :
             right[k] = IF k <= Len(s) THEN s[k] ELSE more[k - Len(s)]
    <2>1. /\ right \in Seq(Token) /\ Len(right) = Len(s) + Len(more)
          /\ \A k \in 1 .. Len(s) + Len(more) :
                 right[k] = IF k <= Len(s) THEN s[k] ELSE more[k - Len(s)]
        BY <1>2, ConcatProperties
    <2> QED
        BY <1>2, <2>1
<1> HIDE DEF before, token
<1>6. /\ left \in Seq(Token) /\ Len(left) = Len(s) + i + 1
      /\ \A k \in 1 .. Len(s) + i : left[k] = before[k]
      /\ left[Len(s) + i + 1] = token
    <2>1. /\ left \in Seq(Token) /\ Len(left) = Len(before) + 1
          /\ \A k \in 1 .. Len(before) : left[k] = before[k]
          /\ left[Len(before) + 1] = token
        BY <1>3, <1>4, AppendProperties
    <2> HIDE DEF left
    <2> QED
        BY <1>1, <1>4, <2>1
<1> HIDE DEF left, right
<1>7. ASSUME NEW k \in 1 .. Len(s) + i + 1
      PROVE  left[k] = right[k]
    <2>1. CASE k <= Len(s)
        <3>1. k \in 1 .. Len(s) + i /\ k \in 1 .. Len(s) + (i + 1)
            BY <1>1, <2>1
        <3> QED
            BY <1>4, <1>5, <1>6, <2>1, <3>1
    <2>2. CASE k > Len(s) /\ k <= Len(s) + i
        <3>1. k - Len(s) \in 1 .. i /\ k - Len(s) \in 1 .. i + 1
            BY <1>1, <2>2
        <3>2. head[k - Len(s)] = more[k - Len(s)]
            BY <1>2, <3>1
        <3> QED
            BY <1>1, <1>4, <1>5, <1>6, <2>2, <3>2
    <2>3. CASE k = Len(s) + i + 1
        <3>1. k - Len(s) = i + 1 /\ i + 1 \in 1 .. i + 1
            BY <1>1, <2>3
        <3>2. more[k - Len(s)] = token
            BY <1>2, <3>1 DEF token
        <3> QED
            BY <1>1, <1>5, <1>6, <2>3, <3>2
    <2> QED
        BY <1>1, <2>1, <2>2, <2>3
<1>8. left = right
    <2>1. Len(left) = Len(right) /\ Len(left) = Len(s) + i + 1
        BY <1>1, <1>5, <1>6
    <2>2. \A k \in 1 .. Len(left) : left[k] = right[k]
        BY <1>7, <2>1
    <2> QED
        BY <1>5, <1>6, <2>1, <2>2, SeqEqual
<1>9. before # Garbage
    <2> SUFFICES ASSUME before = Garbage
                 PROVE  FALSE
        OBVIOUS
    <2>1. Len(before) = 1 /\ before[1] = Bad
        BY DEF Garbage
    <2>2. before[1] \in Token
        <3>1. 1 \in 1 .. Len(before)
            BY <2>1
        <3> QED
            BY <1>4, <3>1, ElementOfSeq
    <2> QED
        BY <2>1, <2>2, LayerAssumption
<1> QED
    BY <1>8, <1>9 DEF Pair, left, right, before, token, head, more

\* What a batched pass needs to write the rows of the text: the successors
\* of the root, the target's hidden before each, and the row of the root.
Refreshable(tokens, rest, under, hiddens) ==
    /\ Batch(tokens)
    /\ Len(rest) = Len(tokens) - 1
    /\ \A i \in 1 .. Len(rest) : rest[i] = tokens[i + 1]
    /\ \A i \in 0 .. Len(tokens) - 2 :
           hiddens[i] = text \o FirstTokens(tokens, i + 1)
    /\ under[position + 1] = text \o FirstTokens(tokens, 1)

\* The rows after the position are those of the text and these tokens.
RowsAre(rows, tokens) ==
    \A i \in 1 .. Len(tokens) : rows[position + i] = text \o FirstTokens(tokens, i)

SameBelow(rows, under) == \A i \in 1 .. position : rows[i] = under[i]

\* The batched pass over the successors, under the target's hiddens, makes
\* the rows those of the text and leaves what is below alone.
LEMMA RefreshedRows ==
    ASSUME text \in Seq(Token), position = Len(text),
           NEW tokens, NEW rest, NEW under, NEW hiddens,
           Refreshable(tokens, rest, under, hiddens)
    PROVE  /\ RowsAre(SuccessorRows(under, hiddens, rest), tokens)
           /\ SameBelow(SuccessorRows(under, hiddens, rest), under)
<1> DEFINE rows == SuccessorRows(under, hiddens, rest)
<1> USE DEF Refreshable
<1>1. /\ tokens \in Seq(Token) /\ Len(tokens) \in Nat /\ Len(tokens) >= 1
      /\ position \in Nat /\ position + Len(tokens) <= Capacity
      /\ Capacity \in Nat /\ Len(rest) \in Nat
    BY Sizes DEF Batch
<1>2. ASSUME NEW i \in 2 .. Len(tokens)
      PROVE  rows[position + i] = text \o FirstTokens(tokens, i)
    <2>1. /\ position + i \in Rows
          /\ position + i \in (position + 2) .. (position + 1 + Len(rest))
          /\ (position + i) - position - 2 = i - 2
          /\ (position + i) - position - 1 = i - 1
          /\ i - 2 \in 0 .. Len(tokens) - 2 /\ (i - 2) + 1 = i - 1
          /\ i - 1 \in 1 .. Len(rest) /\ (i - 1) + 1 = i
          /\ i - 1 \in 0 .. Len(tokens) - 1
        BY <1>1 DEF Rows
    <2>2. rows[position + i] = Pair(hiddens[i - 2], rest[i - 1])
        BY <2>1 DEF SuccessorRows
    <2>3. hiddens[i - 2] = text \o FirstTokens(tokens, i - 1)
        BY <2>1
    <2>4. rest[i - 1] = tokens[i]
        BY <2>1
    <2>5. Pair(text \o FirstTokens(tokens, i - 1), tokens[i])
             = text \o FirstTokens(tokens, i)
        BY <1>1, <2>1, PairOfText
    <2> QED
        BY <2>2, <2>3, <2>4, <2>5
<1>3. ASSUME NEW i \in 1 .. position + 1
      PROVE  rows[i] = under[i]
    <2>1. i \in Rows /\ i \notin (position + 2) .. (position + 1 + Len(rest))
        BY <1>1 DEF Rows
    <2> QED
        BY <2>1 DEF SuccessorRows
<1>4. rows[position + 1] = text \o FirstTokens(tokens, 1)
    <2>1. position + 1 \in 1 .. position + 1
        BY <1>1
    <2> QED
        BY <1>3, <2>1
<1>5. ASSUME NEW i \in 1 .. Len(tokens)
      PROVE  rows[position + i] = text \o FirstTokens(tokens, i)
    <2>1. i = 1 \/ i \in 2 .. Len(tokens)
        BY <1>1
    <2> QED
        BY <1>2, <1>4, <2>1
<1>6. \A i \in 1 .. position : rows[i] = under[i]
    BY <1>1, <1>3
<1> QED
    BY <1>5, <1>6 DEF RowsAre, SameBelow

\* The row of the root, fused with the target's hidden.
LEMMA RootRow ==
    ASSUME text \in Seq(Token), NEW tokens \in Seq(Token), Len(tokens) >= 1
    PROVE  Pair(text, tokens[1]) = text \o FirstTokens(tokens, 1)
<1>1. Len(tokens) \in Nat
    BY Sizes
<1>2. 0 \in 0 .. Len(tokens) - 1 /\ 0 + 1 = 1
    BY <1>1
<1>3. Pair(text \o FirstTokens(tokens, 0), tokens[1])
         = text \o FirstTokens(tokens, 1)
    BY <1>2, PairOfText
<1> QED
    BY <1>3, EmptyPrefix

\* A drafted chain writes the row of its root and nothing below it.
LEMMA DraftedRows ==
    ASSUME Inv, Typed, Working, NEW tokens, Batch(tokens), NEW depth
    PROVE  LET rows == ChainRows(text, tokens[1], depth)
           IN  /\ rows[position + 1] = text \o FirstTokens(tokens, 1)
               /\ \A i \in 1 .. position : rows[i] = draftRows[i]
<1> DEFINE rows == ChainRows(text, tokens[1], depth)
<1>1. /\ tokens \in Seq(Token) /\ Len(tokens) >= 1 /\ Len(tokens) \in Nat
      /\ text \in Seq(Token) /\ position \in Nat
      /\ position + Len(tokens) <= Capacity /\ Capacity \in Nat
    BY WorkingFacts, Sizes DEF Batch
<1>2. position + 1 \in Rows
    BY <1>1 DEF Rows
<1>3. rows[position + 1] = Pair(text, tokens[1])
    BY <1>2 DEF ChainRows
<1>4. ASSUME NEW i \in 1 .. position
      PROVE  rows[i] = draftRows[i]
    <2>1. /\ i \in Rows /\ i # position + 1
          /\ i \notin (position + 2) .. (position + depth)
        BY <1>1 DEF Rows
    <2> QED
        BY <2>1 DEF ChainRows
<1> QED
    BY <1>1, <1>3, <1>4, RootRow

\* The rows of the reply stay when nothing below the position is written.
LEMMA RowsOfTextKept ==
    ASSUME Inv, Typed, Working, RowsOfText, UNCHANGED <<text, start, position>>,
           \A i \in 1 .. position : draftRows'[i] = draftRows[i]
    PROVE  RowsOfText'
<1>1. position \in Nat /\ start \in Nat
    BY WorkingFacts
<1>2. \A i \in start + 1 .. position : i \in 1 .. position
    BY <1>1
<1> QED
    BY <1>2 DEF RowsOfText

LEMMA NothingBetween == \A n \in Nat : n + 1 .. n = {}
OBVIOUS

LEMMA NewRequestRows ==
    ASSUME Inv, NEW prompt \in Prompts, NewReply(prompt) \/ ContinueReply(prompt)
    PROVE  DraftInv'
<1>1. phase' = "ready" /\ start' = position' /\ Inv'
    BY NewReplyKeeps, ContinueReplyKeeps DEF NewReply, ContinueReply
<1>2. position' \in Nat
    <2>1. (text \in Seq(Token) /\ position = Len(text))'
        BY <1>1 DEF Inv, Caller, Working
    <2> QED
        BY <2>1, Sizes
<1>3. start' + 1 .. position' = {}
    BY <1>1, <1>2, NothingBetween
<1> QED
    BY <1>1, <1>3
       DEF DraftInv, RowsOfText, RowsDrafted, RowsVerified, RowsSettled

LEMMA FusedStepRows ==
    ASSUME ~ Lookup, Inv, Typed, HiddenInv, DraftInv,
           NEW drafts \in Chains, NEW looked \in BOOLEAN,
           FusedStep(Len(drafts), drafts, looked)
    PROVE  DraftInv'
<1> DEFINE tokens == <<pending>> \o drafts
           depth == Len(drafts)
           hiddens == BatchOf(Advance(text, kv, position, tokens), depth + 1,
                              rowHidden)
           under == ChainRows(text, pending, depth)
<1>1. /\ phase = "ready" /\ phase' = "verified" /\ Working
      /\ gdn = text /\ Hidden = text /\ Holds(kv, text)
      /\ Fits(depth) /\ ~ looked /\ chain' = tokens
      /\ UNCHANGED <<text, start, position>>
    BY DEF FusedStep, Working, Inv, AtRest, HiddenInv, HiddenOfTarget
<1>2. draftRows' = SuccessorRows(under, hiddens, drafts)
    BY <1>1 DEF FusedStep
<1>3. /\ text \in Seq(Token) /\ position = Len(text) /\ position \in Nat
      /\ pending \in Token /\ draftRows \in [Rows -> Content]
      /\ text \in Content
    BY <1>1, WorkingFacts, ContentFacts
<1>4. /\ Batch(tokens) /\ Len(tokens) = depth + 1 /\ tokens[1] = pending
      /\ Tail(tokens) = drafts /\ tokens \in Seq(Token) /\ depth \in Nat
    <2>1. drafts \in Seq(Token)
        BY <1>1, <1>3, ChainOf
    <2> QED
        BY <1>1, <1>3, <2>1, ChainOf, PathOf, Sizes
<1> HIDE DEF tokens
<1>5. \A i \in 1 .. depth : drafts[i] = tokens[i + 1]
    <2>1. tokens # << >>
        BY <1>4
    <2> QED
        BY <1>4, <2>1, HeadTailProperties
<1>6. under \in [Rows -> Content]
    BY <1>3, ChainRowsType
<1>7. /\ under[position + 1] = text \o FirstTokens(tokens, 1)
      /\ \A i \in 1 .. position : under[i] = draftRows[i]
    BY <1>1, <1>4, DraftedRows
<1>8. \A i \in 0 .. Len(tokens) - 2 :
          hiddens[i] = text \o FirstTokens(tokens, i + 1)
    <2>1. \A i \in 0 .. Len(tokens) - 1 :
              hiddens[i] = text \o FirstTokens(tokens, i + 1)
        BY <1>1, <1>4, BatchRowsOf
    <2> HIDE DEF hiddens
    <2>2. Len(tokens) \in Nat
        BY <1>4
    <2>3. \A i \in 0 .. Len(tokens) - 2 : i \in 0 .. Len(tokens) - 1
        BY ONLY <2>2
    <2> QED
        BY ONLY <2>1, <2>3
<1> HIDE DEF under, hiddens
<1>9. /\ \A i \in 1 .. Len(tokens) :
             draftRows'[position + i] = text \o FirstTokens(tokens, i)
      /\ \A i \in 1 .. position : draftRows'[i] = under[i]
    <2>1. Len(drafts) = Len(tokens) - 1
        BY <1>4
    <2>2. Refreshable(tokens, drafts, under, hiddens)
        BY <1>4, <1>5, <1>7, <1>8, <2>1 DEF Refreshable
    <2>3. RowsAre(draftRows', tokens) /\ SameBelow(draftRows', under)
        BY <1>2, <1>3, <2>2, RefreshedRows
    <2> QED
        BY <2>3 DEF RowsAre, SameBelow
<1>10. RowsOfText'
    BY <1>1, <1>7, <1>9, RowsOfTextKept DEF DraftInv
<1>11. draftRows'[position + 1] = text \o FirstTokens(tokens, 1)
    BY <1>4, <1>9
<1>12. RowsDrafted' /\ RowsVerified' /\ RowsSettled'
    BY <1>1, <1>9, <1>11 DEF RowsDrafted, RowsVerified, RowsSettled
<1> QED
    BY <1>1, <1>10, <1>12 DEF DraftInv

LEMMA DraftRowsDrafted ==
    ASSUME Inv, Typed, HiddenInv, DraftInv,
           NEW drafts \in Chains, Draft(Len(drafts), drafts)
    PROVE  DraftInv'
<1> DEFINE tokens == <<pending>> \o drafts
<1>1. /\ phase' = "drafted" /\ Working /\ Hidden = text
      /\ Fits(Len(drafts)) /\ chain' = tokens
      /\ draftRows' = ChainRows(text, pending, Len(drafts))
      /\ UNCHANGED <<text, start, position>>
    BY DEF Draft, Working, HiddenInv, HiddenOfTarget
<1>2. Batch(tokens) /\ tokens[1] = pending
    BY <1>1, WorkingFacts, PathOf
<1> HIDE DEF tokens
<1>3. /\ draftRows'[position + 1] = text \o FirstTokens(tokens, 1)
      /\ \A i \in 1 .. position : draftRows'[i] = draftRows[i]
    BY <1>1, <1>2, DraftedRows
<1>4. RowsOfText'
    BY <1>1, <1>3, RowsOfTextKept DEF DraftInv
<1>5. ~ OneBuffer'
    BY DEF Draft, OneBuffer
<1> QED
    BY <1>1, <1>3, <1>4, <1>5
       DEF DraftInv, RowsDrafted, RowsVerified, RowsSettled

\* Verifying one pass at a time touches no draft row.
LEMMA VerifyChainRows ==
    ASSUME DraftInv, VerifyChain
    PROVE  DraftInv'
<1>1. /\ phase = "drafted" /\ phase' = "verified"
      /\ UNCHANGED <<driver, text, start, position, chain, draftRows>>
    BY DEF VerifyChain
<1>2. ~ OneBuffer'
    BY <1>1 DEF DraftInv, OneBuffer
<1> QED
    BY <1>1, <1>2 DEF DraftInv, RowsOfText, Working, RowsDrafted, RowsVerified,
                RowsSettled

LEMMA AcceptAllRows ==
    ASSUME DraftInv, AcceptAll
    PROVE  DraftInv'
<1>1. /\ phase = "verified" /\ phase' = "settled" /\ emitted' = chain
      /\ refresh' = ~ OneBuffer
      /\ UNCHANGED <<text, start, position, draftRows>>
    BY DEF AcceptAll
<1> QED
    BY <1>1 DEF DraftInv, RowsOfText, Working, RowsDrafted, RowsVerified,
                RowsSettled

\* The first token of an accepted prefix is the chain's.
LEMMA SameRoot ==
    ASSUME NEW tokens \in Seq(Token), NEW n \in 0 .. Len(tokens) - 1
    PROVE  FirstTokens(FirstTokens(tokens, n + 1), 1) = FirstTokens(tokens, 1)
<1>1. n + 1 \in 0 .. Len(tokens) /\ 1 \in 1 .. n + 1
    BY Sizes
<1> QED
    BY <1>1, FirstOfFirst

LEMMA RollbackRows ==
    ASSUME RepairReplays, Inv, DraftInv, NEW n \in BatchRows, Rollback(n)
    PROVE  DraftInv'
<1> DEFINE kept == FirstTokens(chain, n + 1)
<1>1. /\ phase = "verified" /\ phase' = "settled" /\ driver \notin Replay
      /\ n < Depth /\ emitted' = kept
      /\ refresh' = (~ OneBuffer /\ n > 0)
      /\ UNCHANGED <<text, start, position, draftRows>>
    BY DEF Rollback
<1>2. ~ OneBuffer
    BY <1>1 DEF RepairReplays, OneBuffer
<1>3. /\ n \in Nat /\ chain \in Seq(Token) /\ n + 1 \in 0 .. Len(chain)
      /\ Len(chain) \in Nat /\ n \in 0 .. Len(chain) - 1
    BY <1>1, VerifiedFacts, Sizes DEF BatchRows
<1>4. Len(kept) = n + 1
    BY <1>3, FirstTokensFacts
<1>5. draftRows'[position + 1] = text \o FirstTokens(kept, 1)
    BY <1>1, <1>3, SameRoot DEF DraftInv, RowsDrafted
<1> HIDE DEF kept
<1>6. ASSUME ~ refresh', NEW i \in 1 .. Len(kept)
      PROVE  draftRows'[position + i] = text \o FirstTokens(kept, i)
    <2>1. ~ (n > 0)
        BY <1>1, <1>2, <1>6
    <2>2. i = 1
        BY <1>3, <1>4, <2>1
    <2> QED
        BY <1>5, <2>2
<1>7. RowsSettled'
    BY <1>1, <1>5, <1>6 DEF RowsSettled
<1> QED
    BY <1>1, <1>7
       DEF DraftInv, RowsOfText, Working, RowsDrafted, RowsVerified

LEMMA ReplayAcceptedRows ==
    ASSUME Inv, DraftInv, NEW n \in BatchRows, ReplayAccepted(n)
    PROVE  DraftInv'
<1> DEFINE kept == FirstTokens(chain, n + 1)
           more == IF driver = "greedy" THEN <<Best(logitRows[n])>> ELSE << >>
           tokens == kept \o more
<1>1. /\ phase = "verified" /\ phase' = "settled" /\ emitted' = tokens
      /\ n < Depth /\ refresh' = (Len(tokens) > 1)
      /\ UNCHANGED <<text, start, position, draftRows>>
    BY DEF ReplayAccepted, ReplayTokens
<1>2. /\ n \in Nat /\ chain \in Seq(Token) /\ n \in 0 .. Len(chain) - 1
      /\ n \in 0 .. Depth
    BY <1>1, VerifiedFacts, Sizes DEF BatchRows
<1>3. /\ kept \in Seq(Token) /\ Len(kept) = n + 1
      /\ text \o kept \in Seq(Token) /\ Len(text \o kept) <= Capacity
      /\ logitRows[n] = text \o kept
    BY <1>1, <1>2, KeptPrefix
<1>4. more \in Seq(Token)
    <2>1. Best(logitRows[n]) \in Token
        BY <1>3, TargetReads
    <2>2. << >> \in Seq(Token)
        BY ContentFacts DEF Zeroed
    <2> QED
        BY <2>1, <2>2
<1>5. FirstTokens(kept, 1) = FirstTokens(chain, 1)
    BY <1>2, SameRoot
<1> HIDE DEF kept, more
<1>6. FirstTokens(tokens, 1) = FirstTokens(kept, 1)
    <2>1. 1 \in 0 .. Len(kept)
        BY <1>2, <1>3
    <2> QED
        BY <1>3, <1>4, <2>1, FirstOfConcat
<1>7. draftRows'[position + 1] = text \o FirstTokens(tokens, 1)
    BY <1>1, <1>5, <1>6 DEF DraftInv, RowsDrafted
<1>8. Len(tokens) \in Nat
    BY <1>3, <1>4, ConcatProperties, Sizes
<1> HIDE DEF tokens
<1>9. ASSUME ~ refresh', NEW i \in 1 .. Len(tokens)
      PROVE  draftRows'[position + i] = text \o FirstTokens(tokens, i)
    <2>1. ~ (Len(tokens) > 1)
        BY <1>1, <1>9
    <2>2. i = 1
        BY <1>8, <2>1
    <2> QED
        BY <1>7, <2>2
<1>10. RowsSettled'
    BY <1>1, <1>7, <1>9 DEF RowsSettled
<1> QED
    BY <1>1, <1>10
       DEF DraftInv, RowsOfText, Working, RowsDrafted, RowsVerified

LEMMA HandOverRows ==
    ASSUME Inv, Typed, HiddenInv, DraftInv, HandOver
    PROVE  DraftInv'
<1>1. /\ phase = "settled" /\ phase' = "ready" /\ Working
      /\ draftRows' = IF refresh
                      THEN SuccessorRows(draftRows, rowHidden, Tail(emitted))
                      ELSE draftRows
      /\ text' = text \o emitted /\ position' = position + Len(emitted)
      /\ start' = start
    BY DEF HandOver, Working
<1>2. /\ text \in Seq(Token) /\ position = Len(text) /\ position \in Nat
      /\ draftRows \in [Rows -> Content] /\ start \in 0 .. position
    BY <1>1, WorkingFacts
<1>3. /\ emitted \in Seq(Token) /\ Len(emitted) \in Nat /\ Batch(emitted)
      /\ Len(Tail(emitted)) = Len(emitted) - 1
      /\ \A i \in 1 .. Len(emitted) - 1 : Tail(emitted)[i] = emitted[i + 1]
    BY <1>1, SettledFacts, Sizes
<1>4. /\ draftRows[position + 1] = text \o FirstTokens(emitted, 1)
      /\ ~ refresh => \A i \in 1 .. Len(emitted) :
                          draftRows[position + i] = text \o FirstTokens(emitted, i)
    BY <1>1 DEF DraftInv, RowsSettled
<1>5. /\ \A i \in 1 .. Len(emitted) :
             draftRows'[position + i] = text \o FirstTokens(emitted, i)
      /\ \A i \in 1 .. position : draftRows'[i] = draftRows[i]
    <2>1. CASE ~ refresh
        BY <1>1, <1>4, <2>1
    <2>2. CASE refresh
        <3>1. \A i \in 0 .. Len(emitted) - 1 :
                  rowHidden[i] = text \o FirstTokens(emitted, i + 1)
            BY <1>1, <2>2 DEF HiddenInv, HiddenSettled
        <3>2. \A i \in 0 .. Len(emitted) - 2 :
                  rowHidden[i] = text \o FirstTokens(emitted, i + 1)
            BY <1>3, <3>1
        <3>3. Refreshable(emitted, Tail(emitted), draftRows, rowHidden)
            BY <1>3, <1>4, <3>2 DEF Refreshable
        <3>4. RowsAre(draftRows', emitted) /\ SameBelow(draftRows', draftRows)
            BY <1>1, <1>2, <2>2, <3>3, RefreshedRows
        <3> QED
            BY <3>4 DEF RowsAre, SameBelow
    <2> QED
        BY <2>1, <2>2
<1>6. ASSUME NEW i \in start + 1 .. position + Len(emitted)
      PROVE  draftRows'[i] = FirstTokens(text \o emitted, i)
    <2>1. CASE i <= position
        <3>1. i \in start + 1 .. position /\ i \in 1 .. position /\ i \in 0 .. Len(text)
            BY <1>2, <1>3, <2>1
        <3>2. draftRows[i] = FirstTokens(text, i)
            BY <1>1, <3>1 DEF DraftInv, RowsOfText
        <3>3. FirstTokens(text \o emitted, i) = FirstTokens(text, i)
            BY <1>2, <1>3, <3>1, FirstOfConcat
        <3> QED
            BY <1>5, <3>1, <3>2, <3>3
    <2>2. CASE i > position
        <3> DEFINE k == i - position
        <3>1. k \in 1 .. Len(emitted) /\ k \in 0 .. Len(emitted)
              /\ position + k = i /\ Len(text) + k = i
            BY <1>2, <1>3, <2>2
        <3> HIDE DEF k
        <3>2. FirstTokens(text \o emitted, Len(text) + k)
                 = text \o FirstTokens(emitted, k)
            BY <1>2, <1>3, <3>1, FirstOverConcat
        <3>3. draftRows'[position + k] = text \o FirstTokens(emitted, k)
            BY <1>5, <3>1
        <3> QED
            BY <3>1, <3>2, <3>3
    <2>3. i \in Int /\ position \in Int
        BY <1>2, <1>3
    <2> QED
        BY <2>1, <2>2, <2>3
<1>7. RowsOfText'
    BY <1>1, <1>6 DEF RowsOfText
<1> QED
    BY <1>1, <1>7 DEF DraftInv, RowsDrafted, RowsVerified, RowsSettled

LEMMA BeginSearchRows ==
    ASSUME DraftInv, BeginSearch
    PROVE  DraftInv'
<1>1. /\ phase = "ready" /\ phase' = "search"
      /\ UNCHANGED <<text, start, position, draftRows>>
    BY DEF BeginSearch
<1> QED
    BY <1>1 DEF DraftInv, RowsOfText, Working, RowsDrafted, RowsVerified,
                RowsSettled

LEMMA LatticeBranchRows ==
    ASSUME Inv, Typed, HiddenInv, DraftInv, NEW root \in Token,
           NEW drafts \in Chains, LatticeBranch(root, drafts)
    PROVE  DraftInv'
<1> DEFINE path == <<root>> \o drafts
<1>1. /\ phase = "search" /\ phase' = "search" /\ Working
      /\ Fits(Len(drafts)) /\ savedHidden = text
      /\ draftRows' = ChainRows(text, root, Len(drafts))
      /\ UNCHANGED <<text, start, position>>
    BY DEF LatticeBranch, Working, HiddenInv
<1>2. Batch(path) /\ path[1] = root
    BY <1>1, WorkingFacts, PathOf
<1> HIDE DEF path
<1>3. \A i \in 1 .. position : draftRows'[i] = draftRows[i]
    BY <1>1, <1>2, DraftedRows
<1>4. RowsOfText'
    BY <1>1, <1>3, RowsOfTextKept DEF DraftInv
<1> QED
    BY <1>1, <1>4 DEF DraftInv, RowsDrafted, RowsVerified, RowsSettled

LEMMA ViterbiLevelRows ==
    ASSUME DraftInv, NEW last \in beam, NEW kept \in SUBSET Candidates,
           ViterbiLevel(last, kept)
    PROVE  DraftInv'
<1>1. /\ phase = "search" /\ phase' = "search"
      /\ UNCHANGED <<text, start, position, draftRows>>
    BY DEF ViterbiLevel
<1> QED
    BY <1>1 DEF DraftInv, RowsOfText, Working, RowsDrafted, RowsVerified,
                RowsSettled

LEMMA CommitPathRows ==
    ASSUME Inv, Typed, HiddenInv, DraftInv, NEW path \in beam \cup {chain},
           CommitPath(path)
    PROVE  DraftInv'
<1>1. /\ phase = "search" /\ phase' = "settled" /\ Working
      /\ Len(path) > 1 /\ savedHidden = text
      /\ emitted' = path /\ refresh' = TRUE
      /\ draftRows' = FirstRow(text, path[1])
      /\ UNCHANGED <<text, start, position>>
    BY DEF CommitPath, Working, HiddenInv
<1>2. path # << >>
    BY <1>1
<1>3. Batch(path)
    BY <1>1, <1>2, SearchFacts
<1>4. /\ path \in Seq(Token) /\ Len(path) >= 1 /\ text \in Seq(Token)
      /\ position \in Nat /\ position + Len(path) <= Capacity
      /\ draftRows \in [Rows -> Content] /\ Capacity \in Nat
      /\ Len(path) \in Nat
    BY <1>1, <1>3, WorkingFacts, Sizes DEF Batch
<1>5. position + 1 \in Rows
    BY <1>4 DEF Rows
<1>6. draftRows'[position + 1] = text \o FirstTokens(path, 1)
    BY <1>1, <1>4, <1>5, RootRow DEF FirstRow
<1>7. \A i \in 1 .. position : draftRows'[i] = draftRows[i]
    <2>1. \A i \in 1 .. position : i \in Rows /\ i # position + 1
        BY <1>4 DEF Rows
    <2> QED
        BY <1>1, <1>4, <2>1 DEF FirstRow
<1>8. RowsOfText'
    BY <1>1, <1>7, RowsOfTextKept DEF DraftInv
<1> QED
    BY <1>1, <1>6, <1>8 DEF DraftInv, RowsDrafted, RowsVerified, RowsSettled

LEMMA DraftStep ==
    ASSUME RepairReplays, ~ Lookup, Inv, Typed, HiddenInv, DraftInv,
           [Next]_vars
    PROVE  DraftInv'
<1>1. ASSUME NEW prompt \in Prompts, NewReply(prompt) \/ ContinueReply(prompt)
      PROVE  DraftInv'
    BY <1>1, NewRequestRows
<1>2. CASE OneChain
    BY <1>2, FusedStepRows, DraftRowsDrafted, VerifyChainRows DEF OneChain
<1>3. CASE Settle
    BY <1>3, AcceptAllRows, RollbackRows, ReplayAcceptedRows, HandOverRows
       DEF Settle
<1>4. CASE ManyChains
    BY <1>4, BeginSearchRows, LatticeBranchRows, ViterbiLevelRows,
       CommitPathRows DEF ManyChains
<1>5. CASE StepFails
    BY <1>5 DEF StepFails, DraftInv, RowsOfText, Working, RowsDrafted,
                RowsVerified, RowsSettled
<1>6. CASE UNCHANGED vars
    BY <1>6 DEF vars, DraftInv, RowsOfText, Working, RowsDrafted,
                RowsVerified, RowsSettled, OneBuffer
<1> QED
    BY <1>1, <1>2, <1>3, <1>4, <1>5, <1>6 DEF Next

\* DraftRowsFollowText for every instance without lookup whose fused step
\* replays what it accepts: no row of a rejected or losing draft survives
\* a step.
THEOREM DraftRowsCorrect ==
    ASSUME RepairReplays, ~ Lookup
    PROVE  Spec => []DraftRowsFollowText
<1>1. Init => HiddenInv /\ DraftInv
    BY DEF Init, HiddenInv, HiddenOfTarget, HiddenVerified, HiddenSettled,
           DraftInv, RowsOfText, Working, RowsDrafted, RowsVerified, RowsSettled
<1>2. Inv /\ Typed /\ HiddenInv /\ DraftInv /\ [Next]_vars
          => (HiddenInv /\ DraftInv)'
    BY HiddenStep, DraftStep
<1>3. HiddenInv /\ DraftInv => DraftRowsFollowText
    BY DEF DraftInv, RowsOfText, Working, DraftRowsFollowText
<1> QED
    BY <1>1, <1>2, <1>3, TypedInvariance, PTL DEF Spec

=============================================================================
