---------------------------- MODULE ReplyService ----------------------------
(***************************************************************************)
(* What the chat process promises, with no layers, caches or checkpoints:  *)
(* "each prompt is an independent single-turn request"                     *)
(* (commands/qwen38_m3_chat.c, head comment).  A prompt is read, and every *)
(* token of the reply is drawn from the distribution the model assigns to  *)
(* the prompt followed by the reply so far; `basis` is that context.       *)
(* Nothing is remembered from one prompt to the next.                      *)
(***************************************************************************)
EXTENDS Integers, Sequences

CONSTANTS Token, StopTokens, Capacity, MaximumNew

VARIABLES phase, prompt, limit, reply, basis, answer

vars == <<phase, prompt, limit, reply, basis, answer>>

Runs == UNION {[1 .. n -> Token] : n \in 1 .. MaximumNew}

Init ==
    /\ phase = "idle"
    /\ prompt = << >>
    /\ limit = 1
    /\ reply = << >>
    /\ basis = << >>
    /\ answer = "none"

Refuse ==
    /\ phase = "idle"
    /\ answer' = "X"
    /\ reply' = << >>
    /\ UNCHANGED <<phase, prompt, limit, basis>>

Ask(p, n) ==
    /\ phase = "idle"
    /\ Len(p) + n <= Capacity
    /\ phase' = "reading"
    /\ prompt' = p
    /\ limit' = n
    /\ reply' = << >>
    /\ answer' = "none"
    /\ UNCHANGED basis

\* The prompt has been understood: what follows is drawn given the prompt.
Read ==
    /\ phase = "reading"
    /\ phase' = "replying"
    /\ basis' = prompt
    /\ UNCHANGED <<prompt, limit, reply, answer>>

Live(run) == \A i \in 1 .. Len(run) : run[i] \notin StopTokens

Reply(run) ==
    /\ phase = "replying"
    /\ Live(run)
    /\ Len(reply) + Len(run) < limit
    /\ reply' = reply \o run
    /\ basis' = prompt \o reply'
    /\ UNCHANGED <<phase, prompt, limit, answer>>

\* The last tokens: the reply is as long as it may be, or has just stopped.
End(run) ==
    /\ phase = "replying"
    /\ Live(SubSeq(run, 1, Len(run) - 1))
    /\ Len(reply) + Len(run) <= limit
    /\ \/ Len(reply) + Len(run) = limit
       \/ run[Len(run)] \in StopTokens
    /\ reply' = reply \o run
    /\ phase' = "idle"
    /\ basis' = << >>
    /\ answer' = "E"
    /\ UNCHANGED <<prompt, limit>>

\* A request may fail, before its reply or in the middle of it.
Fail ==
    /\ phase # "idle"
    /\ phase' = "idle"
    /\ basis' = << >>
    /\ answer' = "X"
    /\ UNCHANGED <<prompt, limit, reply>>

Next ==
    \/ Refuse
    \/ \E n \in 1 .. MaximumNew, l \in 0 .. Capacity :
           \E p \in [1 .. l -> Token] : Ask(p, n)
    \/ Read
    \/ \E run \in Runs : Reply(run) \/ End(run)
    \/ Fail

Fairness == WF_vars(Read \/ Fail \/ \E run \in Runs : Reply(run) \/ End(run))

Spec == Init /\ [][Next]_vars /\ Fairness
=============================================================================
