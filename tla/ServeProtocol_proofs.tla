------------------------ MODULE ServeProtocol_proofs ------------------------
(***************************************************************************)
(* The engine lock and the line protocol, for any number of requests, any  *)
(* pipe capacity and reply length, with disconnecting clients, crashes and *)
(* silent failures.                                                        *)
(*                                                                         *)
(* A reply line does not name its request, so a request hears its own      *)
(* reply only because of what the pipes hold at every stage of generate.   *)
(* The invariant says that: before the request is written a running        *)
(* process is ready and both pipes are empty; afterwards whatever is in    *)
(* the pipe back continues exactly what the request has heard.             *)
(***************************************************************************)
EXTENDS ServeProtocol, SequenceTheorems, TLAPS

\* Until the request is written, nothing was heard and it was not misled.
Untouched ==
    \A r \in Requests :
        handler[r] \in {"new", "waiting", "checking", "starting", "writing"} =>
            heard[r] = << >> /\ r \notin misled /\ outcome[r] = "none"

Listening(r) == handler[r] \in {"flushing", "reading"}

Silent == \A r \in Requests : handler[r] # "done" => outcome[r] = "none"

Drained ==
    /\ engine = "ready"
    /\ stdin = << >>
    /\ stdout = << >>

\* Before anything was written to a process that had no reply abandoned.
Quiet ==
    (\A r \in Requests : ~ Listening(r) /\ handler[r] # "starting")
        /\ ~ abandoned /\ engine # "dead" => Drained

\* A new process: the only line it prints is "R".
Starting ==
    \A r \in Requests : handler[r] = "starting" =>
        /\ ~ abandoned
        /\ stdin = << >>
        /\ engine \in {"dead", "loading", "ready"}
        /\ engine = "loading" => stdout = << >>
        /\ engine = "ready" => stdout = << Line("R", NoOne, 0) >>
        /\ engine = "dead" => Len(stdout) <= 1

\* What a request has heard, continued by what is in the pipe, is a reply to
\* it up to some point; only the last line may be an ending.
Transcript(lines, pipe, r) ==
    /\ \A i \in 1 .. Len(lines) :
           /\ lines[i].of = r
           /\ lines[i].kind = "D"
           /\ lines[i].number = i
    /\ \A i \in 1 .. Len(pipe) :
           /\ pipe[i].of = r
           /\ pipe[i].number = Len(lines) + i
           /\ i < Len(pipe) => pipe[i].kind = "D"

AllText(pipe) == \A i \in 1 .. Len(pipe) : pipe[i].kind = "D"

Continues(r) == Transcript(heard[r], stdout, r)

\* Where the process is with the request it was given.
Answering(r) ==
    /\ engine \in {"dead", "ready", "busy"}
    /\ engine = "busy" =>
           /\ job = r
           /\ stdin = << >>
           /\ said = Len(heard[r]) + Len(stdout)
           /\ AllText(stdout)
    /\ engine = "ready" =>
           \/ stdin = << r >> /\ heard[r] = << >> /\ stdout = << >>
           \/ stdin = << >>

Exchange ==
    \A r \in Requests : Listening(r) =>
        /\ r \in misled <=> abandoned
        /\ ~ abandoned => Continues(r) /\ Answering(r)

\* Requests that were not misled heard their own reply, and all of it if
\* they were served.
Received(lines, how, r) ==
    /\ \A i \in 1 .. Len(lines) : lines[i].of = r
    /\ how = "served" =>
        /\ lines # << >>
        /\ \A i \in 1 .. Len(lines) :
               /\ lines[i].number = i
               /\ lines[i].kind = IF i = Len(lines) THEN "E" ELSE "D"

Past == \A r \in Requests \ misled : Received(heard[r], outcome[r], r)

Inv ==
    /\ Typed
    /\ HolderInside
    /\ Untouched
    /\ Silent
    /\ Quiet
    /\ Starting
    /\ Exchange
    /\ Past

USE DEF threadVars, processVars, ghostVars, outside

-----------------------------------------------------------------------------
(* Lines and pipes.                                                        *)

LEMMA TakeOne ==
    ASSUME NEW S, NEW s \in Seq(S), s # << >>
    PROVE  /\ Head(s) \in S /\ Head(s) = s[1]
           /\ Tail(s) \in Seq(S)
           /\ Len(s) \in Nat \ {0}
           /\ Len(Tail(s)) = Len(s) - 1
           /\ \A i \in 1 .. Len(Tail(s)) : Tail(s)[i] = s[i + 1]
BY HeadTailProperties, EmptySeq, LenProperties

LEMMA AddOne ==
    ASSUME NEW S, NEW s \in Seq(S), NEW x \in S
    PROVE  /\ Append(s, x) \in Seq(S)
           /\ Append(s, x) # << >>
           /\ Len(s) \in Nat
           /\ Len(Append(s, x)) = Len(s) + 1
           /\ \A i \in 1 .. Len(s) : Append(s, x)[i] = s[i]
           /\ Append(s, x)[Len(s) + 1] = x
BY AppendProperties, LenProperties

LEMMA LineFields ==
    ASSUME NEW kind \in {"R", "D", "E", "X"}, NEW of \in Requests \cup {NoOne},
           NEW number \in Nat
    PROVE  /\ Line(kind, of, number) \in Lines
           /\ Line(kind, of, number).kind = kind
           /\ Line(kind, of, number).of = of
           /\ Line(kind, of, number).number = number
BY DEF Line, Lines

LEMMA InitInv == Init => Inv
<1> SUFFICES ASSUME Init PROVE Inv
    OBVIOUS
<1> USE DEF Init
<1>1. Typed
    <2>1. << >> \in Seq(Lines) /\ << >> \in Seq(Requests)
        BY EmptySeq
    <2> QED
        BY <2>1 DEF Typed
<1>2. HolderInside
    BY ServeAssumption DEF HolderInside, InGenerate
<1>3. Untouched /\ Silent
    BY DEF Untouched, Silent
<1>4. Quiet /\ Starting /\ Exchange
    BY DEF Quiet, Starting, Exchange, Drained, Listening
<1>5. Past
    <2>1. \A r \in Requests :
              heard[r] = << >> /\ Len(heard[r]) = 0 /\ outcome[r] = "none"
        BY EmptySeq
    <2>2. \A r \in Requests : \A i \in 1 .. Len(heard[r]) : FALSE
        <3>1. \A i \in 1 .. 0 : FALSE
            OBVIOUS
        <3> QED
            BY <2>1, <3>1
    <2> QED
        BY <2>1, <2>2 DEF Past, Received
<1> QED
    BY <1>1, <1>2, <1>3, <1>4, <1>5 DEF Inv

-----------------------------------------------------------------------------
(* Handler threads.                                                        *)

LEMMA ArriveInv == ASSUME Inv, NEW r \in Requests, Arrive(r) PROVE Inv'
<1> USE DEF Inv, Arrive, Move
<1>0. handler' = [handler EXCEPT ![r] = "waiting"] /\ handler[r] = "new"
    OBVIOUS
<1>1. Typed'
    BY DEF Typed
<1>2. HolderInside'
    BY <1>0 DEF HolderInside, InGenerate, Typed
<1>3. Untouched' /\ Silent'
    BY <1>0 DEF Untouched, Silent, Typed
<1>4. Quiet' /\ Starting'
    BY <1>0 DEF Quiet, Starting, Drained, Listening, Typed
<1>5. Exchange'
    BY <1>0 DEF Exchange, Listening, Continues, Answering, Typed
<1>6. Past'
    BY DEF Past
<1> QED
    BY <1>1, <1>2, <1>3, <1>4, <1>5, <1>6

LEMMA AcquireInv == ASSUME Inv, NEW r \in Requests, Acquire(r) PROVE Inv'
<1> USE DEF Inv, Acquire, Move
<1>0. handler' = [handler EXCEPT ![r] = "checking"] /\ handler[r] = "waiting"
    OBVIOUS
<1>1. Typed'
    BY DEF Typed, InGenerate
<1>2. HolderInside'
    BY <1>0, ServeAssumption DEF HolderInside, InGenerate, Typed
<1>3. Untouched' /\ Silent'
    BY <1>0 DEF Untouched, Silent, Typed
<1>4. Quiet' /\ Starting'
    BY <1>0 DEF Quiet, Starting, Drained, Listening, Typed
<1>5. Exchange'
    BY <1>0 DEF Exchange, Listening, Continues, Answering, Typed
<1>6. Past'
    BY DEF Past
<1> QED
    BY <1>1, <1>2, <1>3, <1>4, <1>5, <1>6

LEMMA FindRunningInv == ASSUME Inv, NEW r \in Requests, FindRunning(r) PROVE Inv'
<1> USE DEF Inv, FindRunning, Move
<1>0. handler' = [handler EXCEPT ![r] = "writing"] /\ handler[r] = "checking"
    OBVIOUS
<1>1. Typed'
    BY DEF Typed, InGenerate
<1>2. HolderInside'
    BY <1>0 DEF HolderInside, InGenerate, Typed
<1>3. Untouched' /\ Silent'
    BY <1>0 DEF Untouched, Silent, Typed
<1>4. Quiet' /\ Starting'
    BY <1>0 DEF Quiet, Starting, Drained, Listening, Typed
<1>5. Exchange'
    BY <1>0 DEF Exchange, Listening, Continues, Answering, Typed
<1>6. Past'
    BY DEF Past
<1> QED
    BY <1>1, <1>2, <1>3, <1>4, <1>5, <1>6

LEMMA FlushInv == ASSUME Inv, NEW r \in Requests, Flush(r) PROVE Inv'
<1> USE DEF Inv, Flush, Move
<1>0. handler' = [handler EXCEPT ![r] = "reading"] /\ handler[r] = "flushing"
    OBVIOUS
<1>1. Typed'
    BY DEF Typed, InGenerate
<1>2. HolderInside'
    BY <1>0 DEF HolderInside, InGenerate, Typed
<1>3. Untouched' /\ Silent'
    BY <1>0 DEF Untouched, Silent, Typed
<1>4. Quiet' /\ Starting'
    BY <1>0 DEF Quiet, Starting, Drained, Listening, Typed
<1>5. Exchange'
    BY <1>0 DEF Exchange, Listening, Continues, Answering, Typed
<1>6. Past'
    BY DEF Past
<1> QED
    BY <1>1, <1>2, <1>3, <1>4, <1>5, <1>6

\* Only one thread is inside generate, so no other is listening or starting.
LEMMA Alone ==
    ASSUME Inv, NEW r \in Requests, handler[r] \in InGenerate,
           NEW other \in Requests, other # r
    PROVE  ~ Listening(other) /\ handler[other] # "starting"
BY DEF Inv, HolderInside, Listening, InGenerate

LEMMA RestartInv == ASSUME Inv, NEW r \in Requests, Restart(r) PROVE Inv'
<1> USE DEF Inv, Restart, Move
<1>0. handler' = [handler EXCEPT ![r] = "starting"] /\ handler[r] = "checking"
    OBVIOUS
<1>a. \A other \in Requests : other # r => ~ Listening(other)
    BY Alone DEF InGenerate
<1>1. Typed'
    BY EmptySeq DEF Typed, InGenerate
<1>2. HolderInside'
    BY <1>0 DEF HolderInside, InGenerate, Typed
<1>3. Untouched' /\ Silent'
    BY <1>0 DEF Untouched, Silent, Typed
<1>4. Quiet' /\ Starting'
    <2>1. \A other \in Requests :
              handler'[other] = "starting" => other = r
        BY <1>0, Alone DEF Typed, InGenerate
    <2>2. handler'[r] = "starting"
        BY <1>0 DEF Typed
    <2> QED
        BY <2>1, <2>2 DEF Quiet, Starting
<1>5. Exchange'
    BY <1>0, <1>a DEF Exchange, Listening, Typed
<1>6. Past'
    BY DEF Past
<1> QED
    BY <1>1, <1>2, <1>3, <1>4, <1>5, <1>6

LEMMA HearReadyInv == ASSUME Inv, NEW r \in Requests, HearReady(r) PROVE Inv'
<1> USE DEF Inv, HearReady, Move
<1>0. handler' = [handler EXCEPT ![r] = "writing"] /\ handler[r] = "starting"
    OBVIOUS
<1>a. \A other \in Requests :
          other # r => ~ Listening(other) /\ handler[other] # "starting"
    BY Alone DEF InGenerate
<1>b. stdout \in Seq(Lines) /\ stdout # << >>
    BY DEF Typed
<1>1. Typed'
    BY <1>b, TakeOne DEF Typed, InGenerate
<1>2. HolderInside'
    BY <1>0 DEF HolderInside, InGenerate, Typed
<1>3. Untouched' /\ Silent'
    BY <1>0 DEF Untouched, Silent, Starting, Typed
<1>4. Quiet'
    <2>1. engine = "ready" => Tail(stdout) = << >>
        BY <1>b DEF Starting
    <2>2. engine \in {"dead", "ready"} /\ stdin = << >>
        BY <1>b DEF Starting
    <2> QED
        BY <2>1, <2>2 DEF Quiet, Drained
<1>5. Starting' /\ Exchange'
    BY <1>0, <1>a DEF Starting, Exchange, Listening, Typed
<1>6. Past'
    BY DEF Past
<1> QED
    BY <1>1, <1>2, <1>3, <1>4, <1>5, <1>6

\* The state of things when a thread is about to write its request.
LEMMA WriteRequestInv == ASSUME Inv, NEW r \in Requests, WriteRequest(r) PROVE Inv'
<1> USE DEF Inv, WriteRequest, Move
<1>0. handler' = [handler EXCEPT ![r] = "flushing"] /\ handler[r] = "writing"
    OBVIOUS
<1>a. \A other \in Requests :
          other # r => ~ Listening(other) /\ handler[other] # "starting"
    BY Alone DEF InGenerate
<1>b. heard[r] = << >> /\ Len(heard[r]) = 0 /\ r \notin misled
    BY EmptySeq DEF Untouched
<1>1. Typed'
    <2>1. stdin' \in Seq(Requests)
        BY AddOne DEF Typed
    <2> QED
        BY <2>1 DEF Typed, InGenerate
<1>2. HolderInside'
    BY <1>0 DEF HolderInside, InGenerate, Typed
<1>3. Untouched' /\ Silent'
    BY <1>0 DEF Untouched, Silent, Typed
<1>4. Quiet' /\ Starting'
    BY <1>0, <1>a DEF Quiet, Starting, Listening, Typed
<1>5. Exchange'
    <2>1. \A other \in Requests : Listening(other)' => other = r
        BY <1>0, <1>a DEF Listening, Typed
    <2>2. (r \in misled') <=> abandoned'
        BY <1>b
    <2>3. ASSUME ~ abandoned PROVE Continues(r)' /\ Answering(r)'
        <3>1. Drained
            BY <1>0, <1>a, <2>3 DEF Quiet, Listening
        <3>2. stdin' = << r >> /\ stdout' = << >> /\ Len(stdout') = 0
            BY <3>1, EmptySeq DEF Drained
        <3>3. heard'[r] = << >> /\ Len(heard'[r]) = 0 /\ engine' = "ready"
            BY <1>b, <3>1 DEF Drained
        <3> QED
            BY <3>2, <3>3 DEF Continues, Transcript, Answering
    <2> QED
        BY <2>1, <2>2, <2>3 DEF Exchange
<1>6. Past'
    BY DEF Past
<1> QED
    BY <1>1, <1>2, <1>3, <1>4, <1>5, <1>6

\* Whatever way a thread leaves generate, the pipes are drained, or the
\* process is gone, or its reply is abandoned.
LEMMA Leaving ==
    ASSUME Inv, NEW r \in Requests, handler[r] \in InGenerate,
           NEW how \in {"served", "error", "dropped"}, Leave(r, how)
    PROVE  /\ handler' = [handler EXCEPT ![r] = "done"]
           /\ handler' \in [Requests -> {"new", "waiting", "done"} \cup InGenerate]
           /\ outcome' = [outcome EXCEPT ![r] = how]
           /\ outcome' \in [Requests -> {"none", "served", "error", "dropped"}]
           /\ holder' = NoOne
           /\ HolderInside'
           /\ \A other \in Requests :
                  /\ ~ Listening(other)' /\ handler'[other] # "starting"
                  /\ handler'[other] # "done" =>
                         /\ other # r
                         /\ handler'[other] = handler[other]
                         /\ outcome'[other] = outcome[other]
<1> USE DEF Inv, Leave, Move
<1>1. handler' = [handler EXCEPT ![r] = "done"] /\ outcome' = [outcome EXCEPT ![r] = how]
    OBVIOUS
<1>2. \A other \in Requests :
          other # r => ~ Listening(other) /\ handler[other] # "starting"
    BY Alone
<1>3. /\ handler' \in [Requests -> {"new", "waiting", "done"} \cup InGenerate]
      /\ outcome' \in [Requests -> {"none", "served", "error", "dropped"}]
    BY DEF Typed
<1>4. HolderInside'
    BY <1>1, ServeAssumption DEF HolderInside, InGenerate, Typed
<1>5. \A other \in Requests :
          /\ ~ Listening(other)' /\ handler'[other] # "starting"
          /\ handler'[other] # "done" =>
                 /\ other # r
                 /\ handler'[other] = handler[other]
                 /\ outcome'[other] = outcome[other]
    BY <1>1, <1>2 DEF Listening, Typed
<1> QED
    BY <1>1, <1>3, <1>4, <1>5

\* Leaving without having read another line.
LEMMA LeaveUnread ==
    ASSUME Inv, NEW r \in Requests, handler[r] \in InGenerate,
           NEW how \in {"error", "dropped"}, Leave(r, how), engine = "dead",
           UNCHANGED <<heard, processVars, ghostVars>>
    PROVE  Inv'
<1> USE DEF Inv
<1>a. /\ handler' \in [Requests -> {"new", "waiting", "done"} \cup InGenerate]
      /\ outcome' = [outcome EXCEPT ![r] = how]
      /\ outcome' \in [Requests -> {"none", "served", "error", "dropped"}]
      /\ holder' = NoOne
      /\ HolderInside'
      /\ \A other \in Requests :
             /\ ~ Listening(other)' /\ handler'[other] # "starting"
             /\ handler'[other] # "done" =>
                    /\ other # r
                    /\ handler'[other] = handler[other]
                    /\ outcome'[other] = outcome[other]
    BY Leaving
<1>1. Typed'
    BY <1>a DEF Typed
<1>2. Untouched' /\ Silent'
    BY <1>a DEF Untouched, Silent
<1>3. Quiet' /\ Starting' /\ Exchange'
    BY <1>a DEF Quiet, Starting, Exchange
<1>4. Past'
    BY <1>a DEF Past, Received, Typed
<1> QED
    BY <1>1, <1>a, <1>2, <1>3, <1>4

LEMMA PipeBreaksInv == ASSUME Inv, NEW r \in Requests, PipeBreaks(r) PROVE Inv'
BY LeaveUnread DEF PipeBreaks, InGenerate

LEMMA EndOfFileInv == ASSUME Inv, NEW r \in Requests, EndOfFile(r) PROVE Inv'
BY LeaveUnread DEF EndOfFile, InGenerate

LEMMA LeaveEarlyInv == ASSUME Inv, NEW r \in Requests, LeaveEarly(r) PROVE Inv'
<1> USE DEF Inv, LeaveEarly, Move
<1>0. /\ handler' = [handler EXCEPT ![r] = "done"] /\ handler[r] = "new"
      /\ outcome' = [outcome EXCEPT ![r] = "dropped"]
    OBVIOUS
<1>1. Typed'
    BY DEF Typed
<1>2. HolderInside'
    BY <1>0 DEF HolderInside, InGenerate, Typed
<1>3. Untouched' /\ Silent'
    BY <1>0 DEF Untouched, Silent, Typed
<1>4. Quiet' /\ Starting'
    BY <1>0 DEF Quiet, Starting, Drained, Listening, Typed
<1>5. Exchange'
    BY <1>0 DEF Exchange, Listening, Continues, Answering, Typed
<1>6. Past'
    <2>1. \A other \in Requests :
              outcome'[other] = "served" => outcome[other] = "served"
        BY <1>0 DEF Typed
    <2> QED
        BY <2>1 DEF Past, Received
<1> QED
    BY <1>1, <1>2, <1>3, <1>4, <1>5, <1>6

-----------------------------------------------------------------------------
(* Reading a line.                                                         *)

\* Moving a line from the pipe to the reader keeps the transcript.
LEMMA HearOne ==
    ASSUME NEW lines \in Seq(Lines), NEW pipe \in Seq(Lines), pipe # << >>,
           NEW r, Transcript(lines, pipe, r)
    PROVE  LET more == Append(lines, Head(pipe))
               rest == Tail(pipe)
           IN  /\ Len(more) + Len(rest) = Len(lines) + Len(pipe)
               /\ \A i \in 1 .. Len(more) :
                      /\ more[i].of = r
                      /\ more[i].number = i
                      /\ more[i].kind = IF i = Len(more) THEN Head(pipe).kind
                                                         ELSE "D"
               /\ Head(pipe).kind = "D" => Transcript(more, rest, r)
               /\ Head(pipe).kind # "D" => rest = << >>
               /\ AllText(pipe) => AllText(rest)
<1> DEFINE more == Append(lines, Head(pipe))
           rest == Tail(pipe)
<1>1. /\ Head(pipe) \in Lines /\ Head(pipe) = pipe[1]
      /\ rest \in Seq(Lines)
      /\ Len(pipe) \in Nat \ {0}
      /\ Len(rest) = Len(pipe) - 1
      /\ \A i \in 1 .. Len(rest) : rest[i] = pipe[i + 1]
    BY TakeOne
<1>2. /\ more \in Seq(Lines)
      /\ Len(lines) \in Nat
      /\ Len(more) = Len(lines) + 1
      /\ \A i \in 1 .. Len(lines) : more[i] = lines[i]
      /\ more[Len(lines) + 1] = Head(pipe)
    BY <1>1, AddOne
<1> HIDE DEF more, rest
<1>3. 1 \in 1 .. Len(pipe) /\ Len(rest) \in Nat
    BY <1>1
<1>4. ASSUME NEW i \in 1 .. Len(more)
      PROVE  /\ more[i].of = r
             /\ more[i].number = i
             /\ more[i].kind = IF i = Len(more) THEN Head(pipe).kind ELSE "D"
    <2>1. CASE i = Len(lines) + 1
        <3>1. more[i] = pipe[1] /\ i = Len(more)
            BY <1>1, <1>2, <2>1
        <3>2. pipe[1].of = r /\ pipe[1].number = Len(lines) + 1
            BY <1>3 DEF Transcript
        <3> QED
            BY <1>1, <2>1, <3>1, <3>2
    <2>2. CASE i # Len(lines) + 1
        <3>1. i \in 1 .. Len(lines) /\ i # Len(more)
            BY <1>2, <2>2
        <3>2. lines[i].of = r /\ lines[i].number = i /\ lines[i].kind = "D"
            BY <3>1 DEF Transcript
        <3> QED
            BY <1>2, <3>1, <3>2
    <2> QED
        BY <2>1, <2>2
<1>5. ASSUME NEW i \in 1 .. Len(rest)
      PROVE  /\ rest[i] = pipe[i + 1]
             /\ i + 1 \in 1 .. Len(pipe)
             /\ i < Len(rest) => i + 1 < Len(pipe)
             /\ Len(lines) + (i + 1) = Len(more) + i
    BY <1>1, <1>2
<1>6. ASSUME Head(pipe).kind = "D" PROVE Transcript(more, rest, r)
    <2>1. \A i \in 1 .. Len(more) :
              more[i].of = r /\ more[i].kind = "D" /\ more[i].number = i
        BY <1>4, <1>6
    <2>2. ASSUME NEW i \in 1 .. Len(rest)
          PROVE  /\ rest[i].of = r
                 /\ rest[i].number = Len(more) + i
                 /\ i < Len(rest) => rest[i].kind = "D"
        <3>1. /\ pipe[i + 1].of = r
              /\ pipe[i + 1].number = Len(lines) + (i + 1)
              /\ i + 1 < Len(pipe) => pipe[i + 1].kind = "D"
            BY <1>5 DEF Transcript
        <3> QED
            BY <1>5, <3>1
    <2> QED
        BY <2>1, <2>2 DEF Transcript
<1>7. ASSUME Head(pipe).kind # "D" PROVE rest = << >>
    <2>1. ~ (1 < Len(pipe))
        BY <1>1, <1>3, <1>7 DEF Transcript
    <2>2. Len(rest) = 0
        BY <1>1, <2>1
    <2> QED
        BY <1>1, <2>2, EmptySeq
<1>8. AllText(pipe) => AllText(rest)
    BY <1>5 DEF AllText
<1>9. Len(more) + Len(rest) = Len(lines) + Len(pipe)
    BY <1>1, <1>2
<1> QED
    BY <1>4, <1>6, <1>7, <1>8, <1>9 DEF more, rest

\* Printing the next line of a reply keeps the transcript.
LEMMA PrintOne ==
    ASSUME NEW lines \in Seq(Lines), NEW pipe \in Seq(Lines),
           NEW r \in Requests, Transcript(lines, pipe, r), AllText(pipe),
           NEW kind \in {"D", "E", "X"}
    PROVE  LET longer == Append(pipe, Line(kind, r, Len(lines) + Len(pipe) + 1))
           IN  /\ longer \in Seq(Lines)
               /\ Len(longer) = Len(pipe) + 1
               /\ Transcript(lines, longer, r)
               /\ kind = "D" => AllText(longer)
<1> DEFINE line == Line(kind, r, Len(lines) + Len(pipe) + 1)
           longer == Append(pipe, line)
<1>1. Len(lines) \in Nat /\ Len(pipe) \in Nat
    BY LenProperties
<1>2. /\ line \in Lines /\ line.of = r /\ line.kind = kind
      /\ line.number = Len(lines) + Len(pipe) + 1
    BY <1>1, LineFields
<1> HIDE DEF line
<1>3. /\ longer \in Seq(Lines)
      /\ Len(longer) = Len(pipe) + 1
      /\ \A i \in 1 .. Len(pipe) : longer[i] = pipe[i]
      /\ longer[Len(pipe) + 1] = line
    BY <1>2, AddOne
<1> HIDE DEF longer
<1>4. ASSUME NEW i \in 1 .. Len(longer)
      PROVE  /\ longer[i].of = r
             /\ longer[i].number = Len(lines) + i
             /\ i < Len(longer) => longer[i].kind = "D"
             /\ kind = "D" => longer[i].kind = "D"
    <2>1. CASE i = Len(pipe) + 1
        <3>1. longer[i] = line /\ ~ (i < Len(longer))
            BY <1>1, <1>3, <2>1
        <3>2. Len(lines) + Len(pipe) + 1 = Len(lines) + i
            BY <1>1, <2>1
        <3> QED
            BY <1>2, <3>1, <3>2
    <2>2. CASE i # Len(pipe) + 1
        <3>1. i \in 1 .. Len(pipe) /\ longer[i] = pipe[i]
            BY <1>1, <1>3, <2>2
        <3> QED
            BY <3>1 DEF Transcript, AllText
    <2> QED
        BY <2>1, <2>2
<1>5. Transcript(lines, longer, r)
    BY <1>4 DEF Transcript
<1>6. kind = "D" => AllText(longer)
    BY <1>4 DEF AllText
<1> QED
    BY <1>3, <1>5, <1>6 DEF longer, line

LEMMA NextLineFacts ==
    ASSUME Inv, NEW r \in Requests, NEW kind, NextLine(r, kind)
    PROVE  /\ heard' \in [Requests -> Seq(Lines)]
           /\ stdout' \in Seq(Lines)
           /\ \A other \in Requests : other # r => heard'[other] = heard[other]
           /\ Len(heard'[r]) + Len(stdout') = Len(heard[r]) + Len(stdout)
              \/ abandoned
           /\ heard'[r] # << >>
           /\ engine = "ready" /\ ~ abandoned => stdin = << >>
           /\ ~ abandoned =>
                  /\ Answering(r)
                  /\ \A i \in 1 .. Len(heard'[r]) :
                         /\ heard'[r][i].of = r
                         /\ heard'[r][i].number = i
                         /\ heard'[r][i].kind =
                                IF i = Len(heard'[r]) THEN kind ELSE "D"
                  /\ kind = "D" => Transcript(heard'[r], stdout', r)
                  /\ kind # "D" => stdout' = << >>
                  /\ AllText(stdout) => AllText(stdout')
                  /\ kind # "D" => ~ AllText(stdout)
<1>1. /\ stdout \in Seq(Lines) /\ stdout # << >> /\ heard[r] \in Seq(Lines)
      /\ heard \in [Requests -> Seq(Lines)]
      /\ Head(stdout).kind = kind
      /\ stdout' = Tail(stdout)
    BY DEF Inv, Typed, NextLine
<1>2. /\ Head(stdout) \in Lines /\ Tail(stdout) \in Seq(Lines)
      /\ Head(stdout) = stdout[1] /\ Len(stdout) \in Nat \ {0}
    BY <1>1, TakeOne
<1>3. /\ Append(heard[r], Head(stdout)) \in Seq(Lines)
      /\ Append(heard[r], Head(stdout)) # << >>
    BY <1>1, <1>2, AddOne
<1>4. /\ heard' \in [Requests -> Seq(Lines)]
      /\ heard'[r] = Append(heard[r], Head(stdout))
      /\ \A other \in Requests : other # r => heard'[other] = heard[other]
    BY <1>1, <1>3 DEF NextLine
<1>5. ASSUME ~ abandoned
      PROVE  Transcript(heard[r], stdout, r) /\ Answering(r)
    BY <1>5 DEF Inv, Exchange, Listening, NextLine, Continues
<1>6. ASSUME ~ abandoned
      PROVE  /\ Len(heard'[r]) + Len(stdout') = Len(heard[r]) + Len(stdout)
             /\ \A i \in 1 .. Len(heard'[r]) :
                    /\ heard'[r][i].of = r
                    /\ heard'[r][i].number = i
                    /\ heard'[r][i].kind =
                           IF i = Len(heard'[r]) THEN kind ELSE "D"
             /\ kind = "D" => Transcript(heard'[r], stdout', r)
             /\ kind # "D" => stdout' = << >>
             /\ AllText(stdout) => AllText(stdout')
    BY <1>1, <1>4, <1>5, <1>6, HearOne
<1>7. kind # "D" => ~ AllText(stdout)
    <2>1. 1 \in 1 .. Len(stdout)
        BY <1>2
    <2> QED
        BY <1>1, <1>2, <2>1 DEF AllText
<1>8. engine = "ready" /\ ~ abandoned => stdin = << >>
    BY <1>1, <1>5 DEF Answering
<1> QED
    BY <1>1, <1>2, <1>3, <1>4, <1>5, <1>6, <1>7, <1>8

LEMMA DeliverInv == ASSUME Inv, NEW r \in Requests, Deliver(r) PROVE Inv'
<1>0. /\ NextLine(r, "D") /\ handler[r] = "reading"
      /\ UNCHANGED <<handler, outcome, holder, ghostVars>>
      /\ UNCHANGED <<engine, job, said, stdin>>
    BY DEF Deliver, NextLine
<1>1. /\ heard' \in [Requests -> Seq(Lines)]
      /\ stdout' \in Seq(Lines)
      /\ \A other \in Requests : other # r => heard'[other] = heard[other]
    BY <1>0, NextLineFacts
<1>2. ASSUME ~ abandoned
      PROVE  /\ Len(heard'[r]) + Len(stdout') = Len(heard[r]) + Len(stdout)
             /\ engine = "ready" => stdin = << >>
             /\ Answering(r)
             /\ \A i \in 1 .. Len(heard'[r]) : heard'[r][i].of = r
             /\ Transcript(heard'[r], stdout', r)
             /\ AllText(stdout) => AllText(stdout')
    BY <1>0, <1>2, NextLineFacts
<1>3. \A other \in Requests :
          other # r => ~ Listening(other) /\ handler[other] # "starting"
    BY <1>0, Alone DEF InGenerate
<1>4. Listening(r) /\ ((r \in misled) <=> abandoned) /\ outcome[r] = "none"
    BY <1>0 DEF Inv, Exchange, Listening, Silent
<1>5. Typed'
    BY <1>0, <1>1 DEF Inv, Typed
<1>6. HolderInside' /\ Silent'
    BY <1>0 DEF Inv, HolderInside, Silent
<1>7. Untouched'
    BY <1>0, <1>1 DEF Inv, Untouched
<1>8. Quiet' /\ Starting'
    BY <1>0, <1>3, <1>4 DEF Quiet, Starting, Listening
<1>9. Exchange'
    <2>1. ASSUME ~ abandoned PROVE Continues(r)' /\ Answering(r)'
        BY <1>0, <1>2, <2>1 DEF Continues, Answering
    <2> QED
        BY <1>0, <1>3, <1>4, <2>1 DEF Exchange, Listening
<1>10. Past'
    BY <1>0, <1>1, <1>2, <1>4 DEF Inv, Past, Received
<1> QED
    BY <1>5, <1>6, <1>7, <1>8, <1>9, <1>10 DEF Inv

\* A line that makes its reader leave.
LEMMA LeaveReading ==
    ASSUME Inv, NEW r \in Requests, NEW kind \in {"D", "E", "X"},
           NextLine(r, kind),
           NEW how \in {"served", "error", "dropped"}, Leave(r, how),
           how = "served" => kind = "E",
           misled' = misled, abandoned' \in BOOLEAN,
           kind = "D" => abandoned',
           kind # "D" => abandoned' = abandoned
    PROVE  Inv'
<1>0. /\ handler[r] = "reading" /\ handler[r] \in InGenerate
      /\ UNCHANGED <<engine, job, said, stdin>>
    BY DEF NextLine, InGenerate
<1>1. /\ heard' \in [Requests -> Seq(Lines)]
      /\ stdout' \in Seq(Lines)
      /\ \A other \in Requests : other # r => heard'[other] = heard[other]
      /\ heard'[r] # << >>
    BY NextLineFacts
<1>2. ASSUME ~ abandoned
      PROVE  /\ engine = "ready" => stdin = << >>
             /\ Answering(r)
             /\ \A i \in 1 .. Len(heard'[r]) :
                    /\ heard'[r][i].of = r
                    /\ heard'[r][i].number = i
                    /\ heard'[r][i].kind =
                           IF i = Len(heard'[r]) THEN kind ELSE "D"
             /\ kind # "D" => stdout' = << >> /\ ~ AllText(stdout)
    BY <1>2, NextLineFacts
<1>3. /\ handler' \in [Requests -> {"new", "waiting", "done"} \cup InGenerate]
      /\ outcome' = [outcome EXCEPT ![r] = how]
      /\ outcome' \in [Requests -> {"none", "served", "error", "dropped"}]
      /\ holder' = NoOne
      /\ HolderInside'
      /\ \A other \in Requests :
             /\ ~ Listening(other)' /\ handler'[other] # "starting"
             /\ handler'[other] # "done" =>
                    /\ other # r
                    /\ handler'[other] = handler[other]
                    /\ outcome'[other] = outcome[other]
    BY <1>0, Leaving
<1>4. Typed'
    BY <1>0, <1>1, <1>3 DEF Inv, Typed
<1>5. Untouched'
    <2>1. \A other \in Requests :
              handler'[other] # "done" =>
                  /\ handler'[other] = handler[other]
                  /\ heard'[other] = heard[other]
                  /\ outcome'[other] = outcome[other]
        BY <1>1, <1>3
    <2> QED
        BY <2>1 DEF Inv, Untouched
<1>6. Silent'
    BY <1>3 DEF Inv, Silent
<1>7. Starting' /\ Exchange'
    BY <1>3 DEF Starting, Exchange
<1>8. Quiet'
    <2> SUFFICES ASSUME ~ abandoned', engine' # "dead" PROVE Drained'
        BY DEF Quiet
    <2>1. kind # "D" /\ ~ abandoned
        OBVIOUS
    <2>2. stdout' = << >> /\ ~ AllText(stdout)
        BY <1>2, <2>1
    <2>3. engine = "ready" /\ stdin = << >>
        BY <1>0, <1>2, <2>1, <2>2 DEF Answering
    <2> QED
        BY <1>0, <2>2, <2>3 DEF Drained
<1>9. Past'
    <2>1. \A other \in Requests : other # r => outcome'[other] = outcome[other]
        BY <1>3 DEF Inv, Typed
    <2>2. outcome'[r] = how
        BY <1>3 DEF Inv, Typed
    <2>3. r \notin misled => ~ abandoned
        BY <1>0 DEF Inv, Exchange, Listening
    <2>4. ASSUME r \notin misled
          PROVE  Received(heard'[r], outcome'[r], r)
        <3>1. \A i \in 1 .. Len(heard'[r]) :
                  /\ heard'[r][i].of = r
                  /\ heard'[r][i].number = i
                  /\ heard'[r][i].kind =
                         IF i = Len(heard'[r]) THEN kind ELSE "D"
            BY <1>2, <2>3, <2>4
        <3>2. outcome'[r] = "served" => kind = "E"
            BY <2>2
        <3>3. outcome'[r] = "served" =>
                  \A i \in 1 .. Len(heard'[r]) :
                      heard'[r][i].kind =
                          IF i = Len(heard'[r]) THEN "E" ELSE "D"
            BY <3>1, <3>2, Zenon
        <3> QED
            BY <1>1, <3>1, <3>3, Zenon DEF Received
    <2>5. ASSUME NEW other \in Requests \ misled, other # r
          PROVE  Received(heard'[other], outcome'[other], other)
        BY <1>1, <2>1, <2>5 DEF Inv, Past
    <2> QED
        BY <2>4, <2>5 DEF Past
<1> QED
    BY <1>3, <1>4, <1>5, <1>6, <1>7, <1>8, <1>9 DEF Inv

LEMMA LoseClientInv == ASSUME Inv, NEW r \in Requests, LoseClient(r) PROVE Inv'
BY LeaveReading DEF LoseClient

LEMMA HearEndInv == ASSUME Inv, NEW r \in Requests, HearEnd(r) PROVE Inv'
BY LeaveReading DEF HearEnd, Inv, Typed

LEMMA HearErrorInv == ASSUME Inv, NEW r \in Requests, HearError(r) PROVE Inv'
BY LeaveReading DEF HearError, Inv, Typed

-----------------------------------------------------------------------------
(* The resident process.                                                   *)

\* While the process runs and a request listens to it, unabandoned, ...
LEMMA Listener ==
    ASSUME Inv, engine = "busy", ~ abandoned
    PROVE  \E r \in Requests :
               /\ Listening(r) /\ Continues(r) /\ Answering(r)
               /\ r \notin misled
               /\ \A other \in Requests :
                      other # r => ~ Listening(other) /\ handler[other] # "starting"
<1>1. \A r \in Requests : handler[r] # "starting"
    BY DEF Inv, Starting
<1>2. PICK r \in Requests : Listening(r)
    BY <1>1 DEF Inv, Quiet, Drained
<1>3. handler[r] \in InGenerate
    BY <1>2 DEF Listening, InGenerate
<1> QED
    BY <1>2, <1>3, Alone DEF Inv, Exchange

\* A step of the process that leaves the reply under way intact.
LEMMA ProcessStep ==
    ASSUME Inv, UNCHANGED <<threadVars, holder, ghostVars>>,
           Typed', Quiet', Starting',
           \A r \in Requests :
               Listening(r) /\ ~ abandoned => Continues(r)' /\ Answering(r)'
    PROVE  Inv'
<1>1. HolderInside' /\ Silent' /\ Untouched' /\ Past'
    BY DEF Inv, HolderInside, Silent, Untouched, Past
<1>2. Exchange'
    BY DEF Inv, Exchange, Listening
<1> QED
    BY <1>1, <1>2 DEF Inv

LEMMA BecomeReadyInv == Inv /\ BecomeReady => Inv'
<1> SUFFICES ASSUME Inv, BecomeReady PROVE Inv'
    OBVIOUS
<1>1. /\ engine = "loading" /\ engine' = "ready"
      /\ stdout' = Append(stdout, Line("R", NoOne, 0))
      /\ UNCHANGED <<job, said, stdin, threadVars, holder, ghostVars>>
    BY DEF BecomeReady
<1>2. Line("R", NoOne, 0) \in Lines
    BY LineFields
<1>3. Typed'
    BY <1>1, <1>2, AddOne DEF Inv, Typed
<1>4. \A r \in Requests : Listening(r) => abandoned
    BY <1>1 DEF Inv, Exchange, Answering
<1>5. Quiet'
    BY <1>1, <1>4 DEF Inv, Quiet, Drained, Listening
<1>6. Starting'
    <2>1. Append(<< >>, Line("R", NoOne, 0)) = << Line("R", NoOne, 0) >>
        OBVIOUS
    <2> QED
        BY <1>1, <2>1 DEF Inv, Starting
<1> QED
    BY <1>1, <1>3, <1>4, <1>5, <1>6, ProcessStep

LEMMA TakeRequestInv == Inv /\ TakeRequest => Inv'
<1> SUFFICES ASSUME Inv, TakeRequest PROVE Inv'
    OBVIOUS
<1>1. /\ engine = "ready" /\ engine' = "busy" /\ stdin # << >>
      /\ job' = Head(stdin) /\ said' = 0 /\ stdin' = Tail(stdin)
      /\ UNCHANGED <<stdout, threadVars, holder, ghostVars>>
    BY DEF TakeRequest
<1>2. Typed'
    <2>1. stdin \in Seq(Requests)
        BY DEF Inv, Typed
    <2>2. Head(stdin) \in Requests /\ Tail(stdin) \in Seq(Requests)
        BY <1>1, <2>1, TakeOne
    <2> QED
        BY <1>1, <2>2 DEF Inv, Typed
<1>3. \A r \in Requests : handler[r] # "starting"
    BY <1>1 DEF Inv, Starting
<1>4. Quiet' /\ Starting'
    BY <1>1, <1>3 DEF Inv, Quiet, Drained, Starting, Listening
<1>5. ASSUME NEW r \in Requests, Listening(r), ~ abandoned
      PROVE  Continues(r)' /\ Answering(r)'
    <2>1. Continues(r) /\ Answering(r)
        BY <1>5 DEF Inv, Exchange
    <2>2. stdin = << r >> /\ heard[r] = << >> /\ stdout = << >>
        BY <1>1, <2>1 DEF Answering
    <2>3. Head(<< r >>) = r /\ Tail(<< r >>) = << >> /\ Len(<< >>) = 0
        OBVIOUS
    <2>4. job' = r /\ stdin' = << >> /\ said' = Len(heard[r]) + Len(stdout)
        BY <1>1, <2>2, <2>3
    <2>5. AllText(stdout)
        <3>1. \A i \in 1 .. 0 : FALSE
            OBVIOUS
        <3> QED
            BY <2>2, <2>3, <3>1 DEF AllText
    <2> QED
        BY <1>1, <2>1, <2>4, <2>5 DEF Continues, Answering
<1> QED
    BY <1>1, <1>2, <1>4, <1>5, ProcessStep

\* The next line of the reply, whichever it is.
LEMMA PrintStep ==
    ASSUME Inv, NEW kind \in {"D", "E", "X"}, engine = "busy",
           stdout' = Append(stdout, Line(kind, job, said + 1)),
           UNCHANGED <<stdin, threadVars, holder, ghostVars>>,
           \/ kind = "D" /\ engine' = engine /\ job' = job /\ said' = said + 1
           \/ engine' = "ready" /\ job' = NoOne /\ said' = said
    PROVE  Inv'
<1>1. /\ stdout \in Seq(Lines) /\ heard \in [Requests -> Seq(Lines)]
      /\ said \in Nat /\ job \in Requests \cup {NoOne}
    BY DEF Inv, Typed
<1>2. Line(kind, job, said + 1) \in Lines
    <2>1. kind \in {"R", "D", "E", "X"} /\ said + 1 \in Nat
        BY <1>1
    <2> QED
        BY <1>1, <2>1, LineFields
<1>3. Typed'
    BY <1>1, <1>2, AddOne DEF Inv, Typed
<1>4. \A r \in Requests : handler[r] # "starting"
    BY DEF Inv, Starting
<1>5. (\A r \in Requests : ~ Listening(r)) => abandoned
    BY <1>4 DEF Inv, Quiet, Drained
<1>6. Quiet' /\ Starting'
    BY <1>4, <1>5 DEF Quiet, Starting, Listening
<1>7. ASSUME NEW r \in Requests, Listening(r), ~ abandoned
      PROVE  Continues(r)' /\ Answering(r)'
    <2>1. Continues(r) /\ Answering(r) /\ heard[r] \in Seq(Lines)
        BY <1>1, <1>7 DEF Inv, Exchange
    <2>2. /\ job = r /\ stdin = << >> /\ AllText(stdout)
          /\ said = Len(heard[r]) + Len(stdout)
        BY <2>1 DEF Answering
    <2>3. stdout' = Append(stdout, Line(kind, r, Len(heard[r]) + Len(stdout) + 1))
        BY <2>2
    <2>4. /\ Len(stdout') = Len(stdout) + 1
          /\ Transcript(heard[r], stdout', r)
          /\ kind = "D" => AllText(stdout')
        BY <1>1, <2>1, <2>2, <2>3, PrintOne DEF Continues
    <2>5. Len(heard[r]) \in Nat /\ Len(stdout) \in Nat
        BY <1>1, <2>1, LenProperties
    <2>6. said + 1 = Len(heard[r]) + Len(stdout')
        <3> DEFINE before == Len(heard[r])
                   waiting == Len(stdout)
                   after == Len(stdout')
        <3>1. /\ before \in Nat /\ waiting \in Nat
              /\ said = before + waiting /\ after = waiting + 1
            BY <2>2, <2>4, <2>5
        <3>2. said + 1 = before + after
            <4> HIDE DEF before, waiting, after
            <4> QED
                BY <3>1
        <3> QED
            BY <3>2
    <2> QED
        BY <2>2, <2>4, <2>6 DEF Continues, Answering
<1> QED
    BY <1>3, <1>6, <1>7, ProcessStep

LEMMA FailSilentlyInv == Inv /\ FailSilently => Inv'
<1> SUFFICES ASSUME Inv, FailSilently PROVE Inv'
    OBVIOUS
<1>1. /\ engine = "busy" /\ engine' = "ready" /\ job' = NoOne
      /\ UNCHANGED <<said, stdin, stdout, threadVars, holder, ghostVars>>
    BY DEF FailSilently
<1>2. Typed'
    BY <1>1 DEF Inv, Typed
<1>3. \A r \in Requests : handler[r] # "starting"
    BY <1>1 DEF Inv, Starting
<1>4. Quiet' /\ Starting'
    BY <1>1, <1>3 DEF Inv, Quiet, Drained, Starting, Listening
<1>5. ASSUME NEW r \in Requests, Listening(r), ~ abandoned
      PROVE  Continues(r)' /\ Answering(r)'
    BY <1>1, <1>5 DEF Inv, Exchange, Continues, Answering
<1> QED
    BY <1>1, <1>2, <1>4, <1>5, ProcessStep

LEMMA CrashInv == Inv /\ Crash => Inv'
<1> SUFFICES ASSUME Inv, Crash PROVE Inv'
    OBVIOUS
<1>1. /\ engine # "dead" /\ engine' = "dead" /\ job' = NoOne /\ stdin' = << >>
      /\ UNCHANGED <<said, stdout, threadVars, holder, ghostVars>>
    BY DEF Crash
<1>2. Typed'
    BY <1>1, EmptySeq DEF Inv, Typed
<1>3. Quiet'
    BY <1>1 DEF Quiet
<1>4. Starting'
    <2>1. Len(<< >>) <= 1 /\ Len(<< Line("R", NoOne, 0) >>) <= 1
        OBVIOUS
    <2> QED
        BY <1>1, <2>1 DEF Inv, Starting
<1>5. ASSUME NEW r \in Requests, Listening(r), ~ abandoned
      PROVE  Continues(r)' /\ Answering(r)'
    BY <1>1, <1>5 DEF Inv, Exchange, Continues, Answering
<1> QED
    BY <1>1, <1>2, <1>3, <1>4, <1>5, ProcessStep

-----------------------------------------------------------------------------
(* The theorems.                                                           *)

LEMMA StutterInv == Inv /\ UNCHANGED vars => Inv'
<1> SUFFICES ASSUME Inv, UNCHANGED vars PROVE Inv'
    OBVIOUS
<1>1. UNCHANGED <<threadVars, holder, processVars, ghostVars>>
    BY DEF vars
<1>2. Typed' /\ Quiet' /\ Starting'
    BY <1>1 DEF Inv, Typed, Quiet, Drained, Starting, Listening
<1>3. ASSUME NEW r \in Requests, Listening(r), ~ abandoned
      PROVE  Continues(r)' /\ Answering(r)'
    BY <1>1, <1>3 DEF Inv, Exchange, Continues, Answering
<1> QED
    BY <1>1, <1>2, <1>3, ProcessStep

LEMMA HandleInv == ASSUME Inv, NEW r \in Requests, Handle(r) PROVE Inv'
<1>1. CASE Acquire(r) \/ FindRunning(r) \/ Restart(r)
    BY <1>1, AcquireInv, FindRunningInv, RestartInv
<1>2. CASE HearReady(r) \/ WriteRequest(r) \/ Flush(r) \/ PipeBreaks(r)
    BY <1>2, HearReadyInv, WriteRequestInv, FlushInv, PipeBreaksInv
<1>3. CASE Deliver(r) \/ HearEnd(r) \/ HearError(r) \/ EndOfFile(r)
    BY <1>3, DeliverInv, HearEndInv, HearErrorInv, EndOfFileInv
<1> QED
    BY <1>1, <1>2, <1>3 DEF Handle

LEMMA ReplyInv == Inv /\ Reply => Inv'
<1> SUFFICES ASSUME Inv, Reply PROVE Inv'
    OBVIOUS
<1>1. CASE Say
    BY <1>1, PrintStep DEF Say
<1>2. CASE Conclude("E")
    BY <1>2, PrintStep DEF Conclude
<1>3. CASE Conclude("X")
    BY <1>3, PrintStep DEF Conclude
<1> QED
    BY <1>1, <1>2, <1>3 DEF Reply

LEMMA NextInv == Inv /\ [Next]_vars => Inv'
<1> SUFFICES ASSUME Inv, [Next]_vars PROVE Inv'
    OBVIOUS
<1>1. ASSUME NEW r \in Requests, Handle(r) PROVE Inv'
    BY <1>1, HandleInv
<1>2. ASSUME NEW r \in Requests, Client(r) PROVE Inv'
    BY <1>2, ArriveInv, LeaveEarlyInv, LoseClientInv DEF Client
<1>3. CASE Process
    BY <1>3, BecomeReadyInv, TakeRequestInv, ReplyInv DEF Process
<1>4. CASE FailSilently \/ Crash
    BY <1>4, FailSilentlyInv, CrashInv
<1>5. CASE UNCHANGED vars
    BY <1>5, StutterInv
<1> QED
    BY <1>1, <1>2, <1>3, <1>4, <1>5 DEF Next

\* The strengthening is an invariant of the protocol.
THEOREM InvariantHolds == Spec => []Inv
<1> QED
    BY InitInv, NextInv, PTL DEF Spec

\* Every variable of the server keeps its type, and the lock is held by the one
\* thread inside generate.
THEOREM ServeTypes == Spec => []TypeOK
<1>1. Inv => TypeOK
    BY DEF Inv, TypeOK
<1> QED
    BY <1>1, InvariantHolds, PTL

\* A request hears only its own reply, whatever crashes, restarts and silent
\* failures happen, unless it was written to a process that had a reply
\* abandoned.
THEOREM OwnReplyHeard == Spec => []OwnReplyUnlessMisled
<1>1. Inv => OwnReplyUnlessMisled
    BY DEF Inv, Past, Received, OwnReplyUnlessMisled, IsOwn
<1> QED
    BY <1>1, InvariantHolds, PTL

\* A request reported as served heard its reply whole and in order.
THEOREM ReplyServedCompletely == Spec => []ServedCompletely
<1>1. Inv => ServedCompletely
    BY DEF Inv, Past, Received, ServedCompletely
<1> QED
    BY <1>1, InvariantHolds, PTL

\* Between requests nothing is left in the pipes of a running process that
\* had no reply abandoned.
THEOREM PipesDrained == Spec => []IdleMeansDrained
<1>1. ASSUME Inv PROVE IdleMeansDrained
    <2>1. holder = NoOne =>
              \A r \in Requests : ~ Listening(r) /\ handler[r] # "starting"
        BY <1>1, ServeAssumption DEF Inv, HolderInside, Listening, InGenerate
    <2> QED
        BY <1>1, <2>1 DEF Inv, Quiet, Drained, IdleMeansDrained
<1> QED
    BY <1>1, InvariantHolds, PTL
=============================================================================
