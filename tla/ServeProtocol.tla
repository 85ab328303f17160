---------------------------- MODULE ServeProtocol ----------------------------
(***************************************************************************)
(* The server around the resident chat process: the handler threads of     *)
(* server/qwen38_serve.py, the Engine object they share, and the process   *)
(* at the other end of two pipes (commands/qwen38_m3_chat.c, its side of   *)
(* the line protocol only; ChatEngine has the rest).                       *)
(*                                                                         *)
(* ThreadingHTTPServer runs every HTTP request in a thread of its own.     *)
(* Engine.generate holds one lock while it writes the request as a line    *)
(* and reads the reply line by line: "D" for a piece of text, "E" for the  *)
(* end, "X" for an error.  A line does not say which request it answers.   *)
(* The lock is released by whatever leaves generate, also by an exception  *)
(* of the caller's on_delta when a streaming client has gone away.         *)
(***************************************************************************)
EXTENDS Naturals, Sequences

CONSTANTS Requests,        \* HTTP requests, each with its handler thread
          Streaming,       \* those answered as server-sent events
          MaximumDeltas,   \* pieces of text in the longest reply
          LongRequests,    \* those whose line is longer than the pipe to the engine
          StdinRoom,       \* other request lines that pipe can hold
          StdoutRoom,      \* reply lines the pipe back can hold
          ClientsLeave,    \* clients may disconnect during a reply
          EngineCrashes,   \* the process may exit at any moment
          SilentFailures,  \* a prefill or prompt forward may fail
          NoOne

ASSUME ServeAssumption ==
    /\ Streaming \subseteq Requests
    /\ LongRequests \subseteq Requests
    /\ NoOne \notin Requests
    /\ MaximumDeltas \in Nat
    /\ StdinRoom \in Nat
    /\ StdoutRoom \in Nat \ {0}
    /\ {ClientsLeave, EngineCrashes, SilentFailures} \subseteq BOOLEAN

VARIABLES
    handler,    \* where each request's thread is
    outcome,    \* how it ended
    heard,      \* the reply lines its generate call consumed
    holder,     \* the owner of Engine.lock
    engine,     \* the resident process
    job,        \* the request it is answering
    said,       \* the D lines it has printed for it
    stdin,      \* pipe to the process: requests
    stdout,     \* pipe from the process: reply lines
    abandoned,  \* history variable: a reply of this process was abandoned
    misled      \* history variable: requests written after that

threadVars == <<handler, outcome, heard>>
processVars == <<engine, job, said, stdin, stdout>>
ghostVars == <<abandoned, misled>>
vars == <<threadVars, holder, processVars, ghostVars>>

Line(kind, of, number) == [kind |-> kind, of |-> of, number |-> number]

InGenerate == {"checking", "starting", "writing", "flushing", "reading"}

Init ==
    /\ handler = [r \in Requests |-> "new"]
    /\ outcome = [r \in Requests |-> "none"]
    /\ heard = [r \in Requests |-> << >>]
    /\ holder = NoOne
    /\ engine = "ready"
    /\ job = NoOne
    /\ said = 0
    /\ stdin = << >>
    /\ stdout = << >>
    /\ abandoned = FALSE
    /\ misled = {}

-----------------------------------------------------------------------------
(* Handler threads.                                                        *)

Move(r, stage) == handler' = [handler EXCEPT ![r] = stage]

\* Leaving generate, by return or by an exception, releases the lock.
Leave(r, how) ==
    /\ Move(r, "done")
    /\ outcome' = [outcome EXCEPT ![r] = how]
    /\ holder' = NoOne

\* A request has been parsed and rendered.
Arrive(r) ==
    /\ handler[r] = "new"
    /\ Move(r, "waiting")
    /\ UNCHANGED <<outcome, heard, holder, processVars, ghostVars>>

\* The response head or the first event already fails to reach the client.
LeaveEarly(r) ==
    /\ ClientsLeave
    /\ r \in Streaming
    /\ handler[r] = "new"
    /\ Move(r, "done")
    /\ outcome' = [outcome EXCEPT ![r] = "dropped"]
    /\ UNCHANGED <<heard, holder, processVars, ghostVars>>

\* A mutation: the lock does not exclude.
AcquireShared(r) ==
    /\ handler[r] = "waiting"
    /\ holder' = r
    /\ Move(r, "checking")
    /\ UNCHANGED <<outcome, heard, processVars, ghostVars>>

Acquire(r) ==
    /\ handler[r] = "waiting"
    /\ holder = NoOne
    /\ holder' = r
    /\ Move(r, "checking")
    /\ UNCHANGED <<outcome, heard, processVars, ghostVars>>

\* process.poll() found it running.
FindRunning(r) ==
    /\ handler[r] = "checking"
    /\ engine # "dead"
    /\ Move(r, "writing")
    /\ UNCHANGED <<outcome, heard, holder, processVars, ghostVars>>

\* Engine.start: a new process behind new pipes.
Restart(r) ==
    /\ handler[r] = "checking"
    /\ engine = "dead"
    /\ Move(r, "starting")
    /\ engine' = "loading"
    /\ job' = NoOne
    /\ said' = 0
    /\ stdin' = << >>
    /\ stdout' = << >>
    /\ abandoned' = FALSE
    /\ UNCHANGED <<outcome, heard, holder, misled>>

HearReady(r) ==
    /\ handler[r] = "starting"
    /\ stdout # << >>
    /\ stdout' = Tail(stdout)
    /\ Move(r, "writing")
    /\ UNCHANGED <<outcome, heard, holder, engine, job, said, stdin, ghostVars>>

\* The line is written whole or not at all from the process's point of view,
\* but flush returns only when what is left of it fits the pipe: a long one
\* only when the process has taken it.
WriteRequest(r) ==
    /\ handler[r] = "writing"
    /\ engine # "dead"
    /\ stdin' = Append(stdin, r)
    /\ Move(r, "flushing")
    /\ misled' = IF abandoned THEN misled \cup {r} ELSE misled
    /\ UNCHANGED <<outcome, heard, holder, engine, job, said, stdout, abandoned>>

FitsPipe(r) ==
    IF r \in LongRequests THEN \A i \in 1 .. Len(stdin) : stdin[i] # r
                          ELSE Len(stdin) <= StdinRoom

Flush(r) ==
    /\ handler[r] = "flushing"
    /\ engine # "dead"
    /\ FitsPipe(r)
    /\ Move(r, "reading")
    /\ UNCHANGED <<outcome, heard, holder, processVars, ghostVars>>

\* The process exited between poll and the end of flush.
PipeBreaks(r) ==
    /\ handler[r] \in {"writing", "flushing"}
    /\ engine = "dead"
    /\ Leave(r, "dropped")
    /\ UNCHANGED <<heard, processVars, ghostVars>>

NextLine(r, kind) ==
    /\ handler[r] = "reading"
    /\ stdout # << >>
    /\ Head(stdout).kind = kind
    /\ stdout' = Tail(stdout)
    /\ heard' = [heard EXCEPT ![r] = Append(@, Head(stdout))]
    /\ UNCHANGED <<engine, job, said, stdin>>

Deliver(r) ==
    /\ NextLine(r, "D")
    /\ UNCHANGED <<handler, outcome, holder, ghostVars>>

\* A mutation: the lock is released behind the reading loop, which an exception
\* of on_delta skips.
LoseClientLocked(r) ==
    /\ ClientsLeave
    /\ r \in Streaming
    /\ NextLine(r, "D")
    /\ Move(r, "done")
    /\ outcome' = [outcome EXCEPT ![r] = "dropped"]
    /\ abandoned' = TRUE
    /\ UNCHANGED <<holder, misled>>

\* on_delta raises BrokenPipeError: the rest of the reply stays in the pipe.
LoseClient(r) ==
    /\ ClientsLeave
    /\ r \in Streaming
    /\ NextLine(r, "D")
    /\ Leave(r, "dropped")
    /\ abandoned' = TRUE
    /\ UNCHANGED misled

\* A mutation: any text line is taken for the end of the reply.
HearEndEarly(r) ==
    /\ NextLine(r, "D")
    /\ Leave(r, "served")
    /\ UNCHANGED ghostVars

HearEnd(r) ==
    /\ NextLine(r, "E")
    /\ Leave(r, "served")
    /\ UNCHANGED ghostVars

HearError(r) ==
    /\ NextLine(r, "X")
    /\ Leave(r, "error")
    /\ UNCHANGED ghostVars

\* Two mutations: the end of the pipe counts as the end of the reply; it is
\* noticed only while the process starts.
EndOfFileAsEnd(r) ==
    /\ handler[r] \in {"starting", "reading"}
    /\ engine = "dead"
    /\ stdout = << >>
    /\ Leave(r, "served")
    /\ UNCHANGED <<heard, processVars, ghostVars>>

EndOfFileAtStart(r) ==
    /\ handler[r] = "starting"
    /\ engine = "dead"
    /\ stdout = << >>
    /\ Leave(r, "error")
    /\ UNCHANGED <<heard, processVars, ghostVars>>

\* readline returns "" : while starting, or in the middle of a request.
EndOfFile(r) ==
    /\ handler[r] \in {"starting", "reading"}
    /\ engine = "dead"
    /\ stdout = << >>
    /\ Leave(r, "error")
    /\ UNCHANGED <<heard, processVars, ghostVars>>

-----------------------------------------------------------------------------
(* The resident process.                                                   *)

outside == <<threadVars, holder, ghostVars>>

CanPrint == Len(stdout) < StdoutRoom

BecomeReady ==
    /\ engine = "loading"
    /\ CanPrint
    /\ stdout' = Append(stdout, Line("R", NoOne, 0))
    /\ engine' = "ready"
    /\ UNCHANGED <<job, said, stdin, outside>>

TakeRequest ==
    /\ engine = "ready"
    /\ stdin # << >>
    /\ job' = Head(stdin)
    /\ said' = 0
    /\ stdin' = Tail(stdin)
    /\ engine' = "busy"
    /\ UNCHANGED <<stdout, outside>>

Say ==
    /\ engine = "busy"
    /\ said < MaximumDeltas
    /\ CanPrint
    /\ stdout' = Append(stdout, Line("D", job, said + 1))
    /\ said' = said + 1
    /\ UNCHANGED <<engine, job, stdin, outside>>

\* The request is over: "E" with the statistics, or "X" with a reason.
Conclude(kind) ==
    /\ engine = "busy"
    /\ CanPrint
    /\ stdout' = Append(stdout, Line(kind, job, said + 1))
    /\ engine' = "ready"
    /\ job' = NoOne
    /\ UNCHANGED <<said, stdin, outside>>

\* A failed prefill or prompt forward resets the layers and goes on to the
\* next request without printing a line.
FailSilently ==
    /\ SilentFailures
    /\ engine = "busy"
    /\ said = 0
    /\ engine' = "ready"
    /\ job' = NoOne
    /\ UNCHANGED <<said, stdin, stdout, outside>>

Crash ==
    /\ EngineCrashes
    /\ engine # "dead"
    /\ engine' = "dead"
    /\ job' = NoOne
    /\ stdin' = << >>
    /\ UNCHANGED <<said, stdout, outside>>

-----------------------------------------------------------------------------
Handle(r) ==
    \/ Acquire(r)
    \/ FindRunning(r)
    \/ Restart(r)
    \/ HearReady(r)
    \/ WriteRequest(r)
    \/ Flush(r)
    \/ PipeBreaks(r)
    \/ Deliver(r)
    \/ HearEnd(r)
    \/ HearError(r)
    \/ EndOfFile(r)

Client(r) == Arrive(r) \/ LeaveEarly(r) \/ LoseClient(r)

Reply == Say \/ Conclude("E") \/ Conclude("X")

Process == BecomeReady \/ TakeRequest \/ Reply

Next ==
    \/ \E r \in Requests : Handle(r) \/ Client(r)
    \/ Process
    \/ FailSilently
    \/ Crash

Spec == Init /\ [][Next]_vars

\* Threads run, and the process works on what it is given.  Clients, Metal
\* and crashes owe nothing.  threading.Lock is not fair, but of finitely many
\* requests each finds it free in the end.
FairSpec ==
    /\ Spec
    /\ \A r \in Requests : WF_vars(Handle(r))
    /\ WF_vars(Process)

-----------------------------------------------------------------------------
(* Properties.                                                             *)

Lines == [kind : {"R", "D", "E", "X"}, of : Requests \cup {NoOne}, number : Nat]

Typed ==
    /\ handler \in [Requests -> {"new", "waiting", "done"} \cup InGenerate]
    /\ outcome \in [Requests -> {"none", "served", "error", "dropped"}]
    /\ heard \in [Requests -> Seq(Lines)]
    /\ holder \in Requests \cup {NoOne}
    /\ engine \in {"dead", "loading", "ready", "busy"}
    /\ job \in Requests \cup {NoOne}
    /\ said \in Nat
    /\ stdin \in Seq(Requests)
    /\ stdout \in Seq(Lines)
    /\ abandoned \in BOOLEAN
    /\ misled \subseteq Requests

HolderInside ==
    \A r \in Requests : handler[r] \in InGenerate <=> holder = r

\* Types, and the lock: whoever is inside generate holds it, and whoever has
\* left, by whatever exit, does not.
TypeOK == Typed /\ HolderInside

IsOwn(r) == \A i \in 1 .. Len(heard[r]) : heard[r][i].of = r

\* generate's contract, "Run one request; call on_delta(text) per chunk;
\* return stats": what a request gets is the answer to that request.
OwnReply == \A r \in Requests : IsOwn(r)

\* The same, as far as the code keeps it: a request is answered with its own
\* lines unless a reply of the same process was abandoned before it.
OwnReplyUnlessMisled == \A r \in Requests \ misled : IsOwn(r)

\* A request that was served received its whole reply: every piece of text
\* once and in order, and the end line last.
ServedCompletely ==
    \A r \in Requests \ misled :
        outcome[r] = "served" =>
            /\ heard[r] # << >>
            /\ \A i \in 1 .. Len(heard[r]) :
                   /\ heard[r][i].number = i
                   /\ heard[r][i].kind = IF i = Len(heard[r]) THEN "E" ELSE "D"

\* While nobody is inside generate, a running process that had no reply
\* abandoned has been emptied: no request, no reply line is left over.
IdleMeansDrained ==
    holder = NoOne /\ ~ abandoned /\ engine # "dead" =>
        /\ engine = "ready"
        /\ stdin = << >>
        /\ stdout = << >>

\* Somebody waits for a reply of which not one line will come.
Silence ==
    /\ \E r \in Requests : handler[r] = "reading" /\ heard[r] = << >>
    /\ engine = "ready"
    /\ stdin = << >>
    /\ stdout = << >>

\* The server is writing a line the process does not read, the process is
\* printing a line the server does not read: what is left of an abandoned
\* reply fills the pipe back while the next request does not fit the pipe.
Standoff ==
    /\ abandoned
    /\ \E r \in Requests : handler[r] = "flushing" /\ ~ FitsPipe(r)
    /\ engine = "busy"
    /\ ~ CanPrint

\* Every request that waits for the engine is done in the end, through
\* crashes, restarts, abandoned replies and pipes that are full.  Two things
\* hold it up for ever, with all behind it, and nothing else does: a request
\* before it that failed without a word (its prefill failed), and a request
\* longer than the pipe that meets an abandoned reply longer than the pipe back.
EveryRequestEndsUnlessStuck ==
    \A r \in Requests :
        handler[r] = "waiting" ~> (handler[r] = "done" \/ Silence \/ Standoff)
=============================================================================
