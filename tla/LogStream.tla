----------------------------- MODULE LogStream -----------------------------
(***************************************************************************)
(* One stream of a function's logs: the HTTP handler (internal/api/        *)
(* stream.go), the goroutine that looks for running containers every 200 ms*)
(* and the goroutines it starts, one for each (internal/service/           *)
(* stream_service.go).  They all write to one bounded channel, which only  *)
(* the handler reads, and only while its client is there.                  *)
(*                                                                         *)
(* Containers come, write lines and end on their own.  The function is     *)
(* resolved once, so that these are the containers of one version.         *)
(***************************************************************************)
EXTENDS Naturals, Sequences, FiniteSets

CONSTANTS
    Containers, \* containers of the version the stream was opened for
    Streams,    \* goroutines that stream a container
    Capacity,   \* capacity of the channel (100 in the code)
    Lines,      \* bound on the lines each container writes
    Blank,      \* lines that are empty once trimmed
    Backlog,    \* lines of the past that a new reader starts with (10)
    None,       \* no container
    Faults      \* kinds of call that may fail

ASSUME StreamAssumption ==
    /\ None \notin Containers
    /\ Lines \in [Containers -> Nat]
    /\ {Capacity, Backlog} \subseteq Nat /\ Capacity > 0
    /\ Faults \subseteq {"store", "inspect", "open", "read"}

VARIABLES
    life, written,    \* containers: their state, the lines written so far
    chan, closed,     \* the channel, and whether it is closed
    handler, left,    \* the handler; whether its client has gone
    poller, found,    \* the polling goroutine; containers it saw running
    active,           \* activeStreams
    step, source, pos, \* streaming goroutines: what they stream, the last line read
    got,              \* history: the lines the client was sent
    start,            \* history: the line after which the logs were opened
    opened            \* history: containers whose logs were opened, and again

logVars  == <<life, written>>
chanVars == <<chan, closed>>
handVars == <<handler, left, got>>
pollVars == <<poller, found>>
strVars  == <<step, source, pos, start, opened>>
vars == <<logVars, chanVars, handVars, pollVars, active, strVars>>

-----------------------------------------------------------------------------
(* Values *)

Line  == [from : Containers, line : Nat]
Error == [from |-> None, line |-> 0]

PollerStep == {"none", "resolve", "tell", "report", "select", "complain", "launch", "ended"}
StreamStep == {"idle", "open", "check", "read", "send", "close"}

TypeOK ==
    /\ life \in [Containers -> {"absent", "running", "ended"}]
    /\ written \in [Containers -> Nat]
    /\ chan \in Seq(Line \cup {Error}) /\ Len(chan) <= Capacity
    /\ closed \in BOOLEAN
    /\ handler \in {"new", "serving", "done"} /\ left \in BOOLEAN
    /\ poller \in PollerStep /\ found \subseteq Containers
    /\ active \subseteq Containers
    /\ step \in [Streams -> StreamStep]
    /\ source \in [Streams -> Containers \cup {None}]
    /\ pos \in [Streams -> Nat]
    /\ start \in [Containers -> Nat]
    /\ got \subseteq Line
    /\ opened \in [Containers -> {"never", "once", "again"}]

Init ==
    /\ life = [c \in Containers |-> "absent"]
    /\ written = [c \in Containers |-> 0]
    /\ chan = <<>> /\ closed = FALSE
    /\ handler = "new" /\ left = FALSE
    /\ poller = "none" /\ found = {} /\ active = {}
    /\ step = [s \in Streams |-> "idle"]
    /\ source = [s \in Streams |-> None]
    /\ pos = [s \in Streams |-> 0]
    /\ start = [c \in Containers |-> 0]
    /\ got = {} /\ opened = [c \in Containers |-> "never"]

-----------------------------------------------------------------------------
(* The environment *)

ContainerStarts(c) ==
    /\ life[c] = "absent"
    /\ life' = [life EXCEPT ![c] = "running"]
    /\ UNCHANGED <<written, chanVars, handVars, pollVars, active, strVars>>

ContainerWrites(c) ==
    /\ life[c] = "running" /\ written[c] < Lines[c]
    /\ written' = [written EXCEPT ![c] = @ + 1]
    /\ UNCHANGED <<life, chanVars, handVars, pollVars, active, strVars>>

\* Stopped or deleted, by the spleen, a rollback, a failed call or a shutdown.
ContainerEnds(c) ==
    /\ life[c] = "running"
    /\ life' = [life EXCEPT ![c] = "ended"]
    /\ UNCHANGED <<written, chanVars, handVars, pollVars, active, strVars>>

\* The client closes the connection: the context of the request is done.
ClientLeaves ==
    /\ handler = "serving" /\ ~left
    /\ left' = TRUE
    /\ UNCHANGED <<logVars, chanVars, handler, got, pollVars, active, strVars>>

-----------------------------------------------------------------------------
(* The channel, and the handler that reads it *)

\* r.Context() is done also when the handler has returned.
ContextDone == left \/ handler = "done"

Full == Len(chan) = Capacity

\* A send waits for room.  On a closed channel it would panic.
Put(item) ==
    /\ ~closed /\ ~Full
    /\ chan' = Append(chan, item)

\* GetFunctionID fails for a name without an active version: 404.
HandlerStarts ==
    /\ handler = "new"
    /\ \/ handler' = "serving" /\ poller' = "resolve"
       \/ handler' = "done" /\ UNCHANGED poller
    /\ UNCHANGED <<logVars, chanVars, left, got, found, active, strVars>>

\* Slip: an error message counts as a line.
ReceivesAnything ==
    /\ handler = "serving" /\ chan # <<>>
    /\ chan' = Tail(chan)
    /\ got' = got \cup {Head(chan)}
    /\ UNCHANGED <<logVars, closed, handler, left, pollVars, active, strVars>>

HandlerReceives ==
    /\ handler = "serving" /\ chan # <<>>
    /\ chan' = Tail(chan)
    /\ got' = got \cup ({Head(chan)} \ {Error})
    /\ UNCHANGED <<logVars, closed, handler, left, pollVars, active, strVars>>

\* The channel is closed and empty, or the context is done; whatever is still
\* in the channel then stays there.
HandlerReturns ==
    /\ handler = "serving"
    /\ left \/ (closed /\ chan = <<>>)
    /\ handler' = "done"
    /\ UNCHANGED <<logVars, chanVars, left, got, pollVars, active, strVars>>

-----------------------------------------------------------------------------
(* StreamFunctionLogs *)

PollerAt(p) == poller = p
PollerGoto(p) == poller' = p

\* The active version is looked up a second time, and may be gone by now.
ResolveAgain ==
    /\ PollerAt("resolve")
    /\ \/ PollerGoto("select")
       \/ PollerGoto("tell")
    /\ UNCHANGED <<logVars, chanVars, handVars, found, active, strVars>>

\* It is then told twice: by StreamFunctionLogs and by the goroutine that
\* called it, which also closes the channel.
TellError ==
    /\ PollerAt("tell") /\ Put(Error)
    /\ PollerGoto("report")
    /\ UNCHANGED <<logVars, closed, handVars, found, active, strVars>>

ReportAndClose ==
    /\ PollerAt("report") /\ ~Full
    /\ chan' = Append(chan, Error) /\ closed' = TRUE
    /\ PollerGoto("ended")
    /\ UNCHANGED <<logVars, handVars, found, active, strVars>>

\* Slip: a client that left is an error too.
PollerReports ==
    /\ PollerAt("select") /\ ContextDone
    /\ PollerGoto("report")
    /\ UNCHANGED <<logVars, chanVars, handVars, found, active, strVars>>

\* Slip: only the ticker is waited for.
PollerGoesOn == FALSE

\* case <-ctx.Done(): return nil
PollerReturns ==
    /\ PollerAt("select") /\ ContextDone
    /\ PollerGoto("ended")
    /\ UNCHANGED <<logVars, chanVars, handVars, found, active, strVars>>

\* What filterRunningContainers may find: a container that cannot be inspected
\* does not count as running.
RunningSeen ==
    LET running == {c \in Containers : life[c] = "running"} IN
    IF "inspect" \in Faults THEN SUBSET running ELSE {running}

\* case <-ticker.C: the rows of the version, and which of them run.
Poll ==
    /\ PollerAt("select")
    /\ \/ /\ found' \in RunningSeen
          /\ PollerGoto("launch")
       \/ /\ "store" \in Faults
          /\ PollerGoto("complain")
          /\ UNCHANGED found
    /\ UNCHANGED <<logVars, chanVars, handVars, active, strVars>>

\* The error of the query goes to the client, who may have gone.
Complain ==
    /\ PollerAt("complain") /\ Put(Error)
    /\ PollerGoto("select")
    /\ UNCHANGED <<logVars, closed, handVars, found, active, strVars>>

\* Slip: the goroutine itself enters its container, when it gets to run.
LaunchUnmarked(c) ==
    /\ PollerAt("launch") /\ c \in found
    /\ found' = found \ {c}
    /\ IF c \in active
       THEN UNCHANGED <<active, step, source>>
       ELSE \E s \in Streams :
               /\ step[s] = "idle"
               /\ step' = [step EXCEPT ![s] = "open"]
               /\ source' = [source EXCEPT ![s] = c]
               /\ UNCHANGED active
    /\ UNCHANGED <<logVars, chanVars, handVars, poller, pos, start, opened>>

\* One container that was seen running, some time ago: a goroutine for it,
\* unless activeStreams says that it has one.
Launch(c) ==
    /\ PollerAt("launch") /\ c \in found
    /\ found' = found \ {c}
    /\ IF c \in active
       THEN UNCHANGED <<active, step, source>>
       ELSE \E s \in Streams :
               /\ step[s] = "idle"
               /\ step' = [step EXCEPT ![s] = "open"]
               /\ source' = [source EXCEPT ![s] = c]
               /\ active' = active \cup {c}
    /\ UNCHANGED <<logVars, chanVars, handVars, poller, pos, start, opened>>

LaunchEnds ==
    /\ PollerAt("launch") /\ found = {}
    /\ PollerGoto("select")
    /\ UNCHANGED <<logVars, chanVars, handVars, found, active, strVars>>

-----------------------------------------------------------------------------
(* streamSingleContainer *)

StepTo(s, t) == step' = [step EXCEPT ![s] = t]

\* StreamContainerLogs skips all but the last lines of the past.
Skipped(c) == IF written[c] > Backlog THEN written[c] - Backlog ELSE 0

\* A container that was deleted meanwhile has no logs to open, one that was
\* stopped has.
Open(s) ==
    /\ step[s] = "open"
    /\ LET c == source[s] IN
          \/ /\ pos' = [pos EXCEPT ![s] = Skipped(c)]
             /\ start' = [start EXCEPT ![c] = Skipped(c)]
             /\ opened' = [opened EXCEPT ![c] = IF @ = "never" THEN "once" ELSE "again"]
             /\ StepTo(s, "check")
          \/ /\ life[c] = "ended" \/ "open" \in Faults
             /\ StepTo(s, "close")
             /\ UNCHANGED <<pos, start, opened>>
    /\ UNCHANGED <<logVars, chanVars, handVars, pollVars, active, source>>

\* The context is looked at between two lines only.
CheckContext(s) ==
    /\ step[s] = "check"
    /\ StepTo(s, IF ContextDone THEN "close" ELSE "read")
    /\ UNCHANGED <<logVars, chanVars, handVars, pollVars, active, source, pos, start, opened>>

\* Slip: the end of the logs is one more reason to try again.
ReadOn(s) ==
    /\ step[s] = "read"
    /\ LET c == source[s] IN
          \/ /\ pos[s] < written[c]
             /\ pos' = [pos EXCEPT ![s] = @ + 1]
             /\ StepTo(s, IF pos[s] + 1 \in Blank THEN "check" ELSE "send")
          \/ /\ life[c] = "ended" \/ "read" \in Faults
             /\ StepTo(s, "check")
             /\ UNCHANGED pos
    /\ UNCHANGED <<logVars, chanVars, handVars, pollVars, active, source, start, opened>>

\* Reads until there is a line, however long that takes: the logs are followed
\* with a context that outlives the request.  They end with the container, and
\* whatever was not read by then may be lost with it.
Read(s) ==
    /\ step[s] = "read"
    /\ LET c == source[s] IN
          \/ /\ pos[s] < written[c]
             /\ pos' = [pos EXCEPT ![s] = @ + 1]
             /\ StepTo(s, IF pos[s] + 1 \in Blank THEN "check" ELSE "send")
          \/ /\ life[c] = "ended" \/ "read" \in Faults
             /\ StepTo(s, "close")
             /\ UNCHANGED pos
    /\ UNCHANGED <<logVars, chanVars, handVars, pollVars, active, source, start, opened>>

\* Slip: a full channel drops the line.
SendOrDrop(s) ==
    /\ step[s] = "send"
    /\ \/ Put([from |-> source[s], line |-> pos[s]])
       \/ Full /\ UNCHANGED chan
    /\ StepTo(s, "check")
    /\ UNCHANGED <<logVars, closed, handVars, pollVars, active, source, pos, start, opened>>

Send(s) ==
    /\ step[s] = "send"
    /\ Put([from |-> source[s], line |-> pos[s]])
    /\ StepTo(s, "check")
    /\ UNCHANGED <<logVars, closed, handVars, pollVars, active, source, pos, start, opened>>

\* The goroutine ends: the container may be streamed anew.
Close(s) ==
    /\ step[s] = "close"
    /\ active' = active \ {source[s]}
    /\ StepTo(s, "idle")
    /\ source' = [source EXCEPT ![s] = None]
    /\ pos' = [pos EXCEPT ![s] = 0]
    /\ UNCHANGED <<logVars, chanVars, handVars, pollVars, start, opened>>

-----------------------------------------------------------------------------
(* The specification *)

Environment ==
    \/ ClientLeaves
    \/ \E c \in Containers : ContainerStarts(c) \/ ContainerWrites(c) \/ ContainerEnds(c)

PollerRuns ==
    \/ ResolveAgain \/ TellError \/ ReportAndClose
    \/ Poll \/ Complain \/ LaunchEnds
    \/ \E c \in Containers : Launch(c)

StreamRuns(s) ==
    Open(s) \/ CheckContext(s) \/ Read(s) \/ Send(s) \/ Close(s)

Next ==
    \/ Environment
    \/ HandlerStarts \/ HandlerReceives \/ HandlerReturns
    \/ PollerRuns \/ PollerReturns
    \/ \E s \in Streams : StreamRuns(s)

Spec == Init /\ [][Next]_vars

\* A goroutine that can go on does, and the ticker ticks.  Go serves the senders
\* that wait for a channel in their order, so that none waits for ever on one
\* that is read, and a select that finds several cases ready time and again
\* takes each of them in the end.  Nothing makes a client leave, or a container
\* write or end.
Fairness ==
    /\ WF_vars(HandlerReceives) /\ SF_vars(HandlerReturns)
    /\ SF_vars(PollerRuns) /\ SF_vars(PollerReturns)
    /\ \A s \in Streams : SF_vars(StreamRuns(s))

FairSpec == Spec /\ Fairness

-----------------------------------------------------------------------------
(* Properties *)

Streaming == {"check", "read", "send"}

\* Two goroutines never stream one container to the same client, although the
\* poller acts on what it saw before other streams ended.
OneStreamPerContainer ==
    \A s, t \in Streams : s # t /\ step[s] # "idle" => source[s] # source[t]

\* The channel is closed only when nobody can send on it any more: a send on a
\* closed channel ends the process.
NobodySendsOnClosed ==
    closed => poller = "ended" /\ \A s \in Streams : step[s] = "idle"

\* Why these two hold: activeStreams has the container of each goroutine that
\* is in use, and none is in use before the poller, which the handler starts,
\* has resolved the function.
StreamsAreActive ==
    \A s \in Streams :
        /\ step[s] = "idle" <=> source[s] = None
        /\ step[s] # "idle" => source[s] \in active

IdleUntilResolved ==
    poller \in {"none", "resolve", "tell", "report"} =>
        \A s \in Streams : step[s] = "idle"

PollerIsStarted == handler = "new" => poller = "none"

StreamsAreSafe ==
    /\ TypeOK /\ StreamsAreActive /\ IdleUntilResolved /\ PollerIsStarted
    /\ OneStreamPerContainer /\ NobodySendsOnClosed

\* Where the lines of c are in the channel, the lines of c that were sent on it,
\* and those that a stream has read and is done with.
Queued(c) == {i \in DOMAIN chan : chan[i].from = c}
Sent(c) == {chan[i].line : i \in Queued(c)} \cup {item.line : item \in {g \in got : g.from = c}}
HandedOver(s) == (start[source[s]] + 1) .. (IF step[s] = "send" THEN pos[s] - 1 ELSE pos[s])

\* Unless its logs had to be opened again, a container's lines reach the client
\* once each and in the order they were written: the channel holds them in
\* order, after those the client has, and of the lines a stream has read only
\* the blank ones are missing from both.
EachLineOnce ==
    \A c \in Containers : opened[c] # "again" =>
        /\ \A i \in Queued(c) :
              /\ \A j \in Queued(c) : j < i => chan[j].line < chan[i].line
              /\ \A item \in got : item.from = c => item.line < chan[i].line
        /\ \A s \in Streams : source[s] = c /\ step[s] \in Streaming =>
              HandedOver(s) \ Blank \subseteq Sent(c)

\* Why it holds: what was sent of a container has been read by the stream it
\* has now, if any, and nothing was sent before its logs were opened.
SentWasRead ==
    \A c \in Containers : opened[c] # "again" =>
        /\ opened[c] = "never" => Sent(c) = {}
        /\ \A s \in Streams : source[s] = c /\ step[s] \in Streaming =>
              \A n \in Sent(c) : IF step[s] = "send" THEN n < pos[s] ELSE n <= pos[s]

StreamedWereOpened ==
    \A s \in Streams : step[s] \in Streaming => opened[source[s]] # "never"

LinesAreSafe == StreamsAreSafe /\ EachLineOnce /\ SentWasRead /\ StreamedWereOpened

\* As long as the client stays and the container runs, each line written while
\* its stream is open reaches the client, however full the channel gets.
LinesArrive ==
    \A c \in Containers : \A n \in (1..Lines[c]) \ Blank :
        (n <= written[c] /\ n > start[c]
            /\ \E s \in Streams : source[s] = c /\ step[s] \in Streaming)
        ~> ([from |-> c, line |-> n] \in got \/ ContextDone \/ life[c] = "ended")

\* A client that leaves is forgotten: the polling goroutine ends and so do the
\* streams, but for the goroutines that the full channel blocks for good and
\* those that wait for the next line of a container that is silent.
LeaverIsForgotten ==
    left ~> /\ poller = "ended" \/ (poller \in {"tell", "report", "complain"} /\ Full)
            /\ \A s \in Streams :
                  \/ step[s] = "idle"
                  \/ step[s] = "send" /\ Full
                  \/ step[s] = "read" /\ pos[s] = written[source[s]]

\* The stream of a container that has ended ends too, unless the full channel
\* of a client that left blocks it.
DeadStreamsEnd ==
    \A c \in Containers :
        life[c] = "ended"
        ~> \A s \in Streams : source[s] = c => step[s] = "send" /\ Full /\ ContextDone

=============================================================================
