--------------------------- MODULE LogStreamProofs ---------------------------
(***************************************************************************)
(* What LogStream guarantees for any number of containers, goroutines and  *)
(* lines, and any capacity of the channel.                                 *)
(***************************************************************************)
EXTENDS LogStream, SequenceTheorems, TLAPS

LEMMA SafeInit == Init => StreamsAreSafe
<1> SUFFICES ASSUME Init PROVE StreamsAreSafe
  OBVIOUS
<1>1. chan \in Seq(Line \cup {Error}) /\ Len(chan) <= Capacity
  BY StreamAssumption DEF Init
<1>2. TypeOK
  BY <1>1 DEF Init, TypeOK, PollerStep, StreamStep
<1> QED
  BY <1>2 DEF Init, StreamsAreSafe, StreamsAreActive, IdleUntilResolved,
              PollerIsStarted, OneStreamPerContainer, NobodySendsOnClosed

\* What the channel holds keeps its type when one item is sent ...
LEMMA PutType ==
  ASSUME TypeOK, NEW item \in Line \cup {Error}, ~Full,
         chan' = Append(chan, item)
  PROVE  chan' \in Seq(Line \cup {Error}) /\ Len(chan') <= Capacity
  BY StreamAssumption DEF TypeOK, Full

\* ... or received.
LEMMA ReceiveType ==
  ASSUME TypeOK, chan # <<>>, chan' = Tail(chan)
  PROVE  /\ chan' \in Seq(Line \cup {Error}) /\ Len(chan') <= Capacity
         /\ Head(chan) \in Line \cup {Error}
  BY StreamAssumption DEF TypeOK

\* A step that starts no goroutine for a container and ends none, and does not
\* close the channel.
LEMMA SafeUnlessLaunched ==
  ASSUME StreamsAreSafe, TypeOK',
         UNCHANGED <<active, source, closed>>,
         \A s \in Streams : step'[s] = "idle" <=> step[s] = "idle",
         poller' # poller =>
            ~closed /\ (IdleUntilResolved => IdleUntilResolved'),
         handler' = "new" => handler = "new" /\ poller' \in {poller, "none"}
  PROVE  StreamsAreSafe'
  BY DEF StreamsAreSafe, StreamsAreActive, IdleUntilResolved, PollerIsStarted,
         OneStreamPerContainer, NobodySendsOnClosed

\* The environment and the handler.
LEMMA SafeOutside ==
  ASSUME StreamsAreSafe,
         Environment \/ HandlerStarts \/ HandlerReceives \/ HandlerReturns
           \/ UNCHANGED vars
  PROVE  StreamsAreSafe'
<1>t. TypeOK
  BY DEF StreamsAreSafe
<1> USE DEF logVars, chanVars, handVars, pollVars, strVars
<1>1. CASE Environment
  <2>1. TypeOK'
    <3>1. CASE ClientLeaves
      BY <1>t, <3>1 DEF ClientLeaves, TypeOK
    <3>2. CASE \E c \in Containers : ContainerStarts(c) \/ ContainerEnds(c)
      BY <1>t, <3>2 DEF ContainerStarts, ContainerEnds, TypeOK
    <3>3. CASE \E c \in Containers : ContainerWrites(c)
      BY <1>t, <3>3 DEF ContainerWrites, TypeOK
    <3> QED
      BY <1>1, <3>1, <3>2, <3>3 DEF Environment
  <2>2. UNCHANGED <<active, source, closed, step, poller, handler>>
    BY <1>1 DEF Environment, ClientLeaves, ContainerStarts, ContainerWrites, ContainerEnds
  <2> QED
    BY <2>1, <2>2, SafeUnlessLaunched
<1>2. CASE HandlerStarts
  <2>1. TypeOK'
    BY <1>2, <1>t DEF HandlerStarts, TypeOK, PollerStep
  <2>2. closed => poller = "ended"
    BY DEF StreamsAreSafe, NobodySendsOnClosed
  <2> QED
    BY <1>2, <2>1, <2>2
       DEF HandlerStarts, StreamsAreSafe, StreamsAreActive, IdleUntilResolved, PollerIsStarted,
           OneStreamPerContainer, NobodySendsOnClosed, TypeOK
<1>3. CASE HandlerReceives
  <2>1. /\ chan' \in Seq(Line \cup {Error}) /\ Len(chan') <= Capacity
        /\ Head(chan) \in Line \cup {Error}
    BY <1>3, <1>t, ReceiveType DEF HandlerReceives
  <2>2. TypeOK'
    BY <1>3, <1>t, <2>1 DEF HandlerReceives, TypeOK
  <2> QED
    BY <1>3, <2>2, SafeUnlessLaunched DEF HandlerReceives
<1>4. CASE HandlerReturns
  <2>1. TypeOK'
    BY <1>4, <1>t DEF HandlerReturns, TypeOK
  <2> QED
    BY <1>4, <2>1, SafeUnlessLaunched DEF HandlerReturns
<1>5. CASE UNCHANGED vars
  <2>1. TypeOK'
    BY <1>5, <1>t DEF vars, TypeOK
  <2> QED
    BY <1>5, <2>1, SafeUnlessLaunched DEF vars
<1> QED
  BY <1>1, <1>2, <1>3, <1>4, <1>5

\* The polling goroutine.
LEMMA SafePoller ==
  ASSUME StreamsAreSafe, PollerRuns \/ PollerReturns
  PROVE  StreamsAreSafe'
<1>t. TypeOK
  BY DEF StreamsAreSafe
<1>e. closed => poller = "ended"
  BY DEF StreamsAreSafe, NobodySendsOnClosed
<1>h. poller # "none" => handler # "new"
  BY DEF StreamsAreSafe, PollerIsStarted
<1> USE DEF logVars, chanVars, handVars, pollVars, strVars, PollerAt, PollerGoto
<1>1. CASE ResolveAgain
  <2>1. TypeOK'
    BY <1>1, <1>t DEF ResolveAgain, TypeOK, PollerStep
  <2> QED
    BY <1>1, <1>e, <1>h, <2>1, SafeUnlessLaunched DEF ResolveAgain, IdleUntilResolved
<1>2. CASE TellError
  <2>1. TypeOK'
    BY <1>2, <1>t, PutType DEF TellError, Put, TypeOK, PollerStep
  <2> QED
    BY <1>2, <1>e, <1>h, <2>1, SafeUnlessLaunched DEF TellError, Put, IdleUntilResolved
<1>3. CASE ReportAndClose
  <2>1. TypeOK'
    BY <1>3, <1>t, PutType DEF ReportAndClose, TypeOK, PollerStep
  <2> QED
    BY <1>3, <1>h, <2>1
       DEF ReportAndClose, StreamsAreSafe, StreamsAreActive, IdleUntilResolved, PollerIsStarted,
           OneStreamPerContainer, NobodySendsOnClosed
<1>4. CASE Poll
  <2>1. TypeOK'
    BY <1>4, <1>t DEF Poll, RunningSeen, TypeOK, PollerStep
  <2> QED
    BY <1>4, <1>e, <1>h, <2>1, SafeUnlessLaunched DEF Poll, IdleUntilResolved
<1>5. CASE Complain
  <2>1. TypeOK'
    BY <1>5, <1>t, PutType DEF Complain, Put, TypeOK, PollerStep
  <2> QED
    BY <1>5, <1>e, <1>h, <2>1, SafeUnlessLaunched DEF Complain, Put, IdleUntilResolved
<1>6. CASE LaunchEnds
  <2>1. TypeOK'
    BY <1>6, <1>t DEF LaunchEnds, TypeOK, PollerStep
  <2> QED
    BY <1>6, <1>e, <1>h, <2>1, SafeUnlessLaunched DEF LaunchEnds, IdleUntilResolved
<1>7. CASE \E c \in Containers : Launch(c)
  <2>1. PICK c \in Containers : Launch(c)
    BY <1>7
  <2>2. CASE c \in active
    <3>1. TypeOK'
      BY <1>t, <2>1, <2>2 DEF Launch, TypeOK
    <3> QED
      BY <1>h, <2>1, <2>2, <3>1, SafeUnlessLaunched DEF Launch
  <2>3. CASE c \notin active
    <3>1. PICK s \in Streams :
             /\ step[s] = "idle"
             /\ step' = [step EXCEPT ![s] = "open"]
             /\ source' = [source EXCEPT ![s] = c]
      BY <2>1, <2>3 DEF Launch
    <3>2. /\ active' = active \cup {c}
          /\ poller = "launch" /\ UNCHANGED <<poller, closed, handler>>
      BY <2>1, <2>3 DEF Launch
    <3>3. TypeOK'
      BY <1>t, <2>1, <3>1, <3>2 DEF Launch, TypeOK, StreamStep
    <3>4. StreamsAreActive'
      BY <1>t, <3>1, <3>2, StreamAssumption DEF StreamsAreSafe, StreamsAreActive, TypeOK
    <3>5. OneStreamPerContainer'
      BY <1>t, <2>3, <3>1, <3>2, StreamAssumption
         DEF StreamsAreSafe, StreamsAreActive, OneStreamPerContainer, TypeOK
    <3> QED
      BY <1>e, <1>h, <3>2, <3>3, <3>4, <3>5
         DEF StreamsAreSafe, IdleUntilResolved, PollerIsStarted, NobodySendsOnClosed
  <2> QED
    BY <2>2, <2>3
<1>8. CASE PollerReturns
  <2>1. TypeOK'
    BY <1>8, <1>t DEF PollerReturns, TypeOK, PollerStep
  <2> QED
    BY <1>8, <1>e, <1>h, <2>1, SafeUnlessLaunched DEF PollerReturns, IdleUntilResolved
<1> QED
  BY <1>1, <1>2, <1>3, <1>4, <1>5, <1>6, <1>7, <1>8 DEF PollerRuns

\* A goroutine that streams a container.
LEMMA SafeStream ==
  ASSUME StreamsAreSafe, NEW s \in Streams, StreamRuns(s)
  PROVE  StreamsAreSafe'
<1>t. TypeOK
  BY DEF StreamsAreSafe
<1>c. step[s] # "idle" => source[s] \in Containers
  BY <1>t DEF StreamsAreSafe, StreamsAreActive, TypeOK
<1> USE DEF logVars, chanVars, handVars, pollVars, strVars, StepTo
<1>1. CASE Open(s)
  <2>1. step[s] = "open" /\ step' \in {[step EXCEPT ![s] = "check"], [step EXCEPT ![s] = "close"]}
    BY <1>1 DEF Open
  <2>2. pos' \in [Streams -> Nat] /\ start' \in [Containers -> Nat]
    <3> DEFINE first == Skipped(source[s])
    <3>1. first \in Nat
      BY <1>t, <1>c, <2>1, StreamAssumption DEF Skipped, TypeOK
    <3>2. \/ UNCHANGED <<pos, start>>
          \/ /\ pos' = [pos EXCEPT ![s] = first]
             /\ start' = [start EXCEPT ![source[s]] = first]
      BY <1>1 DEF Open
    <3> HIDE DEF first
    <3>3. pos \in [Streams -> Nat] /\ start \in [Containers -> Nat]
      BY <1>t DEF TypeOK
    <3> QED
      BY <3>1, <3>2, <3>3
  <2>3. opened' \in [Containers -> {"never", "once", "again"}]
    BY <1>1, <1>t DEF Open, Skipped, TypeOK
  <2>4. TypeOK'
    BY <1>1, <1>t, <2>1, <2>2, <2>3 DEF Open, Skipped, TypeOK, StreamStep
  <2> QED
    BY <1>1, <1>t, <2>1, <2>4, SafeUnlessLaunched DEF Open, Skipped, TypeOK
<1>2. CASE CheckContext(s)
  <2>1. TypeOK'
    BY <1>2, <1>t DEF CheckContext, TypeOK, StreamStep
  <2> QED
    BY <1>2, <1>t, <2>1, SafeUnlessLaunched DEF CheckContext, TypeOK
<1>3. CASE Read(s)
  <2>1. pos' \in [Streams -> Nat]
    <3>1. pos \in [Streams -> Nat]
      BY <1>t DEF TypeOK
    <3>2. pos' = pos \/ pos' = [pos EXCEPT ![s] = pos[s] + 1]
      BY <1>3 DEF Read
    <3> QED
      BY <3>1, <3>2
  <2>2. /\ step[s] = "read"
        /\ step' \in {[step EXCEPT ![s] = t] : t \in {"check", "send", "close"}}
    BY <1>3 DEF Read
  <2>3. TypeOK'
    BY <1>3, <1>t, <2>1, <2>2 DEF Read, TypeOK, StreamStep
  <2> QED
    BY <1>3, <1>t, <2>2, <2>3, SafeUnlessLaunched DEF Read, TypeOK
<1>4. CASE Send(s)
  <2>1. [from |-> source[s], line |-> pos[s]] \in Line
    BY <1>4, <1>t, <1>c DEF Send, TypeOK, Line
  <2>2. TypeOK'
    BY <1>4, <1>t, <2>1, PutType DEF Send, Put, TypeOK, StreamStep
  <2> QED
    BY <1>4, <1>t, <2>2, SafeUnlessLaunched DEF Send, Put, TypeOK
<1>5. CASE Close(s)
  <2>1. /\ step[s] = "close"
        /\ step' = [step EXCEPT ![s] = "idle"]
        /\ source' = [source EXCEPT ![s] = None]
        /\ active' = active \ {source[s]}
        /\ UNCHANGED <<poller, handler, closed>>
    BY <1>5 DEF Close
  <2>2. TypeOK'
    BY <1>5, <1>t DEF Close, TypeOK, StreamStep
  <2>3. StreamsAreActive'
    BY <1>t, <2>1, StreamAssumption
       DEF StreamsAreSafe, StreamsAreActive, OneStreamPerContainer, TypeOK
  <2>4. OneStreamPerContainer'
    BY <1>t, <2>1, StreamAssumption
       DEF StreamsAreSafe, StreamsAreActive, OneStreamPerContainer, TypeOK
  <2>5. ~closed /\ poller \notin {"none", "resolve", "tell", "report"}
    BY <2>1 DEF StreamsAreSafe, IdleUntilResolved, NobodySendsOnClosed
  <2> QED
    BY <2>1, <2>2, <2>3, <2>4, <2>5
       DEF StreamsAreSafe, IdleUntilResolved, PollerIsStarted, NobodySendsOnClosed
<1> QED
  BY <1>1, <1>2, <1>3, <1>4, <1>5 DEF StreamRuns

LEMMA SafeNext == StreamsAreSafe /\ [Next]_vars => StreamsAreSafe'
  BY SafeOutside, SafePoller, SafeStream DEF Next

\* Every variable always has its type.
THEOREM TypeCorrect == Spec => []TypeOK
<1>1. StreamsAreSafe => TypeOK
  BY DEF StreamsAreSafe
<1> QED
  BY <1>1, SafeInit, SafeNext, PTL DEF Spec

\* activeStreams keeps the poller from starting a second goroutine for a
\* container that has one, whatever the poller saw and when.
THEOREM OneStream == Spec => []OneStreamPerContainer
<1>1. StreamsAreSafe => OneStreamPerContainer
  BY DEF StreamsAreSafe
<1> QED
  BY <1>1, SafeInit, SafeNext, PTL DEF Spec

\* No goroutine ever sends on the closed channel, which would end the process:
\* the channel is closed only when the function could not be resolved, and then
\* no goroutine was started.
THEOREM NoSendOnClosed == Spec => []NobodySendsOnClosed
<1>1. StreamsAreSafe => NobodySendsOnClosed
  BY DEF StreamsAreSafe
<1> QED
  BY <1>1, SafeInit, SafeNext, PTL DEF Spec

-----------------------------------------------------------------------------
(* Each line once *)

LineParts == EachLineOnce /\ SentWasRead /\ StreamedWereOpened

\* What is in the channel is a line of a container or an error, which is of none.
LEMMA QueuedLines ==
  ASSUME TypeOK, NEW c \in Containers, NEW i \in Queued(c)
  PROVE  /\ i \in 1..Len(chan) /\ i \in Nat /\ Len(chan) \in Nat
         /\ chan[i] \in Line /\ chan[i].from = c /\ chan[i].line \in Nat
  BY StreamAssumption, LenProperties DEF TypeOK, Queued, Line, Error

LEMMA SentAreNumbers ==
  ASSUME TypeOK, NEW c \in Containers
  PROVE  Sent(c) \subseteq Nat
  BY QueuedLines DEF Sent, TypeOK, Line

\* What is sent comes after what is in the channel.
LEMMA QueuedAfterPut ==
  ASSUME TypeOK, NEW item \in Line \cup {Error}, chan' = Append(chan, item),
         NEW c \in Containers
  PROVE  /\ Queued(c)' = Queued(c) \cup (IF item.from = c THEN {Len(chan) + 1} ELSE {})
         /\ \A i \in Queued(c) : chan'[i] = chan[i]
         /\ chan'[Len(chan) + 1] = item
<1>1. chan \in Seq(Line \cup {Error})
  BY DEF TypeOK
<1>2. /\ Len(chan') = Len(chan) + 1 /\ chan' \in Seq(Line \cup {Error})
      /\ \A i \in 1..Len(chan) : chan'[i] = chan[i]
      /\ chan'[Len(chan) + 1] = item
  BY <1>1, AppendProperties
<1>3. DOMAIN chan = 1..Len(chan) /\ DOMAIN chan' = 1..Len(chan') /\ Len(chan) \in Nat
  BY <1>1, <1>2, LenProperties
<1> QED
  BY <1>2, <1>3 DEF Queued

\* What is received was the first.
LEMMA QueuedAfterReceive ==
  ASSUME TypeOK, chan # <<>>, chan' = Tail(chan), NEW c \in Containers
  PROVE  /\ Queued(c)' = {i - 1 : i \in Queued(c) \ {1}}
         /\ \A i \in Queued(c) \ {1} : chan'[i - 1] = chan[i]
         /\ 1 \in Queued(c) <=> Head(chan).from = c
         /\ Head(chan) = chan[1] /\ Head(chan) \in Line \cup {Error}
<1>1. chan \in Seq(Line \cup {Error})
  BY DEF TypeOK
<1>2. /\ Len(chan') = Len(chan) - 1 /\ chan' \in Seq(Line \cup {Error})
      /\ \A i \in 1..Len(chan') : chan'[i] = chan[i + 1]
      /\ Head(chan) = chan[1] /\ Head(chan) \in Line \cup {Error}
  BY <1>1, HeadTailProperties DEF Head
<1>3. /\ DOMAIN chan = 1..Len(chan) /\ DOMAIN chan' = 1..Len(chan')
      /\ Len(chan) \in Nat \ {0}
  BY <1>1, <1>2, LenProperties, EmptySeq
<1> QED
  BY <1>2, <1>3 DEF Queued

\* A step that leaves channel, client and what was opened alone, and that takes
\* no stream further.
LEMMA LinesUnlessTouched ==
  ASSUME TypeOK, LineParts, UNCHANGED <<chan, got, opened, start>>,
         \A s \in Streams : step'[s] \in Streaming =>
            /\ step[s] \in Streaming /\ (step'[s] = "send" <=> step[s] = "send")
            /\ source'[s] = source[s] /\ pos'[s] = pos[s]
  PROVE  LineParts'
<1>1. \A c \in Containers : Queued(c)' = Queued(c) /\ Sent(c)' = Sent(c)
  BY DEF Queued, Sent
<1>2. \A s \in Streams : step'[s] \in Streaming => HandedOver(s)' = HandedOver(s)
  BY DEF HandedOver
<1>3. EachLineOnce'
  BY <1>1, <1>2 DEF LineParts, EachLineOnce
<1>4. SentWasRead'
  BY <1>1 DEF LineParts, SentWasRead
<1>5. StreamedWereOpened'
  BY DEF LineParts, StreamedWereOpened
<1> QED
  BY <1>3, <1>4, <1>5 DEF LineParts

\* The environment, the handler, and the poller but for what they send or
\* receive.
LEMMA LinesOutside ==
  ASSUME TypeOK, LineParts,
         \/ Environment \/ HandlerStarts \/ HandlerReturns \/ UNCHANGED vars
         \/ ResolveAgain \/ Poll \/ LaunchEnds \/ PollerReturns
         \/ \E c \in Containers : Launch(c)
  PROVE  LineParts'
<1> USE DEF logVars, chanVars, handVars, pollVars, strVars
<1>1. CASE \E c \in Containers : Launch(c)
  <2>1. PICK c \in Containers : Launch(c)
    BY <1>1
  <2>2. UNCHANGED <<chan, got, opened, start, pos>>
    BY <2>1 DEF Launch
  <2>3. \A s \in Streams : step'[s] \in Streaming =>
           step'[s] = step[s] /\ source'[s] = source[s]
    BY <2>1 DEF Launch, TypeOK, Streaming
  <2> QED
    BY <2>2, <2>3, LinesUnlessTouched
<1>2. CASE \/ Environment \/ HandlerStarts \/ HandlerReturns \/ UNCHANGED vars
           \/ ResolveAgain \/ Poll \/ LaunchEnds \/ PollerReturns
  <2>1. UNCHANGED <<chan, got, opened, start, pos, step, source>>
    BY <1>2 DEF Environment, ClientLeaves, ContainerStarts, ContainerWrites,
                ContainerEnds, HandlerStarts, HandlerReturns, vars, ResolveAgain,
                Poll, LaunchEnds, PollerReturns
  <2> QED
    BY <2>1, LinesUnlessTouched
<1> QED
  BY <1>1, <1>2

\* An error that is sent is no line of a container.
LEMMA LinesOfErrors ==
  ASSUME TypeOK, LineParts, TellError \/ ReportAndClose \/ Complain
  PROVE  LineParts'
<1> USE DEF logVars, chanVars, handVars, strVars
<1>1. chan' = Append(chan, Error) /\ UNCHANGED <<got, opened, start, pos, step, source>>
  BY DEF TellError, ReportAndClose, Complain, Put
<1>2. \A c \in Containers : /\ Queued(c)' = Queued(c)
                            /\ \A i \in Queued(c) : chan'[i] = chan[i]
  <2> SUFFICES ASSUME NEW c \in Containers
               PROVE  /\ Queued(c)' = Queued(c)
                      /\ \A i \in Queued(c) : chan'[i] = chan[i]
    OBVIOUS
  <2>1. Error.from # c
    BY StreamAssumption DEF Error
  <2>2. chan' = Append(chan, Error) /\ Error \in Line \cup {Error}
    BY <1>1
  <2>3. /\ Queued(c)' = Queued(c) \cup (IF Error.from = c THEN {Len(chan) + 1} ELSE {})
        /\ \A i \in Queued(c) : chan'[i] = chan[i]
    BY <2>2, QueuedAfterPut
  <2> QED
    BY <2>1, <2>3
<1>3. \A c \in Containers : Sent(c)' = Sent(c)
  BY <1>1, <1>2 DEF Sent
<1>4. \A s \in Streams : HandedOver(s)' = HandedOver(s)
  BY <1>1 DEF HandedOver
<1>5. EachLineOnce'
  BY <1>1, <1>2, <1>3, <1>4 DEF LineParts, EachLineOnce
<1>6. SentWasRead'
  BY <1>1, <1>3 DEF LineParts, SentWasRead
<1> QED
  BY <1>1, <1>5, <1>6 DEF LineParts, StreamedWereOpened

\* What the client receives was the first of its container in the channel.
LEMMA LinesReceived ==
  ASSUME TypeOK, LineParts, HandlerReceives
  PROVE  LineParts'
<1> USE DEF logVars, pollVars, strVars
<1>1. /\ chan # <<>> /\ chan' = Tail(chan) /\ got' = got \cup ({Head(chan)} \ {Error})
      /\ UNCHANGED <<opened, start, pos, step, source>>
  BY DEF HandlerReceives
<1>2. ASSUME NEW c \in Containers
      PROVE  Sent(c)' = Sent(c)
  <2>1. /\ Queued(c)' = {i - 1 : i \in Queued(c) \ {1}}
        /\ \A i \in Queued(c) \ {1} : chan'[i - 1] = chan[i]
        /\ 1 \in Queued(c) <=> Head(chan).from = c
        /\ Head(chan) = chan[1] /\ Head(chan) \in Line \cup {Error}
    BY <1>1, QueuedAfterReceive
  <2>2. {chan'[i].line : i \in Queued(c)'} = {chan[i].line : i \in Queued(c) \ {1}}
    BY <2>1
  <2>3. CASE 1 \in Queued(c)
    <3>1. Head(chan) # Error /\ Head(chan).from = c
      BY <2>1, <2>3, StreamAssumption DEF Error
    <3>2. {item.line : item \in {g \in got' : g.from = c}}
            = {item.line : item \in {g \in got : g.from = c}} \cup {chan[1].line}
      BY <1>1, <2>1, <3>1
    <3>3. {chan[i].line : i \in Queued(c)} = {chan[i].line : i \in Queued(c) \ {1}} \cup {chan[1].line}
      BY <2>3
    <3> QED
      BY <2>2, <3>2, <3>3 DEF Sent
  <2>4. CASE 1 \notin Queued(c)
    <3>1. {g \in got' : g.from = c} = {g \in got : g.from = c}
      BY <1>1, <2>1, <2>4
    <3>2. Queued(c) \ {1} = Queued(c)
      BY <2>4
    <3> QED
      BY <2>2, <3>1, <3>2 DEF Sent
  <2> QED
    BY <2>3, <2>4
<1>3. ASSUME NEW c \in Containers, opened[c] # "again", NEW i \in Queued(c)'
      PROVE  /\ \A j \in Queued(c)' : j < i => chan'[j].line < chan'[i].line
             /\ \A item \in got' : item.from = c => item.line < chan'[i].line
  <2>1. /\ Queued(c)' = {k - 1 : k \in Queued(c) \ {1}}
        /\ \A k \in Queued(c) \ {1} : chan'[k - 1] = chan[k]
        /\ 1 \in Queued(c) <=> Head(chan).from = c
        /\ Head(chan) = chan[1]
    BY <1>1, QueuedAfterReceive
  <2>2. PICK k \in Queued(c) \ {1} : i = k - 1
    BY <1>3, <2>1
  <2>3. /\ \A l \in Queued(c) : l < k => chan[l].line < chan[k].line
        /\ \A item \in got : item.from = c => item.line < chan[k].line
    BY <1>3, <2>2 DEF LineParts, EachLineOnce
  <2>4. chan'[i] = chan[k]
    BY <2>1, <2>2
  <2>5. \A l \in Queued(c) : l \in Nat \ {0}
    BY QueuedLines
  <2>6. ASSUME NEW j \in Queued(c)', j < i
        PROVE  chan'[j].line < chan'[i].line
    <3>1. PICK l \in Queued(c) \ {1} : j = l - 1
      BY <2>1
    <3>2. l < k
      BY <2>2, <2>5, <2>6, <3>1
    <3> QED
      BY <2>1, <2>3, <2>4, <3>1, <3>2
  <2>7. ASSUME NEW item \in got', item.from = c
        PROVE  item.line < chan'[i].line
    <3>1. CASE item \in got
      BY <2>3, <2>4, <2>7, <3>1
    <3>2. CASE item = Head(chan)
      <4>1. 1 \in Queued(c) /\ 1 < k
        BY <2>1, <2>2, <2>5, <2>7, <3>2
      <4> QED
        BY <2>1, <2>3, <2>4, <3>2, <4>1
    <3> QED
      BY <1>1, <2>7, <3>1, <3>2
  <2> QED
    BY <2>6, <2>7
<1>4. \A s \in Streams : HandedOver(s)' = HandedOver(s)
  BY <1>1 DEF HandedOver
<1>5. EachLineOnce'
  BY <1>1, <1>2, <1>3, <1>4 DEF LineParts, EachLineOnce
<1>6. SentWasRead'
  BY <1>1, <1>2 DEF LineParts, SentWasRead
<1> QED
  BY <1>1, <1>5, <1>6 DEF LineParts, StreamedWereOpened

\* The logs of a container are opened, for the first time or again.
LEMMA LinesOpened ==
  ASSUME StreamsAreSafe, LineParts, NEW s \in Streams, Open(s)
  PROVE  LineParts'
<1>t. TypeOK /\ OneStreamPerContainer
  BY DEF StreamsAreSafe
<1>c. step[s] = "open" /\ source[s] \in Containers
  BY <1>t DEF Open, StreamsAreSafe, StreamsAreActive, TypeOK
<1> USE DEF logVars, chanVars, handVars, pollVars
<1>1. CASE step' = [step EXCEPT ![s] = "close"] /\ UNCHANGED <<pos, start, opened>>
  <2>1. \A r \in Streams : step'[r] \in Streaming => r # s /\ step'[r] = step[r]
    BY <1>t, <1>1 DEF TypeOK, Streaming
  <2> QED
    BY <1>t, <1>1, <2>1, LinesUnlessTouched DEF Open
<1>2. CASE /\ pos' = [pos EXCEPT ![s] = Skipped(source[s])]
           /\ start' = [start EXCEPT ![source[s]] = Skipped(source[s])]
           /\ opened' = [opened EXCEPT ![source[s]] = IF @ = "never" THEN "once" ELSE "again"]
           /\ step' = [step EXCEPT ![s] = "check"]
  <2>u. UNCHANGED <<chan, got, source>>
    BY DEF Open
  <2>1. \A c \in Containers : Queued(c)' = Queued(c) /\ Sent(c)' = Sent(c)
    BY <2>u DEF Queued, Sent
  <2>2. ASSUME NEW c \in Containers, opened'[c] # "again"
        PROVE  opened[c] # "again" /\ (c = source[s] => Sent(c) = {})
    BY <1>t, <1>2, <2>2 DEF LineParts, SentWasRead, TypeOK
  <2>3. ASSUME NEW r \in Streams, step'[r] \in Streaming, r # s
        PROVE  /\ step'[r] = step[r] /\ pos'[r] = pos[r]
               /\ source[r] # source[s] /\ source[r] \in Containers
               /\ start'[source[r]] = start[source[r]]
    <3>1. step'[r] = step[r] /\ pos'[r] = pos[r]
      BY <1>t, <1>2, <2>3 DEF TypeOK
    <3>2. step[r] # "idle" /\ source[r] \in Containers
      BY <1>t, <2>3, <3>1 DEF Streaming, StreamsAreSafe, StreamsAreActive, TypeOK
    <3>3. source[r] # source[s]
      BY <1>t, <2>3, <3>2 DEF OneStreamPerContainer
    <3> QED
      BY <1>t, <1>2, <3>1, <3>2, <3>3 DEF TypeOK
  <2>4. HandedOver(s)' = {}
    <3>1. Skipped(source[s]) \in Nat
      BY <1>t, <1>c, StreamAssumption DEF Skipped, TypeOK
    <3>2. /\ step'[s] = "check" /\ source'[s] = source[s]
          /\ pos'[s] = Skipped(source[s]) /\ start'[source[s]] = Skipped(source[s])
      BY <1>t, <1>2, <1>c, <2>u DEF TypeOK
    <3> QED
      BY <3>1, <3>2 DEF HandedOver
  <2>5. EachLineOnce'
    <3>1. ASSUME NEW c \in Containers, opened'[c] # "again", NEW r \in Streams,
                 source'[r] = c, step'[r] \in Streaming
          PROVE  HandedOver(r)' \ Blank \subseteq Sent(source[r])'
      <4>1. CASE r = s
        BY <2>4, <4>1
      <4>2. CASE r # s
        <5>1. HandedOver(r)' = HandedOver(r)
          BY <2>3, <2>u, <3>1, <4>2 DEF HandedOver
        <5> QED
          BY <2>1, <2>2, <2>3, <2>u, <3>1, <4>2, <5>1 DEF LineParts, EachLineOnce
      <4> QED
        BY <4>1, <4>2
    <3> QED
      BY <2>1, <2>2, <2>u, <3>1 DEF LineParts, EachLineOnce
  <2>6. SentWasRead'
    <3>1. ASSUME NEW c \in Containers, opened'[c] # "again"
          PROVE  opened'[c] = "never" => Sent(c)' = {}
      BY <1>t, <1>2, <2>1, <3>1 DEF LineParts, SentWasRead, TypeOK
    <3>2. ASSUME NEW c \in Containers, opened'[c] # "again", NEW r \in Streams,
                 source'[r] = c, step'[r] \in Streaming, NEW n \in Sent(c)'
          PROVE  IF step'[r] = "send" THEN n < pos'[r] ELSE n <= pos'[r]
      <4>1. r # s /\ n \in Sent(c)
        BY <2>1, <2>2, <2>u, <3>2
      <4> QED
        BY <2>2, <2>3, <2>u, <3>2, <4>1 DEF LineParts, SentWasRead
    <3> QED
      BY <3>1, <3>2 DEF SentWasRead
  <2>7. StreamedWereOpened'
    <3>1. opened'[source[s]] # "never"
      BY <1>t, <1>2, <1>c DEF TypeOK
    <3>2. ASSUME NEW r \in Streams, step'[r] \in Streaming, r # s
          PROVE  opened'[source[r]] # "never"
      <4>1. step[r] \in Streaming /\ source[r] # source[s]
        BY <2>3, <3>2
      <4>2. opened[source[r]] # "never"
        BY <4>1 DEF LineParts, StreamedWereOpened
      <4>3. opened'[source[r]] = opened[source[r]]
        BY <1>t, <1>2, <2>3, <3>2, <4>1 DEF TypeOK
      <4> QED
        BY <4>2, <4>3
    <3> QED
      BY <2>u, <3>1, <3>2 DEF StreamedWereOpened
  <2> QED
    BY <2>5, <2>6, <2>7 DEF LineParts
<1> QED
  BY <1>1, <1>2 DEF Open, StepTo

\* A line is read: it is to be sent, or it is blank.
LEMMA LinesRead ==
  ASSUME TypeOK, LineParts, NEW s \in Streams, Read(s)
  PROVE  LineParts'
<1> USE DEF logVars, chanVars, handVars, pollVars
<1>u. step[s] = "read" /\ UNCHANGED <<chan, got, source, opened, start>>
  BY DEF Read
<1>1. CASE step' = [step EXCEPT ![s] = "close"] /\ UNCHANGED pos
  <2>1. \A r \in Streams : step'[r] \in Streaming => r # s /\ step'[r] = step[r]
    BY <1>1 DEF TypeOK, Streaming
  <2> QED
    BY <1>1, <1>u, <2>1, LinesUnlessTouched
<1>2. CASE /\ pos' = [pos EXCEPT ![s] = @ + 1]
           /\ step' = [step EXCEPT ![s] = IF pos[s] + 1 \in Blank THEN "check" ELSE "send"]
  <2>1. \A c \in Containers : /\ Queued(c)' = Queued(c) /\ Sent(c)' = Sent(c)
                              /\ Sent(c) \subseteq Nat
    BY <1>u, SentAreNumbers DEF Queued, Sent
  <2>2. /\ pos[s] \in Nat /\ pos'[s] = pos[s] + 1
        /\ step'[s] = IF pos[s] + 1 \in Blank THEN "check" ELSE "send"
        /\ \A r \in Streams \ {s} : step'[r] = step[r] /\ pos'[r] = pos[r]
    BY <1>2 DEF TypeOK
  <2>3. \A r \in Streams \ {s} : HandedOver(r)' = HandedOver(r)
    BY <1>u, <2>2 DEF HandedOver
  <2>4. source[s] \in Containers => HandedOver(s)' \ Blank \subseteq HandedOver(s)
    <3> SUFFICES ASSUME source[s] \in Containers PROVE HandedOver(s)' \ Blank \subseteq HandedOver(s)
      OBVIOUS
    <3>1. start[source[s]] \in Nat
      BY DEF TypeOK
    <3> QED
      BY <1>u, <2>2, <3>1 DEF HandedOver
  <2>5. \A r \in Streams : step'[r] \in Streaming => step[r] \in Streaming
    BY <1>u, <2>2 DEF Streaming
  <2>6. EachLineOnce'
    BY <1>u, <2>1, <2>3, <2>4, <2>5 DEF LineParts, EachLineOnce
  <2>7. SentWasRead'
    <3>1. ASSUME NEW c \in Containers, opened[c] # "again", NEW r \in Streams,
                 source[r] = c, step'[r] \in Streaming, NEW n \in Sent(c)
          PROVE  IF step'[r] = "send" THEN n < pos'[r] ELSE n <= pos'[r]
      <4>1. n \in Nat /\ (IF step[r] = "send" THEN n < pos[r] ELSE n <= pos[r])
        BY <2>1, <2>5, <3>1 DEF LineParts, SentWasRead
      <4> QED
        BY <1>u, <2>2, <4>1
    <3> QED
      BY <1>u, <2>1, <3>1 DEF LineParts, SentWasRead
  <2>8. StreamedWereOpened'
    BY <1>u, <2>5 DEF LineParts, StreamedWereOpened
  <2> QED
    BY <2>6, <2>7, <2>8 DEF LineParts
<1> QED
  BY <1>1, <1>2 DEF Read, StepTo

\* A line is sent: it comes after all that was sent of its container, and the
\* stream is now done with it.
LEMMA LinesSent ==
  ASSUME StreamsAreSafe, LineParts, NEW s \in Streams, Send(s)
  PROVE  LineParts'
<1>t. TypeOK /\ OneStreamPerContainer
  BY DEF StreamsAreSafe
<1>c. step[s] = "send" /\ source[s] \in Containers /\ pos[s] \in Nat
  BY <1>t DEF Send, StreamsAreSafe, StreamsAreActive, TypeOK
<1> USE DEF logVars, handVars, pollVars
<1> DEFINE sent == [from |-> source[s], line |-> pos[s]]
<1>u. /\ chan' = Append(chan, sent) /\ step' = [step EXCEPT ![s] = "check"]
      /\ UNCHANGED <<got, source, pos, opened, start>>
  BY DEF Send, Put, StepTo
<1>1. sent \in Line \cup {Error} /\ sent.from = source[s] /\ sent.line = pos[s]
  BY <1>c DEF Line
<1> HIDE DEF sent
<1>2. ASSUME NEW c \in Containers
      PROVE  /\ Queued(c)' = Queued(c) \cup (IF c = source[s] THEN {Len(chan) + 1} ELSE {})
             /\ \A i \in Queued(c) : chan'[i] = chan[i]
             /\ chan'[Len(chan) + 1].line = pos[s]
             /\ \A i \in Queued(c) : i < Len(chan) + 1
  BY <1>t, <1>u, <1>1, QueuedAfterPut, QueuedLines
<1>3. ASSUME NEW c \in Containers
      PROVE  Sent(c)' = Sent(c) \cup (IF c = source[s] THEN {pos[s]} ELSE {})
  <2>1. {chan'[i].line : i \in Queued(c)'}
          = {chan[i].line : i \in Queued(c)} \cup (IF c = source[s] THEN {pos[s]} ELSE {})
    BY <1>2
  <2> QED
    BY <1>u, <2>1 DEF Sent
<1>4. \A r \in Streams : /\ r # s => step'[r] = step[r]
                         /\ step'[s] = "check"
                         /\ step'[r] \in Streaming => step[r] \in Streaming
  BY <1>t, <1>c, <1>u DEF TypeOK, Streaming
<1>5. \A r \in Streams : r # s /\ step[r] \in Streaming => source[r] # source[s]
  BY <1>t DEF OneStreamPerContainer, Streaming
<1>6. opened[source[s]] # "again" => \A n \in Sent(source[s]) : n < pos[s]
  BY <1>c DEF LineParts, SentWasRead, Streaming
<1>7. EachLineOnce'
  <2>1. ASSUME NEW c \in Containers, opened[c] # "again", NEW i \in Queued(c)'
        PROVE  /\ \A j \in Queued(c)' : j < i => chan'[j].line < chan'[i].line
               /\ \A item \in got : item.from = c => item.line < chan'[i].line
    <3>1. CASE i \in Queued(c)
      <4>1. ASSUME NEW j \in Queued(c)', j < i PROVE j \in Queued(c)
        BY <1>2, <1>t, <3>1, <4>1, QueuedLines
      <4> QED
        BY <1>2, <2>1, <3>1, <4>1 DEF LineParts, EachLineOnce
    <3>2. CASE i = Len(chan) + 1 /\ c = source[s]
      <4>1. \A j \in Queued(c) : chan[j].line \in Sent(c)
        BY DEF Sent
      <4>2. \A item \in got : item.from = c => item.line \in Sent(c)
        BY DEF Sent
      <4>3. ASSUME NEW j \in Queued(c)', j < i PROVE j \in Queued(c)
        BY <1>2, <1>t, <3>2, <4>3, QueuedLines, LenProperties DEF TypeOK
      <4> QED
        BY <1>2, <1>6, <2>1, <3>2, <4>1, <4>2, <4>3
    <3> QED
      BY <1>2, <2>1, <3>1, <3>2
  <2>2. ASSUME NEW c \in Containers, opened[c] # "again", NEW r \in Streams,
               source[r] = c, step'[r] \in Streaming
        PROVE  HandedOver(r)' \ Blank \subseteq Sent(c)'
    <3>1. HandedOver(r) \ Blank \subseteq Sent(c)
      BY <1>4, <2>2 DEF LineParts, EachLineOnce
    <3>2. CASE r # s
      <4>1. HandedOver(r)' = HandedOver(r)
        BY <1>4, <1>u, <3>2 DEF HandedOver
      <4> QED
        BY <1>3, <3>1, <4>1
    <3>3. CASE r = s
      <4>1. start[c] \in Nat
        BY <1>t DEF TypeOK
      <4>2. HandedOver(r)' \subseteq HandedOver(r) \cup {pos[s]}
        BY <1>4, <1>c, <1>u, <2>2, <3>3, <4>1 DEF HandedOver
      <4> QED
        BY <1>3, <2>2, <3>1, <3>3, <4>2
    <3> QED
      BY <3>2, <3>3
  <2> QED
    BY <1>u, <2>1, <2>2 DEF EachLineOnce
<1>8. SentWasRead'
  <2>1. ASSUME NEW c \in Containers, opened[c] = "never"
        PROVE  Sent(c)' = {}
    <3>1. c # source[s] /\ Sent(c) = {}
      BY <1>c, <2>1 DEF LineParts, SentWasRead, StreamedWereOpened, Streaming
    <3> QED
      BY <1>3, <3>1
  <2>2. ASSUME NEW c \in Containers, opened[c] # "again", NEW r \in Streams,
               source[r] = c, step'[r] \in Streaming, NEW n \in Sent(c)'
        PROVE  IF step'[r] = "send" THEN n < pos[r] ELSE n <= pos[r]
    <3>1. CASE r = s
      <4>1. n \in Sent(c) \cup {pos[s]}
        BY <1>3, <2>2, <3>1
      <4>2. n \in Sent(c) => n < pos[s] /\ n \in Nat
        BY <1>6, <1>t, <2>2, <3>1, SentAreNumbers
      <4> QED
        BY <1>4, <1>c, <3>1, <4>1, <4>2
    <3>2. CASE r # s
      <4>1. n \in Sent(c) /\ step[r] = step'[r]
        BY <1>3, <1>4, <1>5, <2>2, <3>2
      <4> QED
        BY <2>2, <4>1 DEF LineParts, SentWasRead
    <3> QED
      BY <3>1, <3>2
  <2> QED
    BY <1>u, <2>1, <2>2 DEF SentWasRead
<1>9. StreamedWereOpened'
  BY <1>4, <1>u DEF LineParts, StreamedWereOpened
<1> QED
  BY <1>7, <1>8, <1>9 DEF LineParts

\* The context is looked at, or the goroutine ends.
LEMMA LinesOtherwise ==
  ASSUME TypeOK, LineParts, NEW s \in Streams, CheckContext(s) \/ Close(s)
  PROVE  LineParts'
<1> USE DEF logVars, chanVars, handVars, pollVars
<1>1. UNCHANGED <<chan, got, opened, start>>
  BY DEF CheckContext, Close
<1>2. CASE CheckContext(s)
  <2>1. /\ step[s] = "check" /\ step'[s] \in {"read", "close"}
        /\ \A r \in Streams \ {s} : step'[r] = step[r]
        /\ UNCHANGED <<source, pos>>
    BY <1>2 DEF CheckContext, StepTo, TypeOK
  <2> QED
    BY <1>1, <2>1, LinesUnlessTouched DEF Streaming
<1>3. CASE Close(s)
  <2>1. \A r \in Streams :
           /\ r # s => step'[r] = step[r] /\ source'[r] = source[r] /\ pos'[r] = pos[r]
           /\ step'[s] = "idle"
    BY <1>3 DEF Close, StepTo, TypeOK
  <2> QED
    BY <1>1, <2>1, LinesUnlessTouched DEF Streaming
<1> QED
  BY <1>2, <1>3

LEMMA LinesNext == LinesAreSafe /\ [Next]_vars => LinesAreSafe'
<1> SUFFICES ASSUME LinesAreSafe, [Next]_vars PROVE LinesAreSafe'
  OBVIOUS
<1>1. StreamsAreSafe /\ TypeOK /\ LineParts
  BY DEF LinesAreSafe, StreamsAreSafe, LineParts
<1>2. StreamsAreSafe'
  BY <1>1, SafeNext
<1>3. LineParts'
  <2>1. CASE \E s \in Streams : StreamRuns(s)
    BY <1>1, <2>1, LinesOpened, LinesRead, LinesSent, LinesOtherwise DEF StreamRuns
  <2>2. CASE PollerRuns \/ PollerReturns
    BY <1>1, <2>2, LinesOutside, LinesOfErrors DEF PollerRuns
  <2>3. CASE Environment \/ HandlerStarts \/ HandlerReceives \/ HandlerReturns \/ UNCHANGED vars
    BY <1>1, <2>3, LinesOutside, LinesReceived
  <2> QED
    BY <2>1, <2>2, <2>3 DEF Next
<1> QED
  BY <1>2, <1>3 DEF LinesAreSafe, LineParts

LEMMA LinesInit == Init => LinesAreSafe
<1> SUFFICES ASSUME Init PROVE LinesAreSafe
  OBVIOUS
<1>1. \A c \in Containers : Queued(c) = {} /\ Sent(c) = {}
  BY DEF Init, Queued, Sent
<1>2. \A s \in Streams : step[s] \notin Streaming
  BY DEF Init, Streaming
<1> QED
  BY <1>1, <1>2, SafeInit DEF LinesAreSafe, EachLineOnce, SentWasRead, StreamedWereOpened

\* The lines of a container reach the client once each and in their order,
\* through the goroutine that reads them, the bounded channel that it shares
\* with other streams and error messages, and the handler, unless the logs had
\* to be opened a second time.
THEOREM LinesOnceInOrder == Spec => []EachLineOnce
<1>1. LinesAreSafe => EachLineOnce
  BY DEF LinesAreSafe
<1> QED
  BY <1>1, LinesInit, LinesNext, PTL DEF Spec

\* What the client gets of a container comes after all that it has of it.
LEMMA NewestReceived ==
  ASSUME LinesAreSafe, [Next]_vars, NEW item \in got' \ got, NEW g \in got,
         opened[item.from] # "again", g.from = item.from
  PROVE  g.line < item.line
<1>1. HandlerReceives
  BY DEF Next, vars, handVars, Environment, ContainerStarts, ContainerWrites, ContainerEnds,
         ClientLeaves, HandlerStarts, HandlerReturns, PollerRuns, ResolveAgain, TellError,
         ReportAndClose, Poll, Complain, Launch, LaunchEnds, PollerReturns, StreamRuns,
         Open, CheckContext, Read, Send, Close
<1>2. TypeOK /\ EachLineOnce
  BY DEF LinesAreSafe, StreamsAreSafe
<1>3. /\ chan # <<>> /\ chan' = Tail(chan)
      /\ item = Head(chan) /\ item # Error
  BY <1>1 DEF HandlerReceives
<1>4. item \in Line
  <2>1. chan \in Seq(Line \cup {Error})
    BY <1>2 DEF TypeOK
  <2> QED
    BY <1>3, <2>1, HeadTailProperties
<1> DEFINE c == item.from
<1>5. c \in Containers
  BY <1>4 DEF Line
<1>6. 1 \in Queued(c) /\ chan[1] = item
  BY <1>2, <1>3, <1>5, QueuedAfterReceive
<1>7. \A h \in got : h.from = c => h.line < chan[1].line
  BY <1>2, <1>5, <1>6 DEF EachLineOnce
<1> QED
  BY <1>6, <1>7

\* The client of a stream sees the lines of each container in the order in which
\* they were written, none of them twice, however the goroutines of the stream
\* take turns and whoever waits for the channel: unless the logs of the container
\* had to be opened a second time.
THEOREM ClientReadsInOrder ==
  Spec => [][\A item \in got' \ got, g \in got :
               opened[item.from] # "again" /\ g.from = item.from => g.line < item.line]_vars
<1> DEFINE InOrder == \A item \in got' \ got, g \in got :
               opened[item.from] # "again" /\ g.from = item.from => g.line < item.line
<1>1. LinesAreSafe /\ [Next]_vars => [InOrder]_vars
  BY NewestReceived
<1> QED
  BY <1>1, LinesInit, LinesNext, PTL DEF Spec

-----------------------------------------------------------------------------
(* What a client that has left leaves behind *)

\* How far a goroutine is from its end, once its context is done.
ToGo(t) ==
    CASE t = "idle"  -> 0 [] t = "close" -> 1 [] t = "check" -> 2
      [] t = "open"  -> 3 [] t = "send"  -> 4 [] t = "read"  -> 5

LEMMA ToGoValues ==
  /\ ToGo("idle") = 0 /\ ToGo("close") = 1 /\ ToGo("check") = 2
  /\ ToGo("open") = 3 /\ ToGo("send") = 4  /\ ToGo("read") = 5
  BY DEF ToGo

\* A goroutine that is under way when the context is done only gets nearer to its
\* end, and the poller that has returned starts no other.
WindsDown ==
    ContextDone =>
        /\ ContextDone'
        /\ \A s \in Streams :
              step[s] # "idle" /\ step'[s] # step[s] => ToGo(step'[s]) < ToGo(step[s])
        /\ poller = "ended" =>
              /\ poller' = "ended"
              /\ \A s \in Streams : step[s] = "idle" => step'[s] = "idle"

LEMMA WindsDownNext ==
  ASSUME TypeOK, PollerIsStarted, [Next]_vars
  PROVE  WindsDown
<1> USE DEF WindsDown, ContextDone, logVars, chanVars, handVars, pollVars, strVars
<1>1. CASE UNCHANGED step /\ UNCHANGED poller /\ (ContextDone => ContextDone')
  BY <1>1
<1>2. CASE Environment \/ HandlerReceives \/ HandlerReturns \/ UNCHANGED vars
  BY <1>2 DEF Environment, ContainerStarts, ContainerWrites, ContainerEnds, ClientLeaves,
              HandlerReceives, HandlerReturns, vars
<1>3. CASE HandlerStarts
  BY <1>3 DEF HandlerStarts, PollerIsStarted
<1>4. CASE \E c \in Containers : Launch(c)
  BY <1>4 DEF Launch, PollerAt, TypeOK
<1>5. CASE \/ ResolveAgain \/ TellError \/ ReportAndClose \/ Poll \/ Complain
           \/ LaunchEnds \/ PollerReturns
  BY <1>5 DEF ResolveAgain, TellError, ReportAndClose, Poll, Complain, LaunchEnds,
              PollerReturns, PollerAt, PollerGoto
<1>6. ASSUME NEW s \in Streams, StreamRuns(s) PROVE WindsDown
  <2>1. UNCHANGED <<handler, left, poller>>
    BY <1>6 DEF StreamRuns, Open, CheckContext, Read, Send, Close
  <2>2. /\ \A t \in Streams \ {s} : step'[t] = step[t]
        /\ step[s] # "idle"
        /\ ContextDone => ToGo(step'[s]) < ToGo(step[s])
    BY <1>6, ToGoValues DEF StreamRuns, Open, CheckContext, Read, Send, Close, StepTo, TypeOK
  <2> QED
    BY <2>1, <2>2
<1> QED
  BY <1>2, <1>3, <1>4, <1>5, <1>6 DEF Next, PollerRuns

\* When the client has left, each of its goroutines sends one more line at most and
\* then ends, with no step that takes it back to its logs; and when the poller has
\* returned too, none is started any more: the safety half of LeaverIsForgotten.
THEOREM StreamsWindDown == Spec => [][WindsDown]_vars
<1>1. StreamsAreSafe /\ [Next]_vars => [WindsDown]_vars
  BY WindsDownNext DEF StreamsAreSafe
<1> QED
  BY <1>1, SafeInit, SafeNext, PTL DEF Spec

=============================================================================
