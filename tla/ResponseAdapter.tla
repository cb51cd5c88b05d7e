--------------------------- MODULE ResponseAdapter ---------------------------
(***************************************************************************)
(* HttpResponseAdapterFeature: the body of one response.                   *)
(*                                                                         *)
(* The adapter is the stream and the PipeWriter that the application       *)
(* writes to.  It may collect the content in a buffered stream until the   *)
(* response is completed, buffering may be switched off in between, and    *)
(* the writer holds data of its own until it is flushed: content can wait  *)
(* in three places before it reaches the body of the server.               *)
(***************************************************************************)
EXTENDS Naturals, Sequences

CONSTANTS
  Usages,     \* the sets of calls that an application may use a response with
  MaxWrites   \* bound on its writes

CallKinds == {"EnableBuffering", "DisableBuffering", "Start", "Write", "Advance", "WriteAsync",
              "FlushWriter", "Flush", "ClearContent", "SuppressContent", "Complete"}

ASSUME ConstantsAssumption == Usages \subseteq SUBSET CallKinds /\ MaxWrites \in Nat

VARIABLES
  state,     \* _state
  opened,    \* whether _bufferedStream exists
  buffer,    \* the writes in _bufferedStream
  writer,    \* _pipeWriter: none, over this stream, draining first, or the server's
  held,      \* the writes the writer holds
  suppress,  \* SuppressContent
  sent,      \* the writes that reached the body of the server
  closed,    \* whether the body of the server was completed
  over,      \* whether the request has left ResponseFeaturesMiddleware
  usage,     \* the calls that the application of this response uses
  written,   \* history: the writes so far, numbered from 1
  dropped    \* history: the writes cleared or suppressed

vars == <<state, opened, buffer, writer, held, suppress, sent, closed, over, usage, written, dropped>>

bufferVars == <<opened, buffer>>
writerVars == <<writer, held>>
serverVars == <<sent, closed, over>>
requestVars == <<suppress, usage>>
historyVars == <<written, dropped>>

States == {"NotStarted", "Buffering", "NotBuffering", "Complete"}
Writers == {"none", "stream", "draining", "server"}

Elements(s) == {s[i] : i \in DOMAIN s}

-----------------------------------------------------------------------------
(* Operations as functions of the content                                  *)

\* The state after CurrentStream was read.
StateOfStream == IF state = "NotStarted" THEN "NotBuffering" ELSE state

\* Content is written to CurrentStream.
WriteToStream(content) ==
  /\ state' = StateOfStream
  /\ IF state = "Buffering"
     THEN opened' = TRUE /\ buffer' = buffer \o content /\ UNCHANGED sent
     ELSE sent' = sent \o content /\ UNCHANGED bufferVars

\* Mutant: what the draining writer holds overtakes the buffer.
DrainLast(more) ==
  /\ opened' = FALSE /\ buffer' = <<>>
  /\ IF suppress
     THEN sent' = sent \o more /\ dropped' = dropped \cup Elements(buffer)
     ELSE sent' = sent \o more \o buffer /\ UNCHANGED dropped

\* DrainStreamAsync, followed by more content for the body of the server.
\* Suppressed content is dropped.
Drain(more) ==
  /\ opened' = FALSE /\ buffer' = <<>>
  /\ IF suppress
     THEN sent' = sent \o more /\ dropped' = dropped \cup Elements(buffer)
     ELSE sent' = sent \o buffer \o more /\ UNCHANGED dropped

\* Mutant: the writer is not flushed.
FlushInternalBuffer ==
  /\ UNCHANGED held
  /\ IF state = "Buffering" THEN Drain(<<>>) ELSE UNCHANGED <<bufferVars, sent, dropped>>

\* FlushInternalAsync: the writer is flushed, into the buffer if there is
\* one, and then the buffer is drained.
FlushInternal ==
  /\ held' = <<>>
  /\ CASE writer = "stream" /\ state = "Buffering" ->
            /\ opened' = FALSE /\ buffer' = <<>>
            /\ IF suppress
               THEN dropped' = dropped \cup Elements(buffer \o held) /\ UNCHANGED sent
               ELSE sent' = sent \o buffer \o held /\ UNCHANGED dropped
       [] writer = "stream" /\ state # "Buffering" ->
            sent' = sent \o held /\ UNCHANGED <<bufferVars, dropped>>
       [] writer = "draining" -> Drain(held)
       [] writer = "server" -> UNCHANGED <<bufferVars, sent, dropped>>
       [] writer = "none" /\ state = "Buffering" -> Drain(<<>>)
       [] OTHER -> UNCHANGED <<bufferVars, sent, dropped>>

-----------------------------------------------------------------------------
(* What the application does                                               *)

Call(kind) == kind \in usage /\ ~over
NewWrite == written < MaxWrites /\ written' = written + 1

\* Throws if writing has begun.
EnableBuffering ==
  /\ Call("EnableBuffering") /\ state = "NotStarted"
  /\ state' = "Buffering"
  /\ UNCHANGED <<bufferVars, writerVars, requestVars, serverVars, historyVars>>

\* HttpResponse.BufferOutput = false.  What is buffered already is drained by
\* a writer of its own the next time that it is flushed.
DisableBuffering ==
  /\ Call("DisableBuffering")
  /\ state' = "NotBuffering"
  /\ writer' = IF opened THEN "draining" ELSE "server"
  /\ held' = <<>>
  /\ UNCHANGED <<bufferVars, requestVars, serverVars, historyVars>>

\* Mutant: starting the response does not look at the state.
StartAlways ==
  /\ Call("Start")
  /\ state' = "NotBuffering"
  /\ UNCHANGED <<bufferVars, writerVars, requestVars, serverVars, historyVars>>

Start ==
  /\ Call("Start")
  /\ state' = StateOfStream
  /\ UNCHANGED <<bufferVars, writerVars, requestVars, serverVars, historyVars>>

\* HttpResponse.Write, OutputStream and TransmitFile.  The server accepts no
\* writes once its body is completed.
Write ==
  /\ Call("Write") /\ ~closed
  /\ NewWrite
  /\ WriteToStream(<<written'>>)
  /\ UNCHANGED <<writerVars, requestVars, closed, over, dropped>>

\* The application writes to BodyWriter, which is created the first time, and
\* does not flush it.  The writer of the server keeps its content in the
\* order of the writes to the server's stream.
Advance ==
  /\ Call("Advance") /\ ~closed
  /\ NewWrite
  /\ writer' = IF writer = "none" THEN "stream" ELSE writer
  /\ IF writer = "server" \/ (writer = "draining" /\ ~opened /\ held = <<>>)
     THEN sent' = Append(sent, written') /\ UNCHANGED held
     ELSE held' = Append(held, written') /\ UNCHANGED sent
  /\ UNCHANGED <<state, bufferVars, requestVars, closed, over, dropped>>

\* BodyWriter.WriteAsync writes and flushes.
WriteAsync ==
  /\ Call("WriteAsync") /\ ~closed
  /\ NewWrite
  /\ writer' = IF writer = "none" THEN "stream" ELSE writer
  /\ held' = <<>>
  /\ CASE writer' = "stream" -> WriteToStream(Append(held, written')) /\ UNCHANGED dropped
       [] writer' = "draining" -> Drain(Append(held, written')) /\ UNCHANGED state
       [] writer' = "server" -> sent' = Append(sent, written') /\ UNCHANGED <<state, bufferVars, dropped>>
  /\ UNCHANGED <<requestVars, closed, over>>

\* BodyWriter.FlushAsync does nothing if the writer over this stream is empty.
FlushWriter ==
  /\ Call("FlushWriter") /\ ~closed
  /\ writer \in {"stream", "draining"}
  /\ held' = <<>>
  /\ IF writer = "draining"
     THEN Drain(held) /\ UNCHANGED state
     ELSE held # <<>> /\ WriteToStream(held) /\ UNCHANGED dropped
  /\ UNCHANGED <<writer, requestVars, closed, over, written>>

\* Flush of the stream: a buffered response is not sent, but its buffer is
\* created if need be.
Flush ==
  /\ Call("Flush")
  /\ state' = StateOfStream
  /\ opened' = (opened \/ state = "Buffering")
  /\ UNCHANGED <<buffer, writerVars, requestVars, serverVars, historyVars>>

\* Throws unless the response is buffered, but has read CurrentStream by then.
ClearContent ==
  /\ Call("ClearContent")
  /\ state' = StateOfStream
  /\ IF state = "Buffering"
     THEN opened' = FALSE /\ buffer' = <<>> /\ dropped' = dropped \cup Elements(buffer)
     ELSE UNCHANGED <<bufferVars, dropped>>
  /\ UNCHANGED <<writerVars, requestVars, serverVars, written>>

\* Setting it throws unless the response is buffered; resetting it does not.
SuppressContent ==
  /\ Call("SuppressContent")
  /\ \/ state = "Buffering" /\ suppress' = TRUE
     \/ suppress' = FALSE
  /\ UNCHANGED <<state, bufferVars, writerVars, serverVars, usage, historyVars>>

\* CompleteAsync, which is also what EndAsync does.
Complete ==
  /\ Call("Complete") /\ state # "Complete"
  /\ FlushInternal
  /\ state' = "Complete"
  /\ closed' = TRUE
  /\ UNCHANGED <<writer, requestVars, over, written>>

\* The finally block of ResponseFeaturesMiddleware.
Leave ==
  /\ ~over
  /\ over' = TRUE
  /\ FlushInternal
  /\ state' = IF held # <<>> /\ writer = "stream" THEN StateOfStream ELSE state
  /\ UNCHANGED <<writer, requestVars, closed, written>>

-----------------------------------------------------------------------------
Init ==
  /\ state = "NotStarted" /\ opened = FALSE /\ buffer = <<>>
  /\ writer = "none" /\ held = <<>> /\ suppress = FALSE
  /\ sent = <<>> /\ closed = FALSE /\ over = FALSE
  /\ usage \in Usages
  /\ written = 0 /\ dropped = {}

Terminating == over /\ UNCHANGED vars

Next ==
  \/ EnableBuffering \/ DisableBuffering \/ Start \/ Write \/ Advance \/ WriteAsync \/ FlushWriter
  \/ Flush \/ ClearContent \/ SuppressContent \/ Complete \/ Leave \/ Terminating

Spec == Init /\ [][Next]_vars

-----------------------------------------------------------------------------
\* The variables keep their types; only a writer that drains waits for the
\* buffer of a response that is not buffered any more.
TypeOK ==
  /\ state \in States /\ writer \in Writers
  /\ opened \in BOOLEAN /\ suppress \in BOOLEAN /\ closed \in BOOLEAN /\ over \in BOOLEAN
  /\ usage \in Usages
  /\ written \in 0 .. MaxWrites /\ dropped \subseteq 1 .. MaxWrites
  /\ buffer \in Seq(1 .. MaxWrites) /\ held \in Seq(1 .. MaxWrites) /\ sent \in Seq(1 .. MaxWrites)
  /\ opened /\ state # "Buffering" => writer = "draining"
  /\ ~opened => buffer = <<>>

\* The response is what OrderedResponse promises: what was written is sent
\* once and in order, except for what was cleared or suppressed, wherever it
\* waited.
Ordered == INSTANCE OrderedResponse WITH pending <- buffer \o held
ImplementsOrderedResponse == Ordered!Spec

\* The usages of which this holds: not those that mix the writer with the
\* stream while the writer holds content, and not those that replace a writer
\* that holds some.
OrderedUsages ==
  \A calls \in Usages :
    /\ "Advance" \in calls => calls \cap {"Write", "ClearContent", "DisableBuffering"} = {}
    /\ "DisableBuffering" \in calls => "Write" \notin calls

\* When the response was completed, or the request has left the adapter, nothing
\* waits any more: also not what the writer held and the application never
\* flushed.
EverythingSent == closed \/ over => buffer \o held = <<>>

\* The content is sent in the order in which it was written
\* (HttpResponseAdapterFeature.cs:313-315).
SentInOrder == \A i, j \in DOMAIN sent : i < j => sent[i] < sent[j]
=============================================================================
