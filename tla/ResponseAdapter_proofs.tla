------------------------ MODULE ResponseAdapter_proofs ------------------------
(***************************************************************************)
(* What the response adapter does with the content, for every way to use   *)
(* it and any number of writes.  The proof follows the writer: only a      *)
(* response that is not buffered has a writer of another kind than the     *)
(* first, and only a writer that drains leaves a buffer behind when        *)
(* buffering is switched off.                                              *)
(***************************************************************************)
EXTENDS ResponseAdapter, SequenceTheorems, TLAPS

\* Which writer a response has in a state, and what it may hold.
WriterInv ==
  /\ writer \in {"draining", "server"} => state \in {"NotBuffering", "Complete"}
  /\ writer \in {"draining", "server"} => "DisableBuffering" \in usage
  /\ writer \in {"none", "server"} => held = <<>>
  /\ held # <<>> => "Advance" \in usage

\* A response that is closed never buffers again, and nothing waits in it.
ClosedInv ==
  /\ closed => state \in {"NotBuffering", "Complete"}
  /\ EverythingSent

IInv == TypeOK /\ WriterInv /\ ClosedInv

Content == Seq(1 .. MaxWrites)

-----------------------------------------------------------------------------
(* Sequences of writes.                                                     *)

LEMMA ContentProperties ==
  /\ <<>> \in Content
  /\ \A s, t \in Content : s \o t \in Content
  /\ \A s, t \in Content : s \o t = <<>> <=> s = <<>> /\ t = <<>>
  /\ \A s \in Content : s \o <<>> = s /\ <<>> \o s = s
  /\ \A s \in Content : Elements(s) \subseteq 1 .. MaxWrites
<1>1. <<>> \in Content
  BY EmptySeq DEF Content
<1>2. \A s, t \in Content : s \o t \in Content
  BY ConcatProperties DEF Content
<1>3. \A s, t \in Content : s \o t = <<>> <=> s = <<>> /\ t = <<>>
  BY ConcatEqualIffEmpty DEF Content
<1>4. \A s \in Content : s \o <<>> = s /\ <<>> \o s = s
  BY ConcatEmptySeq DEF Content
<1>5. \A s \in Content : Elements(s) \subseteq 1 .. MaxWrites
  <2> SUFFICES ASSUME NEW s \in Content, NEW i \in DOMAIN s
               PROVE  s[i] \in 1 .. MaxWrites
    BY DEF Elements
  <2> QED
    BY LenProperties, ElementOfSeq DEF Content
<1> QED
  BY <1>1, <1>2, <1>3, <1>4, <1>5

\* A new write is a number that was not used, at the end of what is there.
LEMMA NewContent ==
  ASSUME NewWrite, written \in 0 .. MaxWrites
  PROVE  /\ written' \in 1 .. MaxWrites
         /\ <<written'>> \in Content
         /\ \A s \in Content : Append(s, written') \in Content /\ Append(s, written') = s \o <<written'>>
<1>1. written' \in 1 .. MaxWrites
  BY ConstantsAssumption DEF NewWrite
<1>2. <<written'>> \in Content
  BY <1>1 DEF Content
<1>3. \A s \in Content : Append(s, written') \in Content
  BY <1>1 DEF Content
<1>4. \A s \in Content : Append(s, written') = s \o <<written'>>
  BY <1>1, AppendIsConcat DEF Content
<1> QED
  BY <1>1, <1>2, <1>3, <1>4

-----------------------------------------------------------------------------
(* The parts that several actions have in common.                           *)

\* What is written to the stream goes to the buffer of a response that is
\* buffered, and leaves it alone otherwise.
LEMMA WriteToStreamPreserves ==
  ASSUME IInv, NEW content \in Content, WriteToStream(content)
  PROVE  /\ state' \in States /\ opened' \in BOOLEAN
         /\ buffer' \in Content /\ sent' \in Content
         /\ state' = "Buffering" <=> state = "Buffering"
         /\ state' = state \/ state = "NotStarted"
         /\ opened' => opened \/ state = "Buffering"
         /\ ~opened' => buffer' = <<>>
<1>1. state \in States /\ opened \in BOOLEAN /\ buffer \in Content /\ sent \in Content
  BY DEF IInv, TypeOK, Content
<1>2. buffer \o content \in Content /\ sent \o content \in Content
  BY <1>1, ContentProperties
<1>3. ~opened => buffer = <<>>
  BY DEF IInv, TypeOK
<1>4. CASE state = "Buffering"
  BY <1>1, <1>2, <1>4 DEF WriteToStream, StateOfStream, States
<1>5. CASE state # "Buffering"
  BY <1>1, <1>2, <1>3, <1>5 DEF WriteToStream, StateOfStream, bufferVars, States
<1> QED
  BY <1>4, <1>5

LEMMA DrainPreserves ==
  ASSUME IInv, NEW more \in Content, Drain(more)
  PROVE  /\ opened' = FALSE /\ buffer' = <<>>
         /\ sent' \in Content /\ dropped' \subseteq 1 .. MaxWrites
<1>1. buffer \in Content /\ sent \in Content /\ dropped \subseteq 1 .. MaxWrites
  BY DEF IInv, TypeOK, Content
<1>2. /\ sent \o more \in Content /\ (sent \o buffer) \o more \in Content
      /\ Elements(buffer) \subseteq 1 .. MaxWrites
  BY <1>1, ContentProperties
<1> QED
  BY <1>1, <1>2 DEF Drain

\* Nothing waits when everything was flushed.
LEMMA FlushInternalPreserves ==
  ASSUME IInv, FlushInternal
  PROVE  /\ held' = <<>> /\ buffer' = <<>>
         /\ opened' = FALSE
         /\ sent' \in Content /\ dropped' \subseteq 1 .. MaxWrites
<1>0. /\ buffer \in Content /\ held \in Content /\ sent \in Content
      /\ dropped \subseteq 1 .. MaxWrites /\ <<>> \in Content
  BY ContentProperties DEF IInv, TypeOK, Content
<1>1. /\ Elements(buffer \o held) \subseteq 1 .. MaxWrites
      /\ sent \o held \in Content /\ (sent \o buffer) \o held \in Content
  <2>1. buffer \o held \in Content /\ sent \o held \in Content /\ sent \o buffer \in Content
    BY <1>0, ContentProperties
  <2> QED
    BY <1>0, <2>1, ContentProperties
<1>2. CASE writer = "stream" /\ state = "Buffering"
  <2>1. /\ held' = <<>> /\ opened' = FALSE /\ buffer' = <<>>
        /\ \/ dropped' = dropped \cup Elements(buffer \o held) /\ UNCHANGED sent
           \/ sent' = sent \o buffer \o held /\ UNCHANGED dropped
    BY <1>2 DEF FlushInternal
  <2> QED
    BY <1>0, <1>1, <2>1
<1>3. CASE writer = "stream" /\ state # "Buffering"
  <2>1. held' = <<>> /\ sent' = sent \o held /\ UNCHANGED <<opened, buffer, dropped>>
    BY <1>3 DEF FlushInternal, bufferVars
  <2>2. opened = FALSE /\ buffer = <<>>
    BY <1>3 DEF IInv, TypeOK
  <2> QED
    BY <1>0, <1>1, <2>1, <2>2
<1>4. CASE writer = "draining"
  BY <1>0, <1>4, DrainPreserves DEF FlushInternal
<1>5. CASE writer = "server"
  BY <1>0, <1>5 DEF FlushInternal, bufferVars, IInv, TypeOK, WriterInv
<1>6. CASE writer = "none" /\ state = "Buffering"
  BY <1>0, <1>6, DrainPreserves DEF FlushInternal
<1>7. CASE writer = "none" /\ state # "Buffering"
  BY <1>0, <1>7 DEF FlushInternal, bufferVars, IInv, TypeOK
<1> QED
  BY <1>2, <1>3, <1>4, <1>5, <1>6, <1>7 DEF IInv, TypeOK, Writers

-----------------------------------------------------------------------------
(* The invariant.                                                           *)

LEMMA InitHolds == Init => IInv
<1> SUFFICES ASSUME Init PROVE IInv
  OBVIOUS
<1>1. <<>> \in Content /\ 0 \in 0 .. MaxWrites
  BY ContentProperties, ConstantsAssumption
<1>2. TypeOK
  BY <1>1 DEF Init, TypeOK, States, Writers, Content
<1>3. WriterInv /\ ClosedInv
  BY DEF Init, WriterInv, ClosedInv, EverythingSent
<1> QED
  BY <1>2, <1>3 DEF IInv

LEMMA StepHolds == IInv /\ [Next]_vars => IInv'
<1> SUFFICES ASSUME IInv, [Next]_vars
             PROVE  IInv'
  OBVIOUS
<1> USE DEF IInv, TypeOK, WriterInv, ClosedInv, EverythingSent
<1>0. /\ buffer \in Content /\ held \in Content /\ sent \in Content
      /\ written \in 0 .. MaxWrites /\ usage \in Usages
  BY DEF Content
<1>1. CASE EnableBuffering
  BY <1>1 DEF EnableBuffering, Call, bufferVars, writerVars, requestVars, serverVars, historyVars, States
<1>2. CASE DisableBuffering
  BY <1>2, ContentProperties
  DEF DisableBuffering, Call, bufferVars, requestVars, serverVars, historyVars, States, Writers, Content
<1>3. CASE Start
  BY <1>3
  DEF Start, StateOfStream, Call, bufferVars, writerVars, requestVars, serverVars, historyVars, States
<1>4. CASE Write
  <2>1. <<written'>> \in Content /\ written' \in 0 .. MaxWrites
    BY <1>0, <1>4, NewContent, ConstantsAssumption DEF Write, NewWrite
  <2>2. WriteToStream(<<written'>>)
    BY <1>4 DEF Write
  <2>3. UNCHANGED <<writerVars, requestVars, closed, over, dropped>> /\ ~closed /\ ~over
    BY <1>4 DEF Write, Call
  <2> QED
    BY <2>1, <2>2, <2>3, WriteToStreamPreserves DEF writerVars, requestVars, Content, States
<1>5. CASE Advance
  <2>1. written' \in 0 .. MaxWrites
    BY <1>0, <1>5, NewContent, ConstantsAssumption DEF Advance, NewWrite
  <2>2. held' \in Content /\ sent' \in Content /\ writer' \in Writers
    BY <1>0, <1>5, NewContent DEF Advance, Writers
  <2>3. UNCHANGED <<state, bufferVars, requestVars, closed, over, dropped>> /\ ~closed /\ ~over
    BY <1>5 DEF Advance, Call
  <2>4. "Advance" \in usage
    BY <1>5 DEF Advance, Call
  <2>5. (writer' = writer \/ writer' = "stream") /\ (writer' \in {"none", "server"} => held' = <<>>)
    BY <1>5 DEF Advance, Writers
  <2>6. opened /\ state # "Buffering" => writer' = "draining"
    BY <1>5 DEF Advance
  <2> QED
    BY <2>1, <2>2, <2>3, <2>4, <2>5, <2>6 DEF bufferVars, requestVars, Content
<1>6. CASE WriteAsync
  <2>1. /\ written' \in 0 .. MaxWrites /\ <<>> \in Content
        /\ Append(held, written') \in Content /\ Append(sent, written') \in Content
    BY <1>0, <1>6, NewContent, ContentProperties, ConstantsAssumption DEF WriteAsync, NewWrite
  <2>2. /\ writer' \in {"stream", "draining", "server"} /\ held' = <<>>
        /\ writer' # writer => writer = "none" /\ writer' = "stream"
        /\ UNCHANGED <<requestVars, closed, over>> /\ ~closed /\ ~over
    BY <1>6 DEF WriteAsync, Call, Writers
  <2>3. CASE writer' = "stream"
    <3>1. WriteToStream(Append(held, written')) /\ UNCHANGED dropped
      BY <1>6, <2>3 DEF WriteAsync
    <3> QED
      BY <2>1, <2>2, <2>3, <3>1, WriteToStreamPreserves DEF requestVars, Content, States, Writers
  <2>4. CASE writer' = "draining"
    <3>1. Drain(Append(held, written')) /\ UNCHANGED state
      BY <1>6, <2>4 DEF WriteAsync
    <3> QED
      BY <2>1, <2>2, <2>4, <3>1, DrainPreserves DEF requestVars, Content, Writers
  <2>5. CASE writer' = "server"
    <3>1. sent' = Append(sent, written') /\ UNCHANGED <<state, bufferVars, dropped>>
      BY <1>6, <2>5 DEF WriteAsync
    <3> QED
      BY <2>1, <2>2, <2>5, <3>1 DEF requestVars, bufferVars, Content, Writers
  <2> QED
    BY <2>2, <2>3, <2>4, <2>5
<1>7. CASE FlushWriter
  <2>1. /\ writer \in {"stream", "draining"} /\ held' = <<>> /\ <<>> \in Content
        /\ UNCHANGED <<writer, requestVars, closed, over, written>> /\ ~closed /\ ~over
    BY <1>7, ContentProperties DEF FlushWriter, Call
  <2>2. CASE writer = "draining"
    <3>1. Drain(held) /\ UNCHANGED state
      BY <1>7, <2>2 DEF FlushWriter
    <3> QED
      BY <1>0, <2>1, <2>2, <3>1, DrainPreserves DEF requestVars, Content
  <2>3. CASE writer = "stream"
    <3>1. WriteToStream(held) /\ UNCHANGED dropped
      BY <1>7, <2>3 DEF FlushWriter
    <3> QED
      BY <1>0, <2>1, <2>3, <3>1, WriteToStreamPreserves DEF requestVars, Content, States
  <2> QED
    BY <2>1, <2>2, <2>3
<1>8. CASE Flush
  BY <1>8 DEF Flush, StateOfStream, Call, writerVars, requestVars, serverVars, historyVars, States
<1>9. CASE ClearContent
  BY <1>0, <1>9, ContentProperties
  DEF ClearContent, StateOfStream, Call, bufferVars, writerVars, requestVars, serverVars, States, Content
<1>10. CASE SuppressContent
  BY <1>10 DEF SuppressContent, bufferVars, writerVars, serverVars, historyVars
<1>11. CASE Complete
  <2>1. FlushInternal /\ state' = "Complete" /\ closed' = TRUE
        /\ UNCHANGED <<writer, requestVars, over, written>>
    BY <1>11 DEF Complete
  <2> QED
    BY <2>1, FlushInternalPreserves, ContentProperties DEF requestVars, Content, States
<1>12. CASE Leave
  <2>1. /\ FlushInternal /\ over' = TRUE
        /\ UNCHANGED <<writer, requestVars, closed, written>>
        /\ state' \in States
        /\ state' = state \/ (state = "NotStarted" /\ state' = "NotBuffering")
    BY <1>12 DEF Leave, StateOfStream, States
  <2> QED
    BY <2>1, FlushInternalPreserves, ContentProperties DEF requestVars, Content, States
<1>13. CASE Terminating \/ UNCHANGED vars
  <2>1. /\ UNCHANGED <<state, opened, buffer, writer, held, suppress>>
        /\ UNCHANGED <<sent, closed, over, usage, written, dropped>>
    BY <1>13 DEF Terminating, vars
  <2> QED
    BY <2>1
<1> QED
  BY <1>1, <1>2, <1>3, <1>4, <1>5, <1>6, <1>7, <1>8, <1>9, <1>10, <1>11, <1>12, <1>13 DEF Next

\* The inductive invariant holds in every state of the adapter.
THEOREM Invariant == Spec => []IInv
  BY InitHolds, StepHolds, PTL DEF Spec

\* The variables of the adapter keep their types, and only a writer that drains
\* leaves a buffer behind, for every way to use the response.
THEOREM TypeCorrect == Spec => []TypeOK
<1>1. IInv => TypeOK
  BY DEF IInv
<1> QED
  BY <1>1, Invariant, PTL

\* When the response was completed, or the request has left the adapter, nothing
\* waits, however the application used it.
THEOREM NothingWaitsAtTheEnd == Spec => []EverythingSent
<1>1. IInv => EverythingSent
  BY DEF IInv, ClosedInv
<1> QED
  BY <1>1, Invariant, PTL

-----------------------------------------------------------------------------
(* The response implements OrderedResponse.                                 *)

Pending == buffer \o held

\* A stuttering step of OrderedResponse, and the steps that it may take.
Unmoved == Pending' = Pending /\ sent' = sent /\ written' = written /\ dropped' = dropped

Added == NewWrite /\ Pending' = Append(Pending, written') /\ UNCHANGED <<sent, dropped>>

SentWithNew == NewWrite /\ sent' = sent \o Pending \o <<written'>> /\ Pending' = <<>> /\ UNCHANGED dropped

DroppedWithNew ==
  /\ NewWrite
  /\ dropped' = dropped \cup Elements(Pending)
  /\ sent' = Append(sent, written') /\ Pending' = <<>>

AllSent == sent' = sent \o Pending /\ Pending' = <<>> /\ UNCHANGED <<written, dropped>>

AllDropped == dropped' = dropped \cup Elements(Pending) /\ Pending' = <<>> /\ UNCHANGED <<written, sent>>

OrderedStep ==
  Unmoved \/ Added \/ SentWithNew \/ DroppedWithNew \/ AllSent \/ AllDropped

LEMMA OrderedStepIsAStep == OrderedStep => [Ordered!Next]_(Ordered!vars)
<1> USE DEF Pending
<1>1. Unmoved => UNCHANGED Ordered!vars
  BY DEF Unmoved, Ordered!vars
<1>2. Added => Ordered!Write
  BY DEF Added, NewWrite, Ordered!Write
<1>3. SentWithNew => Ordered!Write
  BY DEF SentWithNew, NewWrite, Ordered!Write
<1>4. DroppedWithNew => Ordered!Write
  BY DEF DroppedWithNew, NewWrite, Ordered!Write, Elements, Ordered!Elements
<1>5. AllSent => Ordered!Send
  BY DEF AllSent, Ordered!Send
<1>6. AllDropped => Ordered!Drop
  BY DEF AllDropped, Ordered!Drop, Elements, Ordered!Elements
<1> QED
  BY <1>1, <1>2, <1>3, <1>4, <1>5, <1>6 DEF OrderedStep, Ordered!Next

\* What the invariant and the usage say of the places where content waits.
LEMMA Places ==
  ASSUME IInv, OrderedUsages
  PROVE  /\ buffer \in Content /\ held \in Content /\ sent \in Content
         /\ "Advance" \notin usage => held = <<>>
         /\ "DisableBuffering" \in usage => held = <<>> /\ "Write" \notin usage
         /\ "Advance" \in usage =>
               {"Write", "ClearContent", "DisableBuffering"} \cap usage = {}
         /\ state # "Buffering" /\ writer # "draining" => buffer = <<>>
         /\ "DisableBuffering" \notin usage => writer \in {"none", "stream"}
         /\ writer = "none" => held = <<>>
<1>1. buffer \in Content /\ held \in Content /\ sent \in Content
  BY DEF IInv, TypeOK, Content
<1>2. "Advance" \notin usage => held = <<>>
  BY DEF IInv, WriterInv
<1>3. usage \in Usages
  BY DEF IInv, TypeOK
<1>4. "Advance" \in usage => {"Write", "ClearContent", "DisableBuffering"} \cap usage = {}
  BY <1>3 DEF OrderedUsages
<1>5. "DisableBuffering" \in usage => held = <<>> /\ "Write" \notin usage
  BY <1>2, <1>3, <1>4 DEF OrderedUsages
<1>6. state # "Buffering" /\ writer # "draining" => buffer = <<>>
  BY DEF IInv, TypeOK
<1>7. "DisableBuffering" \notin usage => writer \in {"none", "stream"}
  BY DEF IInv, TypeOK, WriterInv, Writers
<1>8. writer = "none" => held = <<>>
  BY DEF IInv, WriterInv
<1> QED
  BY <1>1, <1>2, <1>4, <1>5, <1>6, <1>7, <1>8

LEMMA Associative ==
  \A s, t, u \in Content : (s \o t) \o u = s \o (t \o u)
  BY ConcatAssociative DEF Content

\* Draining when the writer holds nothing.
LEMMA DrainIsOrdered ==
  ASSUME buffer \in Content, sent \in Content, held = <<>>, held' = <<>>,
         UNCHANGED written, Drain(<<>>)
  PROVE  OrderedStep
<1>1. Pending = buffer /\ Pending' = <<>>
  BY ContentProperties DEF Pending, Drain
<1>2. sent \o <<>> = sent /\ (sent \o buffer) \o <<>> = sent \o buffer
  BY ContentProperties
<1>3. CASE suppress
  BY <1>1, <1>2, <1>3 DEF Drain, AllDropped, OrderedStep
<1>4. CASE ~suppress
  BY <1>1, <1>2, <1>4 DEF Drain, AllSent, OrderedStep
<1> QED
  BY <1>3, <1>4

LEMMA FlushInternalIsOrdered ==
  ASSUME IInv, OrderedUsages, FlushInternal, UNCHANGED written
  PROVE  OrderedStep
<1>0. /\ buffer \in Content /\ held \in Content /\ sent \in Content
      /\ held' = <<>> /\ buffer' = <<>> /\ Pending' = <<>>
  BY Places, FlushInternalPreserves, ContentProperties DEF Pending
<1>1. CASE writer = "stream" /\ state = "Buffering"
  <2>1. (sent \o buffer) \o held = sent \o Pending
    BY <1>0, Associative DEF Pending
  <2>2. CASE suppress
    BY <1>0, <1>1, <2>2 DEF FlushInternal, AllDropped, Pending, OrderedStep
  <2>3. CASE ~suppress
    BY <1>0, <1>1, <2>1, <2>3 DEF FlushInternal, AllSent, Pending, OrderedStep
  <2> QED
    BY <2>2, <2>3
<1>2. CASE writer = "stream" /\ state # "Buffering"
  <2>1. Pending = held
    BY <1>0, <1>2, Places, ContentProperties DEF Pending
  <2> QED
    BY <1>0, <1>2, <2>1 DEF FlushInternal, AllSent, OrderedStep
<1>3. CASE writer = "draining"
  <2>1. held = <<>>
    BY <1>3, Places
  <2> QED
    BY <1>0, <1>3, <2>1, DrainIsOrdered DEF FlushInternal
<1>4. CASE writer = "none" /\ state = "Buffering"
  <2>1. held = <<>>
    BY <1>4, Places
  <2> QED
    BY <1>0, <1>4, <2>1, DrainIsOrdered DEF FlushInternal
<1>5. CASE writer = "server" \/ (writer = "none" /\ state # "Buffering")
  <2>1. held = <<>> /\ buffer = <<>>
    BY <1>5, Places DEF IInv, WriterInv
  <2> QED
    BY <1>0, <1>5, <2>1 DEF FlushInternal, Unmoved, Pending, OrderedStep
<1> QED
  BY <1>1, <1>2, <1>3, <1>4, <1>5 DEF IInv, TypeOK, Writers

LEMMA StepIsOrdered ==
  ASSUME IInv, OrderedUsages, [Next]_vars
  PROVE  OrderedStep
<1>0. /\ buffer \in Content /\ held \in Content /\ sent \in Content
      /\ written \in 0 .. MaxWrites /\ <<>> \in Content
  BY Places, ContentProperties DEF IInv, TypeOK
<1>1. CASE EnableBuffering
  BY <1>1
  DEF EnableBuffering, bufferVars, writerVars, serverVars, historyVars, Unmoved, Pending, OrderedStep
<1>2. CASE DisableBuffering
  <2>1. held = <<>> /\ held' = held
    BY <1>2, Places DEF DisableBuffering, Call
  <2> QED
    BY <1>2, <2>1 DEF DisableBuffering, bufferVars, serverVars, historyVars, Unmoved, Pending, OrderedStep
<1>3. CASE Start
  BY <1>3
  DEF Start, bufferVars, writerVars, serverVars, historyVars, Unmoved, Pending, OrderedStep
<1>4. CASE Write
  <2>1. NewWrite /\ WriteToStream(<<written'>>) /\ UNCHANGED <<held, writer, dropped>>
    BY <1>4 DEF Write, writerVars
  <2>2. "Write" \in usage /\ "Advance" \notin usage /\ held = <<>> /\ writer # "draining"
    BY <1>4, Places DEF Write, Call
  <2>3. /\ <<written'>> \in Content
        /\ Append(buffer, written') = buffer \o <<written'>>
        /\ buffer \o <<written'>> \in Content
        /\ Pending = buffer
    BY <1>0, <2>1, <2>2, NewContent, ContentProperties DEF Pending
  <2>4. CASE state = "Buffering"
    <3>1. Pending' = Append(Pending, written')
      BY <2>1, <2>2, <2>3, <2>4, ContentProperties DEF WriteToStream, Pending
    <3> QED
      BY <2>1, <2>4, <3>1 DEF WriteToStream, Added, OrderedStep
  <2>5. CASE state # "Buffering"
    <3>1. Pending = <<>> /\ Pending' = <<>>
      BY <2>1, <2>2, <2>3, <2>5, Places, ContentProperties DEF WriteToStream, bufferVars, Pending
    <3>2. sent \o Pending \o <<written'>> = sent \o <<written'>>
      BY <1>0, <3>1, ContentProperties
    <3> QED
      BY <2>1, <2>5, <3>1, <3>2 DEF WriteToStream, SentWithNew, OrderedStep
  <2> QED
    BY <2>4, <2>5
<1>5. CASE Advance
  <2>1. NewWrite /\ "Advance" \in usage /\ UNCHANGED <<buffer, dropped>>
    BY <1>5 DEF Advance, Call, bufferVars
  <2>2. writer \in {"none", "stream"}
    BY <2>1, Places
  <2>3. held' = Append(held, written') /\ UNCHANGED sent
    BY <1>5, <2>2 DEF Advance
  <2>4. Pending' = Append(Pending, written')
    <3>1. /\ <<written'>> \in Content /\ Pending \in Content
          /\ Append(held, written') = held \o <<written'>>
      BY <1>0, <2>1, NewContent, ContentProperties DEF Pending
    <3>2. Append(Pending, written') = Pending \o <<written'>>
      BY <1>0, <2>1, <3>1, NewContent
    <3>3. buffer \o (held \o <<written'>>) = (buffer \o held) \o <<written'>>
      BY <1>0, <3>1, Associative
    <3> QED
      BY <2>1, <2>3, <3>1, <3>2, <3>3 DEF Pending
  <2> QED
    BY <2>1, <2>3, <2>4 DEF Added, OrderedStep
<1>6. CASE WriteAsync
  <2> DEFINE more == Append(held, written')
  <2>1. /\ NewWrite /\ held' = <<>>
        /\ writer' = IF writer = "none" THEN "stream" ELSE writer
    BY <1>6 DEF WriteAsync
  <2>2. /\ <<written'>> \in Content /\ more \in Content
        /\ more = held \o <<written'>>
        /\ Append(sent, written') = sent \o <<written'>>
        /\ Pending \in Content
        /\ Append(Pending, written') = Pending \o <<written'>>
    <3>1. Pending \in Content
      BY <1>0, ContentProperties DEF Pending
    <3> QED
      BY <1>0, <2>1, <3>1, NewContent
  <2>3. CASE writer' = "stream"
    <3>1. WriteToStream(more) /\ UNCHANGED dropped
      BY <1>6, <2>3 DEF WriteAsync
    <3>2. CASE state = "Buffering"
      <4>1. buffer' = buffer \o more /\ buffer \o more \in Content /\ UNCHANGED sent
        BY <1>0, <2>2, <3>1, <3>2, ContentProperties DEF WriteToStream
      <4>2. Pending' = buffer \o more
        BY <2>1, <4>1, ContentProperties DEF Pending
      <4>3. Pending' = Append(Pending, written')
        <5>1. buffer \o (held \o <<written'>>) = (buffer \o held) \o <<written'>>
          BY <1>0, <2>2, Associative
        <5> QED
          BY <2>2, <4>2, <5>1 DEF Pending
      <4> QED
        BY <2>1, <3>1, <4>1, <4>3 DEF Added, OrderedStep
    <3>3. CASE state # "Buffering"
      <4>1. buffer = <<>> /\ buffer' = <<>> /\ Pending = held
        BY <1>0, <2>1, <2>3, <3>1, <3>3, Places, ContentProperties
        DEF WriteToStream, bufferVars, Pending
      <4>2. sent' = sent \o Pending \o <<written'>> /\ Pending' = <<>>
        BY <1>0, <2>1, <2>2, <3>1, <3>3, <4>1, Associative, ContentProperties
        DEF WriteToStream, Pending
      <4> QED
        BY <2>1, <3>1, <4>2 DEF SentWithNew, OrderedStep
    <3> QED
      BY <3>2, <3>3
  <2>4. CASE writer' = "draining"
    <3>1. Drain(more)
      BY <1>6, <2>4 DEF WriteAsync
    <3>2. held = <<>> /\ more = <<written'>> /\ Pending = buffer /\ Pending' = <<>>
      BY <1>0, <2>1, <2>2, <2>4, <3>1, Places, ContentProperties DEF Pending, Drain
    <3>3. CASE suppress
      BY <2>1, <2>2, <3>1, <3>2, <3>3 DEF Drain, DroppedWithNew, OrderedStep
    <3>4. CASE ~suppress
      BY <2>1, <3>1, <3>2, <3>4 DEF Drain, SentWithNew, OrderedStep
    <3> QED
      BY <3>3, <3>4
  <2>5. CASE writer' = "server"
    <3>1. sent' = Append(sent, written') /\ UNCHANGED <<buffer, dropped, state>>
      BY <1>6, <2>5 DEF WriteAsync, bufferVars
    <3>2. writer = "server" /\ held = <<>> /\ buffer = <<>>
      BY <2>1, <2>5, Places DEF IInv, WriterInv
    <3>3. Pending = <<>> /\ Pending' = <<>>
      BY <1>0, <2>1, <3>1, <3>2, ContentProperties DEF Pending
    <3>4. sent \o Pending \o <<written'>> = sent \o <<written'>>
      BY <1>0, <3>3, ContentProperties
    <3> QED
      BY <2>1, <2>2, <3>1, <3>3, <3>4 DEF SentWithNew, OrderedStep
  <2> QED
    BY <1>6, <2>3, <2>4, <2>5, <2>1 DEF IInv, TypeOK, Writers
<1>7. CASE FlushWriter
  <2>1. writer \in {"stream", "draining"} /\ held' = <<>> /\ UNCHANGED written
    BY <1>7 DEF FlushWriter
  <2>2. CASE writer = "draining"
    <3>1. Drain(held) /\ held = <<>>
      BY <1>7, <2>2, Places DEF FlushWriter
    <3> QED
      BY <1>0, <2>1, <3>1, DrainIsOrdered
  <2>3. CASE writer = "stream" /\ state = "Buffering"
    <3>1. buffer' = buffer \o held /\ UNCHANGED <<sent, dropped>>
      BY <1>7, <2>3 DEF FlushWriter, WriteToStream
    <3>2. Pending' = Pending
      BY <1>0, <2>1, <3>1, ContentProperties DEF Pending
    <3> QED
      BY <2>1, <3>1, <3>2 DEF Unmoved, OrderedStep
  <2>4. CASE writer = "stream" /\ state # "Buffering"
    <3>1. sent' = sent \o held /\ UNCHANGED <<buffer, dropped>>
      BY <1>7, <2>4 DEF FlushWriter, WriteToStream, bufferVars
    <3>2. Pending = held /\ Pending' = <<>>
      BY <1>0, <2>1, <2>4, <3>1, Places, ContentProperties DEF Pending
    <3> QED
      BY <2>1, <3>1, <3>2 DEF AllSent, OrderedStep
  <2> QED
    BY <2>1, <2>2, <2>3, <2>4
<1>8. CASE Flush
  BY <1>8 DEF Flush, writerVars, serverVars, historyVars, Unmoved, Pending, OrderedStep
<1>9. CASE ClearContent
  <2>1. held = <<>> /\ UNCHANGED <<held, sent, written>>
    BY <1>9, Places DEF ClearContent, Call, writerVars, serverVars
  <2>2. CASE state = "Buffering"
    <3>1. Pending = buffer /\ Pending' = <<>>
      BY <1>0, <1>9, <2>1, <2>2, ContentProperties DEF ClearContent, Pending
    <3> QED
      BY <1>9, <2>1, <2>2, <3>1 DEF ClearContent, AllDropped, OrderedStep
  <2>3. CASE state # "Buffering"
    BY <1>9, <2>1, <2>3 DEF ClearContent, bufferVars, Unmoved, Pending, OrderedStep
  <2> QED
    BY <2>2, <2>3
<1>10. CASE SuppressContent
  BY <1>10 DEF SuppressContent, bufferVars, writerVars, serverVars, historyVars, Unmoved, Pending, OrderedStep
<1>11. CASE Complete
  BY <1>11, FlushInternalIsOrdered DEF Complete
<1>12. CASE Leave
  BY <1>12, FlushInternalIsOrdered DEF Leave
<1>13. CASE Terminating \/ UNCHANGED vars
  BY <1>13 DEF Terminating, vars, Unmoved, Pending, OrderedStep
<1> QED
  BY <1>1, <1>2, <1>3, <1>4, <1>5, <1>6, <1>7, <1>8, <1>9, <1>10, <1>11, <1>12, <1>13 DEF Next

\* A response that is used in one of the orderly ways keeps the promise of
\* OrderedResponse, however many writes there are.
THEOREM ResponseIsOrdered == OrderedUsages => (Spec => ImplementsOrderedResponse)
<1> SUFFICES ASSUME OrderedUsages PROVE Spec => ImplementsOrderedResponse
  OBVIOUS
<1>1. Init => Ordered!Init
  BY ContentProperties DEF Init, Ordered!Init
<1>2. IInv /\ [Next]_vars => [Ordered!Next]_(Ordered!vars)
  BY StepIsOrdered, OrderedStepIsAStep
<1>3. QED
  BY <1>1, <1>2, InitHolds, StepHolds, PTL DEF Spec, ImplementsOrderedResponse, Ordered!Spec

-----------------------------------------------------------------------------
(* The order of what is sent follows from the steps of OrderedResponse.     *)

Increasing(s) == \A i, j \in DOMAIN s : i < j => s[i] < s[j]

UpTo(s, n) == \A i \in DOMAIN s : s[i] <= n

\* What was sent and what waits, one after the other, is in the order in which
\* it was written, and was written before.
QueueInv == Increasing(sent \o Pending) /\ UpTo(sent \o Pending, written)

LEMMA AppendIncreasing ==
  ASSUME NEW s \in Content, NEW n \in Nat, Increasing(s), UpTo(s, n), n + 1 \in 1 .. MaxWrites
  PROVE  Increasing(Append(s, n + 1)) /\ UpTo(Append(s, n + 1), n + 1)
<1> DEFINE t == Append(s, n + 1)
<1>1. /\ t \in Seq(1 .. MaxWrites) /\ Len(t) = Len(s) + 1 /\ t[Len(s) + 1] = n + 1
      /\ \A i \in 1 .. Len(s) : t[i] = s[i]
  BY AppendProperties DEF Content
<1>2. Len(s) \in Nat /\ DOMAIN s = 1 .. Len(s) /\ DOMAIN t = 1 .. Len(s) + 1
  BY <1>1, LenProperties DEF Content
<1>3. \A i \in 1 .. Len(s) : s[i] \in 1 .. MaxWrites
  BY ElementOfSeq DEF Content
<1>4. \A i \in 1 .. Len(s) : t[i] < n + 1
  BY <1>1, <1>2, <1>3, ConstantsAssumption DEF UpTo
<1> HIDE DEF t
<1>5. Increasing(t)
  <2> SUFFICES ASSUME NEW i \in 1 .. Len(s) + 1, NEW j \in 1 .. Len(s) + 1, i < j
               PROVE  t[i] < t[j]
    BY <1>2 DEF Increasing
  <2>1. i \in 1 .. Len(s) /\ (j \in 1 .. Len(s) \/ j = Len(s) + 1)
    BY <1>2
  <2> QED
    BY <1>1, <1>2, <1>4, <2>1 DEF Increasing
<1>6. UpTo(t, n + 1)
  <2> SUFFICES ASSUME NEW i \in 1 .. Len(s) + 1
               PROVE  t[i] <= n + 1
    BY <1>2 DEF UpTo
  <2>1. i \in 1 .. Len(s) \/ i = Len(s) + 1
    BY <1>2
  <2>2. t[i] \in Int
    BY <1>1, <1>2, <1>3, <2>1
  <2> QED
    BY <1>1, <1>4, <2>1, <2>2
<1> QED
  BY <1>5, <1>6 DEF t

LEMMA PrefixIncreasing ==
  ASSUME NEW s \in Content, NEW t \in Content, NEW n \in Nat,
         Increasing(s \o t), UpTo(s \o t, n)
  PROVE  Increasing(s) /\ UpTo(s, n)
<1>1. /\ Len(s) \in Nat /\ Len(t) \in Nat /\ DOMAIN s = 1 .. Len(s)
      /\ s \o t \in Seq(1 .. MaxWrites) /\ Len(s \o t) = Len(s) + Len(t)
      /\ \A i \in 1 .. Len(s) : (s \o t)[i] = s[i]
  BY LenProperties, ConcatProperties DEF Content
<1>2. \A i \in DOMAIN s : i \in DOMAIN (s \o t)
  BY <1>1, LenProperties
<1> QED
  BY <1>1, <1>2 DEF Increasing, UpTo

LEMMA QueueHolds ==
  ASSUME IInv, QueueInv, OrderedUsages, [Next]_vars
  PROVE  QueueInv'
<1> DEFINE all == sent \o Pending
<1>0. /\ IInv' /\ OrderedStep
      /\ sent \in Content /\ Pending \in Content /\ all \in Content
      /\ sent' \in Content /\ written \in Nat
  <2>1. IInv' /\ OrderedStep
    BY StepHolds, StepIsOrdered
  <2>2. sent \in Content /\ buffer \in Content /\ held \in Content /\ written \in Nat
    BY ConstantsAssumption DEF IInv, TypeOK, Content
  <2>3. sent' \in Content
    BY <2>1 DEF IInv, TypeOK, Content
  <2> QED
    BY <2>1, <2>2, <2>3, ContentProperties DEF Pending
<1>1. Increasing(all) /\ UpTo(all, written) /\ Increasing(sent) /\ UpTo(sent, written)
  BY <1>0, PrefixIncreasing DEF QueueInv
<1>2. ASSUME NewWrite
      PROVE  /\ written' = written + 1 /\ written' \in 1 .. MaxWrites
             /\ <<written'>> \in Content
             /\ \A s \in Content : Append(s, written') = s \o <<written'>>
             /\ Increasing(Append(all, written')) /\ UpTo(Append(all, written'), written')
             /\ Increasing(Append(sent, written')) /\ UpTo(Append(sent, written'), written')
  <2>1. written' = written + 1 /\ written \in 0 .. MaxWrites
    BY <1>2 DEF NewWrite, IInv, TypeOK
  <2>2. /\ written' \in 1 .. MaxWrites /\ <<written'>> \in Content
        /\ \A s \in Content : Append(s, written') = s \o <<written'>>
    BY <1>2, <2>1, NewContent
  <2> QED
    BY <1>0, <1>1, <2>1, <2>2, AppendIncreasing
<1>3. CASE Unmoved
  BY <1>1, <1>3 DEF Unmoved, QueueInv, Increasing, UpTo
<1>4. CASE Added
  <2>1. sent' \o Pending' = Append(all, written')
    BY <1>0, <1>2, <1>4, Associative DEF Added
  <2> QED
    BY <1>2, <1>4, <2>1 DEF Added, QueueInv, Increasing, UpTo
<1>5. CASE SentWithNew
  <2>1. sent' \o Pending' = Append(all, written')
    BY <1>0, <1>2, <1>5, ContentProperties DEF SentWithNew
  <2> QED
    BY <1>2, <1>5, <2>1 DEF SentWithNew, QueueInv, Increasing, UpTo
<1>6. CASE DroppedWithNew
  <2>1. sent' \o Pending' = Append(sent, written')
    BY <1>0, <1>6, ContentProperties DEF DroppedWithNew
  <2> QED
    BY <1>2, <1>6, <2>1 DEF DroppedWithNew, QueueInv, Increasing, UpTo
<1>7. CASE AllSent
  <2>1. sent' \o Pending' = all
    BY <1>0, <1>7, ContentProperties DEF AllSent
  <2> QED
    BY <1>1, <1>7, <2>1 DEF AllSent, QueueInv, Increasing, UpTo
<1>8. CASE AllDropped
  <2>1. sent' \o Pending' = sent
    BY <1>0, <1>8, ContentProperties DEF AllDropped
  <2> QED
    BY <1>1, <1>8, <2>1 DEF AllDropped, QueueInv, Increasing, UpTo
<1> QED
  BY <1>0, <1>3, <1>4, <1>5, <1>6, <1>7, <1>8 DEF OrderedStep

\* A response that is used in one of the orderly ways is sent in the order in
\* which it was written.
THEOREM ResponseIsSentInOrder == OrderedUsages => (Spec => []SentInOrder)
<1> SUFFICES ASSUME OrderedUsages PROVE Spec => []SentInOrder
  OBVIOUS
<1>1. Init => QueueInv
  <2> SUFFICES ASSUME Init PROVE QueueInv
    OBVIOUS
  <2>1. sent \o Pending = <<>>
    BY ContentProperties DEF Init, Pending
  <2>2. DOMAIN (sent \o Pending) = {}
    BY <2>1, EmptySeq, LenProperties
  <2> QED
    BY <2>2 DEF QueueInv, Increasing, UpTo
<1>2. IInv /\ QueueInv /\ [Next]_vars => QueueInv'
  BY QueueHolds
<1>3. IInv /\ QueueInv => SentInOrder
  <2> SUFFICES ASSUME IInv, QueueInv PROVE SentInOrder
    OBVIOUS
  <2>1. sent \in Content /\ Pending \in Content /\ written \in Nat
    BY Places, ContentProperties, ConstantsAssumption DEF IInv, TypeOK, Pending
  <2>2. Increasing(sent)
    BY <2>1, PrefixIncreasing DEF QueueInv
  <2> QED
    BY <2>2 DEF Increasing, SentInOrder
<1>4. QED
  BY <1>1, <1>2, <1>3, InitHolds, StepHolds, PTL DEF Spec

-----------------------------------------------------------------------------
(* No write is lost, in whatever order it is sent.                          *)

\* Only a writer that is replaced, by DisableBuffering, while it holds content
\* loses that content.
WriterIsKept == ~({"Advance", "DisableBuffering"} \subseteq usage)

Everywhere == Elements(sent) \cup Elements(buffer) \cup Elements(held) \cup dropped

\* Each write is in one of the four places.
Accounted == WriterIsKept => Everywhere = 1 .. written

LEMMA ElementsOf ==
  /\ Elements(<<>>) = {}
  /\ \A s, t \in Content : Elements(s \o t) = Elements(s) \cup Elements(t)
<1>1. Elements(<<>>) = {}
  BY EmptySeq, LenProperties DEF Elements
<1>2. ASSUME NEW s \in Content, NEW t \in Content
      PROVE  Elements(s \o t) = Elements(s) \cup Elements(t)
  <2>1. /\ Len(s) \in Nat /\ Len(t) \in Nat
        /\ DOMAIN s = 1 .. Len(s) /\ DOMAIN t = 1 .. Len(t)
        /\ DOMAIN (s \o t) = 1 .. Len(s) + Len(t)
    BY LenProperties, ConcatProperties DEF Content
  <2>2. /\ \A i \in 1 .. Len(s) : (s \o t)[i] = s[i]
        /\ \A i \in 1 .. Len(t) : (s \o t)[Len(s) + i] = t[i]
    <3>1. \A i \in 1 .. Len(s) + Len(t) :
            (s \o t)[i] = IF i <= Len(s) THEN s[i] ELSE t[i - Len(s)]
      BY ConcatProperties DEF Content
    <3> QED
      BY <2>1, <3>1
  <2>3. \A i \in 1 .. Len(s) + Len(t) :
          i \in 1 .. Len(s) \/ (\E j \in 1 .. Len(t) : i = Len(s) + j)
    <3> SUFFICES ASSUME NEW i \in 1 .. Len(s) + Len(t), i \notin 1 .. Len(s)
                 PROVE  i - Len(s) \in 1 .. Len(t) /\ i = Len(s) + (i - Len(s))
      OBVIOUS
    <3> QED
      BY <2>1
  <2>4. ASSUME NEW x \in Elements(s \o t) PROVE x \in Elements(s) \cup Elements(t)
    <3>1. PICK i \in 1 .. Len(s) + Len(t) : x = (s \o t)[i]
      BY <2>1, <2>4 DEF Elements
    <3> QED
      BY <2>1, <2>2, <2>3, <3>1 DEF Elements
  <2>5. ASSUME NEW x \in Elements(s) \cup Elements(t) PROVE x \in Elements(s \o t)
    <3>1. CASE x \in Elements(s)
      <4>1. PICK i \in 1 .. Len(s) : x = s[i]
        BY <2>1, <3>1 DEF Elements
      <4>2. i \in DOMAIN (s \o t)
        BY <2>1
      <4> QED
        BY <2>2, <4>1, <4>2 DEF Elements
    <3>2. CASE x \in Elements(t)
      <4>1. PICK i \in 1 .. Len(t) : x = t[i]
        BY <2>1, <3>2 DEF Elements
      <4>2. Len(s) + i \in DOMAIN (s \o t)
        BY <2>1
      <4> QED
        BY <2>2, <4>1, <4>2 DEF Elements
    <3> QED
      BY <2>5, <3>1, <3>2
  <2> QED
    BY <2>4, <2>5
<1> QED
  BY <1>1, <1>2

\* What a step may do to the places together: nothing, or add the new write.
Kept == UNCHANGED written /\ Everywhere' = Everywhere
Grown == NewWrite /\ Everywhere' = Everywhere \cup {written'}

LEMMA AccountedStep ==
  ASSUME IInv, WriterIsKept, [Next]_vars
  PROVE  Kept \/ Grown
<1>0. /\ buffer \in Content /\ held \in Content /\ sent \in Content /\ <<>> \in Content
      /\ written \in 0 .. MaxWrites
      /\ ~opened => buffer = <<>>
      /\ state # "Buffering" /\ writer # "draining" => buffer = <<>>
      /\ writer \in {"none", "server"} => held = <<>>
      /\ held # <<>> => "Advance" \in usage
  BY ContentProperties DEF IInv, TypeOK, WriterInv, Content
<1>00. Elements(<<>>) = {} /\ \A s, t \in Content : s \o t \in Content /\ Elements(s \o t) = Elements(s) \cup Elements(t)
  BY ElementsOf, ContentProperties
<1>01. ASSUME NewWrite
       PROVE  /\ <<written'>> \in Content /\ Elements(<<written'>>) = {written'}
              /\ \A s \in Content : /\ Append(s, written') \in Content
                                    /\ Elements(Append(s, written')) = Elements(s) \cup {written'}
  <2>1. /\ <<written'>> \in Content
        /\ \A s \in Content : Append(s, written') \in Content /\ Append(s, written') = s \o <<written'>>
    BY <1>0, <1>01, NewContent
  <2>2. Elements(<<written'>>) = {written'}
    BY DEF Elements
  <2> QED
    BY <1>00, <2>1, <2>2
<1>1. CASE EnableBuffering
  BY <1>1 DEF EnableBuffering, bufferVars, writerVars, serverVars, historyVars, Kept, Everywhere
<1>2. CASE DisableBuffering
  <2>1. held = <<>> /\ held' = held
    BY <1>0, <1>2 DEF DisableBuffering, Call, WriterIsKept
  <2> QED
    BY <1>2, <2>1 DEF DisableBuffering, bufferVars, serverVars, historyVars, Kept, Everywhere
<1>3. CASE Start
  BY <1>3 DEF Start, bufferVars, writerVars, serverVars, historyVars, Kept, Everywhere
<1>4. CASE Write
  <2>1. NewWrite /\ WriteToStream(<<written'>>) /\ UNCHANGED <<held, dropped>>
    BY <1>4 DEF Write, writerVars
  <2>2. \/ buffer' = buffer \o <<written'>> /\ UNCHANGED sent
        \/ sent' = sent \o <<written'>> /\ UNCHANGED buffer
    BY <2>1 DEF WriteToStream, bufferVars
  <2>3. \/ Elements(buffer') = Elements(buffer) \cup {written'} /\ UNCHANGED sent
        \/ Elements(sent') = Elements(sent) \cup {written'} /\ UNCHANGED buffer
    <3>1. <<written'>> \in Content /\ Elements(<<written'>>) = {written'}
      BY <1>01, <2>1
    <3>2. /\ Elements(buffer \o <<written'>>) = Elements(buffer) \cup {written'}
          /\ Elements(sent \o <<written'>>) = Elements(sent) \cup {written'}
      BY <1>0, <1>00, <3>1
    <3> QED
      BY <2>2, <3>2
  <2> QED
    BY <2>1, <2>3 DEF Grown, Everywhere, Elements
<1>5. CASE Advance
  <2>1. NewWrite /\ UNCHANGED <<buffer, dropped>>
    BY <1>5 DEF Advance, bufferVars
  <2>2. \/ sent' = Append(sent, written') /\ UNCHANGED held
        \/ held' = Append(held, written') /\ UNCHANGED sent
    BY <1>5 DEF Advance
  <2>3. \/ Elements(sent') = Elements(sent) \cup {written'} /\ UNCHANGED held
        \/ Elements(held') = Elements(held) \cup {written'} /\ UNCHANGED sent
    BY <1>0, <1>01, <2>1, <2>2
  <2> QED
    BY <2>1, <2>3 DEF Grown, Everywhere, Elements
<1>6. ASSUME NEW more \in Content, Drain(more)
      PROVE  Elements(sent') \cup Elements(buffer') \cup dropped'
               = Elements(sent) \cup Elements(buffer) \cup dropped \cup Elements(more)
  <2>1. CASE suppress
    <3>1. sent' = sent \o more /\ dropped' = dropped \cup Elements(buffer) /\ buffer' = <<>>
      BY <1>6, <2>1 DEF Drain
    <3>2. Elements(sent \o more) = Elements(sent) \cup Elements(more)
      BY <1>0, <1>00
    <3>3. Elements(sent') = Elements(sent) \cup Elements(more) /\ Elements(buffer') = {}
      BY <1>00, <3>1, <3>2
    <3> QED
      BY <3>1, <3>3
  <2>2. CASE ~suppress
    <3>1. sent' = (sent \o buffer) \o more /\ UNCHANGED dropped /\ buffer' = <<>>
      BY <1>6, <2>2 DEF Drain
    <3>2. Elements(sent') = Elements(sent) \cup Elements(buffer) \cup Elements(more)
      <4>1. sent \o buffer \in Content /\ Elements(sent \o buffer) = Elements(sent) \cup Elements(buffer)
        BY <1>0, <1>00
      <4> QED
        BY <1>00, <3>1, <4>1
    <3> QED
      BY <1>00, <3>1, <3>2
  <2> QED
    BY <2>1, <2>2
<1>7. ASSUME NEW more \in Content, WriteToStream(more)
      PROVE  Elements(sent') \cup Elements(buffer') = Elements(sent) \cup Elements(buffer) \cup Elements(more)
  <2>1. \/ buffer' = buffer \o more /\ UNCHANGED sent
        \/ sent' = sent \o more /\ UNCHANGED buffer
    BY <1>7 DEF WriteToStream, bufferVars
  <2>2. /\ Elements(buffer \o more) = Elements(buffer) \cup Elements(more)
        /\ Elements(sent \o more) = Elements(sent) \cup Elements(more)
    BY <1>0, <1>00
  <2>3. \/ Elements(buffer') = Elements(buffer) \cup Elements(more) /\ Elements(sent') = Elements(sent)
        \/ Elements(sent') = Elements(sent) \cup Elements(more) /\ Elements(buffer') = Elements(buffer)
    BY <2>1, <2>2
  <2> QED
    BY <2>3
<1>8. CASE WriteAsync
  <2> DEFINE more == Append(held, written')
  <2>1. NewWrite /\ held' = <<>>
    BY <1>8 DEF WriteAsync
  <2>2. more \in Content /\ Elements(more) = Elements(held) \cup {written'}
    BY <1>0, <1>01, <2>1
  <2>3. \/ WriteToStream(more) /\ UNCHANGED dropped
        \/ Drain(more)
        \/ writer' = "server" /\ sent' = Append(sent, written') /\ UNCHANGED <<buffer, dropped>>
    BY <1>8 DEF WriteAsync, IInv, TypeOK, Writers, bufferVars
  <2>4. CASE WriteToStream(more) /\ UNCHANGED dropped
    <3>1. Elements(sent') \cup Elements(buffer') = Elements(sent) \cup Elements(buffer) \cup Elements(more)
      BY <1>7, <2>2, <2>4
    <3>2. Elements(held') = {}
      BY <1>00, <2>1
    <3> QED
      BY <2>1, <2>2, <2>4, <3>1, <3>2 DEF Grown, Everywhere
  <2>5. CASE Drain(more)
    <3>1. Elements(sent') \cup Elements(buffer') \cup dropped'
            = Elements(sent) \cup Elements(buffer) \cup dropped \cup Elements(more)
      BY <1>6, <2>2, <2>5
    <3>2. Elements(held') = {}
      BY <1>00, <2>1
    <3> QED
      BY <2>1, <2>2, <3>1, <3>2 DEF Grown, Everywhere
  <2>6. CASE writer' = "server" /\ sent' = Append(sent, written') /\ UNCHANGED <<buffer, dropped>>
    <3>1. held = <<>>
      BY <1>0, <1>8, <2>6 DEF WriteAsync
    <3>2. Elements(sent') = Elements(sent) \cup {written'} /\ UNCHANGED held
      BY <1>0, <1>01, <2>1, <2>6, <3>1
    <3> QED
      BY <2>1, <2>6, <3>2 DEF Grown, Everywhere, Elements
  <2> QED
    BY <2>3, <2>4, <2>5, <2>6
<1>9. CASE FlushWriter
  <2>1. held' = <<>> /\ UNCHANGED written /\ (Drain(held) \/ (WriteToStream(held) /\ UNCHANGED dropped))
    BY <1>9 DEF FlushWriter
  <2>2. Elements(sent') \cup Elements(buffer') \cup dropped'
          = Elements(sent) \cup Elements(buffer) \cup dropped \cup Elements(held)
    BY <1>0, <1>6, <1>7, <2>1
  <2>3. Elements(held') = {}
    BY <1>00, <2>1
  <2> QED
    BY <2>1, <2>2, <2>3 DEF Kept, Everywhere
<1>10. CASE Flush
  BY <1>10 DEF Flush, writerVars, serverVars, historyVars, Kept, Everywhere
<1>11. CASE ClearContent
  <2>1. UNCHANGED <<held, sent, written>>
    BY <1>11 DEF ClearContent, writerVars, serverVars
  <2>2. \/ buffer' = <<>> /\ dropped' = dropped \cup Elements(buffer)
        \/ UNCHANGED <<buffer, dropped>>
    BY <1>11 DEF ClearContent, bufferVars
  <2> QED
    BY <1>00, <2>1, <2>2 DEF Kept, Everywhere, Elements
<1>12. CASE SuppressContent
  BY <1>12 DEF SuppressContent, bufferVars, writerVars, serverVars, historyVars, Kept, Everywhere
<1>13. CASE Complete \/ Leave
  <2>1. FlushInternal /\ UNCHANGED written
    BY <1>13 DEF Complete, Leave
  <2>2. held' = <<>> /\ buffer' = <<>>
    BY <2>1, FlushInternalPreserves
  <2>3. CASE writer = "stream" /\ state = "Buffering"
    <3>1. CASE suppress
      BY <1>0, <1>00, <2>1, <2>2, <2>3, <3>1 DEF FlushInternal, Kept, Everywhere
    <3>2. CASE ~suppress
      <4>1. sent' = (sent \o buffer) \o held /\ UNCHANGED dropped
        BY <2>1, <2>3, <3>2 DEF FlushInternal
      <4>2. sent \o buffer \in Content /\ Elements(sent \o buffer) = Elements(sent) \cup Elements(buffer)
        BY <1>0, <1>00
      <4>3. Elements(sent') = Elements(sent) \cup Elements(buffer) \cup Elements(held)
        BY <1>0, <1>00, <4>1, <4>2
      <4> QED
        BY <1>00, <2>1, <2>2, <4>1, <4>3 DEF Kept, Everywhere
    <3> QED
      BY <3>1, <3>2
  <2>4. CASE writer = "stream" /\ state # "Buffering"
    <3>1. sent' = sent \o held /\ UNCHANGED <<buffer, dropped>>
      BY <2>1, <2>4 DEF FlushInternal, bufferVars
    <3> QED
      BY <1>0, <1>00, <2>1, <2>2, <3>1 DEF Kept, Everywhere
  <2>5. CASE writer = "draining" \/ (writer = "none" /\ state = "Buffering")
    <3>1. Drain(held)
      BY <1>0, <2>1, <2>5 DEF FlushInternal
    <3>2. Elements(sent') \cup Elements(buffer') \cup dropped'
            = Elements(sent) \cup Elements(buffer) \cup dropped \cup Elements(held)
      BY <1>0, <1>6, <3>1
    <3> QED
      BY <1>00, <2>1, <2>2, <3>2 DEF Kept, Everywhere
  <2>6. CASE writer = "server" \/ (writer = "none" /\ state # "Buffering")
    <3>1. UNCHANGED <<buffer, sent, dropped>>
      BY <2>1, <2>6 DEF FlushInternal, bufferVars
    <3>2. held = <<>>
      BY <1>0, <2>6
    <3> QED
      BY <2>1, <2>2, <3>1, <3>2 DEF Kept, Everywhere
  <2> QED
    BY <2>3, <2>4, <2>5, <2>6 DEF IInv, TypeOK, Writers
<1>14. CASE Terminating \/ UNCHANGED vars
  BY <1>14 DEF Terminating, vars, Kept, Everywhere
<1> QED
  BY <1>1, <1>2, <1>3, <1>4, <1>5, <1>8, <1>9, <1>10, <1>11, <1>12, <1>13, <1>14 DEF Next

\* When the response was completed, or the request has left the adapter, every
\* write was sent or dropped on purpose, even where stream and writer were mixed
\* and the order is lost; only a usage that replaces a writer that holds content
\* loses some.
NoWriteIsLost == WriterIsKept /\ (closed \/ over) => Elements(sent) \cup dropped = 1 .. written

THEOREM WritesAreNotLost == Spec => []NoWriteIsLost
<1>1. Init => Accounted
  BY ElementsOf DEF Init, Accounted, Everywhere
<1>2. IInv /\ Accounted /\ [Next]_vars => Accounted'
  <2> SUFFICES ASSUME IInv, Accounted, [Next]_vars, WriterIsKept'
               PROVE  Everywhere' = 1 .. written'
    BY DEF Accounted
  <2>1. UNCHANGED usage
    BY DEF Next, vars, requestVars, EnableBuffering, DisableBuffering, Start, Write, Advance, WriteAsync,
           FlushWriter, Flush, ClearContent, SuppressContent, Complete, Leave, Terminating
  <2>2. WriterIsKept /\ Everywhere = 1 .. written /\ written \in Nat
    BY <2>1, ConstantsAssumption DEF WriterIsKept, Accounted, IInv, TypeOK
  <2>3. Kept \/ Grown
    BY <2>2, AccountedStep
  <2>4. CASE Kept
    BY <2>2, <2>4 DEF Kept
  <2>5. CASE Grown
    <3>1. written' = written + 1 /\ Everywhere' = (1 .. written) \cup {written + 1}
      BY <2>2, <2>5 DEF Grown, NewWrite
    <3> QED
      BY <2>2, <3>1
  <2> QED
    BY <2>3, <2>4, <2>5
<1>3. IInv /\ Accounted => NoWriteIsLost
  <2> SUFFICES ASSUME IInv, Accounted, WriterIsKept, closed \/ over
               PROVE  Elements(sent) \cup dropped = 1 .. written
    BY DEF NoWriteIsLost
  <2>1. buffer \in Content /\ held \in Content /\ buffer \o held = <<>>
    BY DEF IInv, TypeOK, ClosedInv, EverythingSent, Content
  <2>2. Elements(buffer) = {} /\ Elements(held) = {}
    BY <2>1, ContentProperties, ElementsOf
  <2> QED
    BY <2>2 DEF Accounted, Everywhere
<1> QED
  BY <1>1, <1>2, <1>3, InitHolds, StepHolds, PTL DEF Spec
=============================================================================
