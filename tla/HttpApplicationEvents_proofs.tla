--------------------- MODULE HttpApplicationEvents_proofs ---------------------
(***************************************************************************)
(* What the event pipeline guarantees for any number of calls of           *)
(* application code, from any event and nested in any way.                 *)
(***************************************************************************)
EXTENDS HttpApplicationEvents, SequenceTheorems, TLAPS

-----------------------------------------------------------------------------
(* The pipeline.                                                            *)

Positions == 1 .. 23

LEMMA PipelinePositions ==
  /\ DOMAIN Pipeline = Positions
  /\ Finally = 24 /\ Done = 25
  /\ \A i, j \in Positions : Pipeline[i] = Pipeline[j] => i = j
<1>1. Len(Pipeline) = 23 /\ DOMAIN Pipeline = Positions
  BY DEF Pipeline, Positions
<1>2. Finally = 24 /\ Done = 25
  BY <1>1 DEF Finally, Done
<1>3. \A i, j \in Positions : Pipeline[i] = Pipeline[j] => i = j
  BY DEF Pipeline, Positions
<1> QED
  BY <1>1, <1>2, <1>3

LEMMA Steps ==
  \A i \in Positions : StepOf(Pipeline[i]) = i
  BY PipelinePositions DEF StepOf

LEMMA NamedSteps ==
  /\ StepOf("Load") = 10 /\ StepOf("PreRequestHandlerExecute") = 14
  /\ StepOf("PostRequestHandlerExecute") = 17 /\ StepOf("ReleaseRequestState") = 18
  /\ StepOf("Commit") = 21
<1>1. /\ Pipeline[10] = "Load" /\ Pipeline[14] = "PreRequestHandlerExecute"
      /\ Pipeline[17] = "PostRequestHandlerExecute" /\ Pipeline[18] = "ReleaseRequestState"
      /\ Pipeline[21] = "Commit"
  BY DEF Pipeline
<1>2. 10 \in Positions /\ 14 \in Positions /\ 17 \in Positions /\ 18 \in Positions /\ 21 \in Positions
  BY DEF Positions
<1> QED
  BY <1>1, <1>2, Steps

\* Where the middleware looks whether the request has ended.
LEMMA Checks ==
  ASSUME NEW i \in Positions
  PROVE  /\ Pipeline[i] = "Load" <=> i = 10
         /\ Pipeline[i] = "Endpoint" <=> i = 16
         /\ Pipeline[i] = "Commit" <=> i = 21
         /\ Pipeline[i] \in PipelineEvents => i \notin {10, 16, 21}
         /\ i \notin {10, 16, 21} => Pipeline[i] \in PipelineEvents
         /\ Pipeline[i] \in CheckedBefore <=> i \in {17, 18, 22, 23}
         /\ Pipeline[i] \in CheckedAfter <=> i \in (1 .. 9) \cup (11 .. 15) \cup {18, 19}
         /\ MayBeSkipped(i) => i \in {12, 19}
<1>1. /\ Pipeline[10] = "Load" /\ Pipeline[16] = "Endpoint" /\ Pipeline[21] = "Commit"
      /\ Pipeline[12] = "SessionStart" /\ Pipeline[19] = "SessionEnd"
      /\ Pipeline[17] = "PostRequestHandlerExecute" /\ Pipeline[18] = "ReleaseRequestState"
      /\ Pipeline[22] = "UpdateRequestCache" /\ Pipeline[23] = "PostUpdateRequestCache"
      /\ Pipeline[20] = "PostReleaseRequestState"
  BY DEF Pipeline
<1>2. /\ 10 \in Positions /\ 16 \in Positions /\ 21 \in Positions /\ 12 \in Positions
      /\ 19 \in Positions /\ 17 \in Positions /\ 18 \in Positions /\ 22 \in Positions
      /\ 23 \in Positions /\ 20 \in Positions
  BY DEF Positions
<1>3. \A j \in Positions : Pipeline[i] = Pipeline[j] <=> i = j
  BY PipelinePositions
<1>4. Pipeline[i] \in PreEvents <=> i \in 1 .. 9 \cup {14, 15}
  BY <1>3 DEF PreEvents, Positions
<1>5. Pipeline[i] \in SessionEvents <=> i \in (11 .. 13) \cup (18 .. 20)
  BY <1>3 DEF SessionEvents, Positions
<1>6. Pipeline[i] \in PostEvents <=> i \in {17, 22, 23}
  BY <1>1, <1>2, <1>3 DEF PostEvents
<1>7. Pipeline[i] \in CheckedBefore <=> i \in {17, 18, 22, 23}
  BY <1>1, <1>2, <1>3, <1>6 DEF CheckedBefore
<1>8. Pipeline[i] \in CheckedAfter <=> i \in (1 .. 9) \cup (11 .. 15) \cup {18, 19}
  BY <1>1, <1>2, <1>3, <1>4, <1>5 DEF CheckedAfter, Positions
<1>9. Pipeline[i] \in PipelineEvents <=> i \notin {10, 16, 21}
  BY <1>4, <1>5, <1>6 DEF PipelineEvents, Positions
<1>10. MayBeSkipped(i) => i \in {12, 19}
  BY <1>1, <1>2, <1>3 DEF MayBeSkipped
<1> QED
  BY <1>1, <1>2, <1>3, <1>7, <1>8, <1>9, <1>10

LEMMA Returns ==
  ASSUME NEW i \in Positions
  PROVE  /\ i < 10 => ReturnFrom(i) = 24
         /\ i \in 14 .. 17 => ReturnFrom(i) = 18
         /\ i > 21 => ReturnFrom(i) = 24
         /\ i \in (10 .. 13) \cup (18 .. 21) => ReturnFrom(i) = 21
  BY NamedSteps, PipelinePositions DEF ReturnFrom, Positions

\* The events of the pipeline are none of the others.
LEMMA EventKinds ==
  /\ \A e \in PipelineEvents : \E i \in Positions \ {10, 16, 21} : e = Pipeline[i]
  /\ \A i \in Positions : Pipeline[i] \notin EndEvents \cup PreSendEvents \cup {"Error"}
  /\ PipelineEvents \subseteq SingleEvents /\ EndEvents \subseteq SingleEvents
  /\ "PreSendRequestHeaders" \in SingleEvents /\ SingleEvents \subseteq Counted
  /\ SingleEvents = PipelineEvents \cup EndEvents \cup {"PreSendRequestHeaders"}
  /\ "Error" \in Counted /\ "Error" \notin SingleEvents
<1>1. \A i \in Positions : Pipeline[i] \notin EndEvents \cup PreSendEvents \cup {"Error"}
  BY DEF Pipeline, Positions, EndEvents, PreSendEvents
<1>2. ASSUME NEW e \in PipelineEvents
      PROVE  \E i \in Positions \ {10, 16, 21} : e = Pipeline[i]
  <2>1. \E i \in Positions : e = Pipeline[i]
    <3>1. CASE e \in PreEvents
      BY <3>1 DEF PreEvents, Positions
    <3>2. CASE e \in SessionEvents
      BY <3>2 DEF SessionEvents, Positions
    <3>3. CASE e \in PostEvents
      <4>1. /\ Pipeline[17] = "PostRequestHandlerExecute"
            /\ Pipeline[22] = "UpdateRequestCache" /\ Pipeline[23] = "PostUpdateRequestCache"
        BY DEF Pipeline
      <4>2. 17 \in Positions /\ 22 \in Positions /\ 23 \in Positions
        BY DEF Positions
      <4> QED
        BY <3>3, <4>1, <4>2 DEF PostEvents
    <3> QED
      BY <3>1, <3>2, <3>3 DEF PipelineEvents
  <2>2. PICK i \in Positions : e = Pipeline[i]
    BY <2>1
  <2> QED
    BY <2>2, Checks
<1>3. \A e \in PipelineEvents : e # "PreSendRequestContent"
  BY <1>1, <1>2 DEF PreSendEvents
<1>4. SingleEvents = PipelineEvents \cup EndEvents \cup {"PreSendRequestHeaders"}
  BY <1>3 DEF SingleEvents, Events, EndEvents, PreSendEvents
<1>5. "Error" \notin SingleEvents
  <2>1. "Error" \notin PipelineEvents
    BY <1>1, <1>2
  <2> QED
    BY <1>4, <2>1 DEF EndEvents
<1> QED
  BY <1>1, <1>2, <1>4, <1>5 DEF Counted

-----------------------------------------------------------------------------
(* The invariant.                                                           *)

Frames == [proc : Procs, event : Events \cup {"none"}, pc : Nat]

EndEvent(k) == <<"LogRequest", "PostLogRequest", "EndRequest">>[k]

Types ==
  /\ stack \in Seq(Frames)
  /\ step \in 1 .. 25 /\ raising \in BOOLEAN /\ isEnded \in BOOLEAN
  /\ count \in [Counted -> Nat]

\* Where the middleware can be: a request that has ended is between the places
\* where it looks whether it has.
PositionInv ==
  /\ stack # <<>> => raising
  /\ raising => step \notin {10, 21, 25}
  /\ isEnded /\ ~raising => step \in {17, 18, 21, 22, 23, 24, 25}

\* A loaded session is committed or discarded on the way out.
SessionInv ==
  /\ session = "loaded" => step \in 11 .. 21
  /\ session = "discarded" => step \in {24, 25} /\ failure # NoException

\* An event of the pipeline is raised when the middleware comes by, and it does
\* not turn back.
RaisedInv ==
  \A i \in Positions \ {10, 16, 21} :
    /\ count[Pipeline[i]] <= 1
    /\ step < i \/ (step = i /\ ~raising) => count[Pipeline[i]] = 0

\* At most one EndAsync raises the last events, and it goes through them once.
EndOK(s, ended, c) ==
  /\ \A i \in DOMAIN s : s[i].proc = "End" =>
        ended /\ \A k \in 1 .. 3 : s[i].pc <= k => c[EndEvent(k)] = 0
  /\ \A i, j \in DOMAIN s : s[i].proc = "End" /\ s[j].proc = "End" => i = j
  /\ \A k \in 1 .. 3 : c[EndEvent(k)] <= 1 /\ (~ended => c[EndEvent(k)] = 0)

EndInv == EndOK(stack, isEnded, count)

HeadersInv ==
  /\ count["PreSendRequestHeaders"] <= 1
  /\ presend = "NotStarted" => count["PreSendRequestHeaders"] = 0

IInv == Types /\ PositionInv /\ SessionInv /\ RaisedInv /\ EndInv /\ HeadersInv

LEMMA EndEventNames ==
  /\ EndEvent(1) = "LogRequest" /\ EndEvent(2) = "PostLogRequest" /\ EndEvent(3) = "EndRequest"
  /\ \A k \in 1 .. 3 : EndEvent(k) \in EndEvents
  /\ \A e \in EndEvents : \E k \in 1 .. 3 : e = EndEvent(k)
  /\ \A j, k \in 1 .. 3 : EndEvent(j) = EndEvent(k) => j = k
  BY DEF EndEvent, EndEvents

-----------------------------------------------------------------------------
(* Stacks.                                                                  *)

LEMMA PushFrame ==
  ASSUME NEW s \in Seq(Frames), NEW f \in Frames
  PROVE  /\ <<f>> \o s \in Seq(Frames) /\ Len(<<f>> \o s) = Len(s) + 1
         /\ (<<f>> \o s)[1] = f
         /\ \A i \in 1 .. Len(s) : (<<f>> \o s)[i + 1] = s[i]
         /\ <<f>> \o s # <<>>
<1>1. <<f>> \in Seq(Frames) /\ Len(<<f>>) = 1 /\ <<f>>[1] = f /\ Len(s) \in Nat
  BY LenProperties
<1>2. /\ <<f>> \o s \in Seq(Frames) /\ Len(<<f>> \o s) = 1 + Len(s)
      /\ \A i \in 1 .. 1 + Len(s) : (<<f>> \o s)[i] = IF i <= 1 THEN <<f>>[i] ELSE s[i - 1]
  BY <1>1, ConcatProperties
<1> QED
  BY <1>1, <1>2, EmptySeq

LEMMA PopFrame ==
  ASSUME NEW s \in Seq(Frames), s # <<>>
  PROVE  /\ Tail(s) \in Seq(Frames) /\ Len(Tail(s)) = Len(s) - 1 /\ Len(s) \in Nat \ {0}
         /\ \A i \in 1 .. Len(s) - 1 : Tail(s)[i] = s[i + 1]
         /\ Head(s) \in Frames /\ Head(s) = s[1]
  BY HeadTailProperties, EmptySeq, LenProperties

LEMMA TwoFrames ==
  ASSUME NEW s \in Seq(Frames), NEW f \in Frames, NEW g \in Frames
  PROVE  <<f, g>> \o s = <<f>> \o (<<g>> \o s)
<1>1. /\ <<f>> \in Seq(Frames) /\ Len(<<f>>) = 1 /\ <<f>>[1] = f
      /\ <<g>> \in Seq(Frames) /\ Len(<<g>>) = 1 /\ <<g>>[1] = g
  BY LenProperties
<1>2. <<f, g>> \in Seq(Frames) /\ Len(<<f, g>>) = 2 /\ <<f, g>>[1] = f /\ <<f, g>>[2] = g
  BY LenProperties
<1>3. /\ <<f>> \o <<g>> \in Seq(Frames) /\ Len(<<f>> \o <<g>>) = 2
      /\ (<<f>> \o <<g>>)[1] = f /\ (<<f>> \o <<g>>)[2] = g
  BY <1>1, ConcatProperties
<1>4. \A i \in 1 .. 2 : (<<f>> \o <<g>>)[i] = <<f, g>>[i]
  BY <1>2, <1>3
<1>5. <<f>> \o <<g>> = <<f, g>>
  BY <1>2, <1>3, <1>4, SeqEqual
<1>6. (<<f>> \o <<g>>) \o s = <<f>> \o (<<g>> \o s)
  BY <1>1, ConcatAssociative
<1> QED
  BY <1>5, <1>6, Zenon

LEMMA PopKeeps ==
  ASSUME NEW s \in Seq(Frames), s # <<>>, NEW ended, NEW c, EndOK(s, ended, c)
  PROVE  EndOK(Tail(s), ended, c)
<1>1. /\ DOMAIN s = 1 .. Len(s) /\ DOMAIN Tail(s) = 1 .. Len(s) - 1 /\ Len(s) \in Nat
      /\ \A i \in DOMAIN Tail(s) : i + 1 \in DOMAIN s /\ Tail(s)[i] = s[i + 1]
  BY PopFrame, LenProperties
<1>2. \A i, j \in DOMAIN Tail(s) : i + 1 = j + 1 => i = j
  BY <1>1
<1> QED
  BY <1>1, <1>2 DEF EndOK

LEMMA PushKeeps ==
  ASSUME NEW s \in Seq(Frames), NEW f \in Frames, f.proc # "End", NEW ended, NEW c,
         EndOK(s, ended, c)
  PROVE  EndOK(<<f>> \o s, ended, c)
<1> DEFINE t == <<f>> \o s
<1>1. /\ DOMAIN s = 1 .. Len(s) /\ DOMAIN t = 1 .. Len(s) + 1 /\ Len(s) \in Nat /\ t[1] = f
      /\ \A i \in DOMAIN t : i = 1 \/ (i - 1 \in DOMAIN s /\ t[i] = s[i - 1])
  <2>1. /\ t \in Seq(Frames) /\ Len(t) = Len(s) + 1 /\ t[1] = f
        /\ \A i \in 1 .. Len(s) : t[i + 1] = s[i]
    BY PushFrame
  <2>2. DOMAIN s = 1 .. Len(s) /\ DOMAIN t = 1 .. Len(s) + 1 /\ Len(s) \in Nat
    BY <2>1, LenProperties
  <2> HIDE DEF t
  <2>3. ASSUME NEW i \in DOMAIN t, i # 1 PROVE i - 1 \in DOMAIN s /\ t[i] = s[i - 1]
    <3>1. i - 1 \in 1 .. Len(s) /\ (i - 1) + 1 = i
      BY <2>2, <2>3
    <3> QED
      BY <2>1, <2>2, <3>1
  <2> QED
    BY <2>1, <2>2, <2>3
<1> HIDE DEF t
<1>2. \A i, j \in DOMAIN t : i - 1 = j - 1 => i = j
  BY <1>1
<1>3. \A i \in DOMAIN t : t[i].proc = "End" => i - 1 \in DOMAIN s /\ t[i] = s[i - 1]
  BY <1>1
<1>4. EndOK(t, ended, c)
  BY <1>2, <1>3 DEF EndOK
<1> QED
  BY <1>4 DEF t

\* The first call of EndAsync.
LEMMA PushEndKeeps ==
  ASSUME NEW s \in Seq(Frames), NEW f \in Frames, NEW c, EndOK(s, FALSE, c)
  PROVE  EndOK(<<f>> \o s, TRUE, c)
<1> DEFINE t == <<f>> \o s
<1>1. /\ DOMAIN s = 1 .. Len(s) /\ DOMAIN t = 1 .. Len(s) + 1 /\ Len(s) \in Nat
      /\ \A i \in 1 .. Len(s) : t[i + 1] = s[i]
  BY PushFrame, LenProperties
<1>2. \A i \in DOMAIN s : s[i].proc # "End"
  BY DEF EndOK
<1> HIDE DEF t
<1>3. \A i \in DOMAIN t : t[i].proc = "End" => i = 1
  <2> SUFFICES ASSUME NEW i \in DOMAIN t, i # 1
               PROVE  t[i].proc # "End"
    OBVIOUS
  <2>1. i - 1 \in 1 .. Len(s) /\ (i - 1) + 1 = i
    BY <1>1
  <2> QED
    BY <1>1, <1>2, <2>1
<1>4. EndOK(t, TRUE, c)
  BY <1>3 DEF EndOK
<1> QED
  BY <1>4 DEF t

\* EndAsync goes on to the place after one of its events.
LEMMA AdvanceKeeps ==
  ASSUME NEW s \in Seq(Frames), s # <<>>, NEW g \in Frames, NEW ended, NEW c, NEW d,
         EndOK(s, ended, c), g.proc = Head(s).proc,
         \A k \in 1 .. 3 :
            /\ d[EndEvent(k)] <= 1 /\ (~ended => d[EndEvent(k)] = 0)
            /\ g.proc = "End" /\ g.pc <= k => d[EndEvent(k)] = 0,
         g.proc # "End" => \A k \in 1 .. 3 : d[EndEvent(k)] = c[EndEvent(k)]
  PROVE  EndOK(<<g>> \o Tail(s), ended, d)
<1> DEFINE t == <<g>> \o Tail(s)
<1>1. /\ DOMAIN s = 1 .. Len(s) /\ DOMAIN t = 1 .. Len(s) /\ Len(s) \in Nat \ {0}
      /\ t[1] = g /\ s[1] = Head(s)
      /\ \A i \in DOMAIN t : i # 1 => t[i] = s[i]
  <2>1. /\ Tail(s) \in Seq(Frames) /\ Len(Tail(s)) = Len(s) - 1 /\ Len(s) \in Nat \ {0}
        /\ \A i \in 1 .. Len(s) - 1 : Tail(s)[i] = s[i + 1]
        /\ Head(s) = s[1]
    BY PopFrame
  <2>2. /\ t \in Seq(Frames) /\ Len(t) = Len(s) /\ t[1] = g
        /\ \A i \in 1 .. Len(s) - 1 : t[i + 1] = Tail(s)[i]
    BY <2>1, PushFrame
  <2>3. DOMAIN s = 1 .. Len(s) /\ DOMAIN t = 1 .. Len(s)
    BY <2>1, <2>2, LenProperties
  <2> HIDE DEF t
  <2>4. ASSUME NEW i \in DOMAIN t, i # 1 PROVE t[i] = s[i]
    <3>1. i - 1 \in 1 .. Len(s) - 1 /\ (i - 1) + 1 = i
      BY <2>1, <2>3, <2>4
    <3> QED
      BY <2>1, <2>2, <3>1
  <2> QED
    BY <2>1, <2>2, <2>3, <2>4
<1> HIDE DEF t
<1>2. \A i \in DOMAIN t : i \in DOMAIN s /\ (t[i].proc = "End" => s[i].proc = "End")
  BY <1>1
<1>3. \A i \in DOMAIN t : t[i].proc = "End" => ended
  BY <1>1, <1>2 DEF EndOK
<1>4. ASSUME NEW i \in DOMAIN t, t[i].proc = "End", NEW k \in 1 .. 3, t[i].pc <= k
      PROVE  d[EndEvent(k)] = 0
  <2>1. CASE i = 1
    BY <1>1, <1>4, <2>1
  <2>2. CASE i # 1
    <3>1. g.proc # "End"
      BY <1>1, <1>2, <1>4, <2>2 DEF EndOK
    <3> QED
      BY <1>1, <1>2, <1>4, <2>2, <3>1 DEF EndOK
  <2> QED
    BY <2>1, <2>2
<1>5. EndOK(t, ended, d)
  BY <1>1, <1>2, <1>3, <1>4 DEF EndOK
<1> QED
  BY <1>5 DEF t

-----------------------------------------------------------------------------
(* The steps inside a call: the middleware waits, and only the last events  *)
(* and those before sending are raised.                                     *)

Nested ==
  /\ stack # <<>> /\ UNCHANGED <<step, raising, session, failure>>
  /\ stack' \in Seq(Frames) /\ isEnded' \in BOOLEAN /\ count' \in [Counted -> Nat]
  /\ \A e \in PipelineEvents : count'[e] = count[e]
  /\ EndInv' /\ HeadersInv'

\* The parts of Nested that a step that raises none of these events leaves.
Silent ==
  /\ stack # <<>> /\ UNCHANGED <<step, raising, session, failure>>
  /\ count' \in [Counted -> Nat]
  /\ \A e \in SingleEvents : count'[e] = count[e]
  /\ presend' = "NotStarted" => presend = "NotStarted"

LEMMA FrameTypes ==
  ASSUME IInv, stack # <<>>
  PROVE  /\ Top \in Frames /\ Tail(stack) \in Seq(Frames)
         /\ EndOK(Tail(stack), isEnded, count)
         /\ \A n \in Nat : [Top EXCEPT !.pc = n] \in Frames
         /\ [Top EXCEPT !.pc = @ + 1] \in Frames
         /\ [Top EXCEPT !.pc = @ + 1].proc = Top.proc
         /\ [Top EXCEPT !.pc = @ + 1].pc = Top.pc + 1
         /\ \A n \in Nat : [Top EXCEPT !.pc = n].proc = Top.proc
<1>1. Top \in Frames /\ Tail(stack) \in Seq(Frames)
  BY PopFrame DEF IInv, Types, Top
<1>2. EndOK(Tail(stack), isEnded, count)
  BY PopKeeps DEF IInv, Types, EndInv
<1>3. ASSUME NEW n \in Nat
      PROVE  /\ [Top EXCEPT !.pc = n] \in Frames
             /\ [Top EXCEPT !.pc = n].proc = Top.proc
             /\ [Top EXCEPT !.pc = n].pc = n
  BY <1>1 DEF Frames
<1>4. Top.pc + 1 \in Nat
  BY <1>1 DEF Frames
<1> QED
  BY <1>1, <1>2, <1>3, <1>4

LEMMA NewFrames ==
  ASSUME NEW proc \in Procs, NEW event \in Events \cup {"none"}, NEW pc \in Nat
  PROVE  /\ Frame(proc, event, pc) \in Frames
         /\ Frame(proc, event, pc).proc = proc /\ Frame(proc, event, pc).pc = pc
  BY DEF Frame, Frames

LEMMA NewCalls ==
  ASSUME NEW proc \in {"End", "Complete", "Flush", "Start"}
  PROVE  Frame(proc, "none", 1) \in Frames /\ Frame(proc, "none", 1).proc = proc
<1>1. proc \in Procs /\ "none" \in Events \cup {"none"} /\ 1 \in Nat
  BY DEF Procs
<1> QED
  BY <1>1, NewFrames

\* Counts that agree on the single events are as good as each other.
LEMMA SilentCounts ==
  ASSUME IInv, Silent, stack' \in Seq(Frames), isEnded' \in BOOLEAN,
         EndOK(stack', isEnded', count)
  PROVE  Nested
<1>1. \A k \in 1 .. 3 : count'[EndEvent(k)] = count[EndEvent(k)]
  BY EndEventNames, EventKinds DEF Silent
<1>2. EndInv'
  BY <1>1 DEF EndInv, EndOK
<1>3. HeadersInv'
  BY EventKinds DEF IInv, HeadersInv, Silent
<1> QED
  BY <1>2, <1>3, EventKinds DEF Nested, Silent

\* A call returns, or is left by an exception.
LEMMA PopIsNested ==
  ASSUME IInv, Silent, Pop, isEnded' = isEnded
  PROVE  Nested
  BY FrameTypes, SilentCounts DEF Pop, Silent, IInv, Types

\* A call begins that is not EndAsync, with the caller advanced by the way.
LEMMA CallKeeps ==
  ASSUME IInv, stack # <<>>,
         NEW f \in Frames, f.proc # "End", NEW g \in Frames, g.proc = Top.proc,
         g.proc = "End" => \A k \in 1 .. 3 : g.pc <= k => count[EndEvent(k)] = 0,
         stack' = <<f, g>> \o Tail(stack)
  PROVE  stack' \in Seq(Frames) /\ EndOK(stack', isEnded, count)
<1>1. stack \in Seq(Frames) /\ Top = Head(stack) /\ EndOK(stack, isEnded, count)
  BY DEF IInv, Types, Top, EndInv
<1>2. EndOK(<<g>> \o Tail(stack), isEnded, count)
  <2>1. \A k \in 1 .. 3 :
           /\ count[EndEvent(k)] <= 1 /\ (~isEnded => count[EndEvent(k)] = 0)
           /\ g.proc = "End" /\ g.pc <= k => count[EndEvent(k)] = 0
    BY <1>1 DEF EndOK
  <2>2. g.proc = Head(stack).proc
    BY <1>1
  <2> QED
    BY <1>1, <2>1, <2>2, AdvanceKeeps
<1>3. <<g>> \o Tail(stack) \in Seq(Frames)
  BY <1>1, FrameTypes, PushFrame
<1>4. stack' = <<f>> \o (<<g>> \o Tail(stack))
  BY <1>1, FrameTypes, TwoFrames
<1> DEFINE t == <<g>> \o Tail(stack)
<1>5. t \in Seq(Frames) /\ EndOK(t, isEnded, count) /\ stack' = <<f>> \o t
  BY <1>2, <1>3, <1>4
<1> HIDE DEF t
<1>6. <<f>> \o t \in Seq(Frames) /\ EndOK(<<f>> \o t, isEnded, count)
  BY <1>5, PushFrame, PushKeeps
<1> QED
  BY <1>5, <1>6

\* The call of an event of the response.
LEMMA HeadersCallKeeps ==
  ASSUME IInv, Running("Flush") \/ Running("Start"),
         NEW event \in PreSendEvents, NEW n \in Nat,
         stack' = <<Frame("Raise", event, 0), [Top EXCEPT !.pc = n]>> \o Tail(stack)
  PROVE  stack' \in Seq(Frames) /\ EndOK(stack', isEnded, count)
<1>1. stack # <<>> /\ Top.proc # "End"
  BY DEF Running
<1>2. /\ [Top EXCEPT !.pc = n] \in Frames /\ [Top EXCEPT !.pc = n].proc = Top.proc
  BY <1>1, FrameTypes
<1>3. Frame("Raise", event, 0) \in Frames /\ Frame("Raise", event, 0).proc # "End"
  BY NewFrames DEF Procs, Events
<1> QED
  BY <1>1, <1>2, <1>3, CallKeeps

LEMMA UserStepIsNested ==
  ASSUME IInv, UserStep
  PROVE  Nested
<1> USE DEF IInv, Types, Silent, UserCode, Running
<1>0. EndOK(stack, isEnded, count)
  BY DEF EndInv
<1>1. CASE Throw \/ AddError \/ ClearError
  <2>1. Silent /\ UNCHANGED <<stack, isEnded>>
    BY <1>1 DEF Throw, AddError, ClearError, UserCall, requestVars
  <2> QED
    BY <1>0, <2>1, SilentCounts
<1>2. CASE EndCall
  <2>1. Silent
    BY <1>2 DEF EndCall, UserCall, requestVars
  <2>2. CASE UNCHANGED stack
    <3>1. isEnded' \in BOOLEAN /\ (isEnded' = isEnded \/ isEnded' = TRUE)
      BY <1>2 DEF EndCall
    <3>2. EndOK(stack, isEnded', count)
      BY <1>0, <2>2, <1>2, <3>1 DEF EndCall, EndOK
    <3> QED
      BY <2>1, <2>2, <3>1, <3>2, SilentCounts
  <2>3. CASE ~UNCHANGED stack
    <3>1. isEnded = FALSE /\ isEnded' = TRUE /\ stack' = <<Frame("End", "none", 1)>> \o stack
      BY <1>2, <2>3 DEF EndCall, Push
    <3>2. Frame("End", "none", 1) \in Frames
      BY NewCalls
    <3>3. stack' \in Seq(Frames) /\ EndOK(stack', TRUE, count)
      BY <1>0, <3>1, <3>2, PushFrame, PushEndKeeps
    <3> QED
      BY <2>1, <3>1, <3>3, SilentCounts
  <2> QED
    BY <2>2, <2>3
<1>3. CASE Flush \/ Start
  <2>1. Silent /\ UNCHANGED isEnded
    BY <1>3 DEF Flush, Start, UserCall, requestVars
  <2>2. PICK f \in {Frame("Flush", "none", 1), Frame("Start", "none", 1)} : stack' = <<f>> \o stack
    BY <1>3 DEF Flush, Start, Push
  <2>3. f \in Frames /\ f.proc # "End"
    <3>1. Frame("Flush", "none", 1) \in Frames /\ Frame("Flush", "none", 1).proc = "Flush"
      BY NewCalls
    <3>2. Frame("Start", "none", 1) \in Frames /\ Frame("Start", "none", 1).proc = "Start"
      BY NewCalls
    <3> QED
      BY <2>2, <3>1, <3>2
  <2>4. stack' \in Seq(Frames) /\ EndOK(stack', isEnded, count)
    BY <1>0, <2>2, <2>3, PushFrame, PushKeeps
  <2> QED
    BY <2>1, <2>4, SilentCounts
<1>4. CASE HandlersReturn \/ ErrorHandlersReturn \/ EndpointReturns
  <2>1. Silent /\ Pop /\ UNCHANGED isEnded
    BY <1>4
    DEF HandlersReturn, ErrorHandlersReturn, EndpointReturns, featureVars, responseVars, requestVars
  <2> QED
    BY <2>1, PopIsNested
<1> QED
  BY <1>1, <1>2, <1>3, <1>4 DEF UserStep

\* EndAsync raises the next of its events, which it has not raised before.
LEMMA RaiseEndEventIsNested ==
  ASSUME IInv, RaiseEndEvent
  PROVE  Nested
<1> USE DEF IInv, Types
<1> DEFINE n == Top.pc
           f == Frame("Raise", EndEvent(n), 0)
           g == [Top EXCEPT !.pc = @ + 1]
<1>1. /\ stack # <<>> /\ Top.proc = "End" /\ n \in 1 .. 3
      /\ stack' = <<f, g>> \o Tail(stack) /\ Notify(EndEvent(n))
      /\ UNCHANGED <<isEnded, presend, step, raising, session, failure>>
  BY DEF RaiseEndEvent, Running, CallFromTop, EndEvent, responseVars, requestVars
<1>2. EndEvent(n) \in EndEvents /\ EndEvent(n) \in Counted /\ EndEvent(n) # "PreSendRequestContent"
  BY <1>1, EndEventNames, EventKinds DEF EndEvents
<1>3. count' = [count EXCEPT ![EndEvent(n)] = @ + 1]
  BY <1>1, <1>2 DEF Notify
<1>4. isEnded /\ \A k \in 1 .. 3 : n <= k => count[EndEvent(k)] = 0
  <2>1. 1 \in DOMAIN stack /\ stack[1] = Top
    BY <1>1, PopFrame, LenProperties DEF Top
  <2> QED
    BY <1>1, <2>1 DEF EndInv, EndOK
<1>5. \A k \in 1 .. 3 :
         /\ count'[EndEvent(k)] <= 1
         /\ n + 1 <= k => count'[EndEvent(k)] = 0
  <2> SUFFICES ASSUME NEW k \in 1 .. 3
               PROVE  count'[EndEvent(k)] <= 1 /\ (n + 1 <= k => count'[EndEvent(k)] = 0)
    OBVIOUS
  <2>1. EndEvent(k) \in Counted /\ count[EndEvent(k)] <= 1
    BY EndEventNames, EventKinds DEF EndInv, EndOK
  <2>2. CASE k = n
    BY <1>2, <1>3, <1>4, <2>1, <2>2
  <2>3. CASE k # n
    BY <1>1, <1>2, <1>3, <1>4, <2>1, <2>3, EndEventNames
  <2> QED
    BY <2>2, <2>3
<1>6. EndInv' /\ stack' \in Seq(Frames)
  <2>1. /\ g \in Frames /\ g.proc = "End" /\ g.pc = n + 1 /\ Tail(stack) \in Seq(Frames)
        /\ g.proc = Head(stack).proc
    BY <1>1, FrameTypes DEF Top
  <2>2. f \in Frames /\ f.proc # "End"
    <3>1. EndEvent(n) \in Events \cup {"none"} /\ "Raise" \in Procs /\ 0 \in Nat
      BY <1>2 DEF Procs, Events
    <3>2. f \in Frames /\ f.proc = "Raise"
      BY <3>1, NewFrames
    <3> QED
      BY <3>2
  <2> HIDE DEF f, g, n
  <2> DEFINE t == <<g>> \o Tail(stack)
  <2>3. EndOK(t, isEnded, count')
    BY <1>1, <1>4, <1>5, <2>1, AdvanceKeeps DEF EndInv
  <2>4. t \in Seq(Frames) /\ stack' = <<f>> \o t
    BY <1>1, <2>1, <2>2, PushFrame, TwoFrames
  <2> HIDE DEF t
  <2>5. <<f>> \o t \in Seq(Frames) /\ EndOK(<<f>> \o t, isEnded, count')
    BY <2>2, <2>3, <2>4, PushFrame, PushKeeps
  <2> QED
    BY <1>1, <2>4, <2>5 DEF EndInv
<1>7. \A e \in PipelineEvents \cup {"PreSendRequestHeaders"} : count'[e] = count[e]
  BY <1>2, <1>3, EventKinds DEF EndEvents
<1>8. count' \in [Counted -> Nat]
  BY <1>2, <1>3
<1> QED
  BY <1>1, <1>6, <1>7, <1>8 DEF Nested, HeadersInv

\* The events of the response: the headers are announced once, since the state
\* of these events never returns to its start.
LEMMA PreSendIsNested ==
  ASSUME IInv, RaisePreSendRequestHeaders \/ HeadersRaised \/ RaisePreSendRequestContent \/ FlushReturns
  PROVE  Nested
<1> USE DEF IInv, Types
<1>0. EndOK(stack, isEnded, count) /\ 2 \in Nat /\ 3 \in Nat /\ 4 \in Nat
  BY DEF EndInv
<1>1. CASE RaisePreSendRequestHeaders
  <2>1. /\ stack # <<>> /\ (Running("Flush") \/ Running("Start"))
        /\ Top.pc = 1 /\ presend = "NotStarted" /\ presend' = "RaisingPreHeader"
        /\ Notify("PreSendRequestHeaders")
        /\ UNCHANGED <<isEnded, step, raising, session, failure>>
    BY <1>1 DEF RaisePreSendRequestHeaders, Running, requestVars
  <2>2. count' = [count EXCEPT !["PreSendRequestHeaders"] = @ + 1]
    BY <2>1 DEF Notify
  <2>3. stack' = <<Frame("Raise", "PreSendRequestHeaders", 0), [Top EXCEPT !.pc = 2]>> \o Tail(stack)
    <3>1. [Top EXCEPT !.pc = @ + 1] = [Top EXCEPT !.pc = 2]
      BY <2>1, FrameTypes DEF Frames
    <3> QED
      BY <1>1, <3>1 DEF RaisePreSendRequestHeaders, CallFromTop
  <2>4. stack' \in Seq(Frames) /\ EndOK(stack', isEnded, count)
    <3>1. "PreSendRequestHeaders" \in PreSendEvents
      BY DEF PreSendEvents
    <3> QED
      BY <1>0, <2>1, <2>3, <3>1, HeadersCallKeeps
  <2>5. \A e \in PipelineEvents \cup EndEvents : count'[e] = count[e]
    BY <2>2, EventKinds DEF EndEvents, PreSendEvents
  <2>6. EndInv'
    BY <2>1, <2>4, <2>5, EndEventNames DEF EndInv, EndOK
  <2>7. HeadersInv' /\ count' \in [Counted -> Nat]
    BY <2>1, <2>2, EventKinds DEF HeadersInv
  <2> QED
    BY <2>1, <2>4, <2>5, <2>6, <2>7 DEF Nested
<1>2. CASE HeadersRaised
  <2>1. Silent /\ UNCHANGED isEnded
    BY <1>2 DEF HeadersRaised, Running, Silent, featureVars, requestVars
  <2>2. Top.proc # "End" /\ stack' = <<[Top EXCEPT !.pc = 3]>> \o Tail(stack)
    BY <1>2 DEF HeadersRaised, Running
  <2>3. /\ [Top EXCEPT !.pc = 3] \in Frames /\ [Top EXCEPT !.pc = 3].proc # "End"
        /\ Tail(stack) \in Seq(Frames) /\ EndOK(Tail(stack), isEnded, count)
    BY <1>0, <2>1, <2>2, FrameTypes DEF Silent
  <2>4. stack' \in Seq(Frames) /\ EndOK(stack', isEnded, count)
    BY <2>2, <2>3, PushFrame, PushKeeps
  <2> QED
    BY <2>1, <2>4, SilentCounts
<1>3. CASE RaisePreSendRequestContent
  <2>1. Running("Flush") /\ Silent /\ UNCHANGED isEnded
    BY <1>3 DEF RaisePreSendRequestContent, Running, Silent, Notify, requestVars
  <2>2. stack' = <<Frame("Raise", "PreSendRequestContent", 0), [Top EXCEPT !.pc = 4]>> \o Tail(stack)
    BY <1>3 DEF RaisePreSendRequestContent
  <2>3. stack' \in Seq(Frames) /\ EndOK(stack', isEnded, count)
    <3>1. "PreSendRequestContent" \in PreSendEvents
      BY DEF PreSendEvents
    <3> QED
      BY <1>0, <2>1, <2>2, <3>1, HeadersCallKeeps
  <2> QED
    BY <2>1, <2>3, SilentCounts
<1>4. CASE FlushReturns
  <2>1. Silent /\ Pop /\ UNCHANGED isEnded
    BY <1>4 DEF FlushReturns, Running, Silent, featureVars, requestVars
  <2> QED
    BY <2>1, PopIsNested
<1> QED
  BY <1>1, <1>2, <1>3, <1>4

LEMMA FeatureStepIsNested ==
  ASSUME IInv, FeatureStep
  PROVE  Nested
<1> USE DEF IInv, Types
<1>0. EndOK(stack, isEnded, count)
  BY DEF EndInv
<1>1. CASE RaiseEndEvent
  BY <1>1, RaiseEndEventIsNested
<1>2. CASE RaisePreSendRequestHeaders \/ HeadersRaised \/ RaisePreSendRequestContent \/ FlushReturns
  BY <1>2, PreSendIsNested
<1>3. CASE EndReturns \/ Completed \/ Unwind
  <2>1. Silent /\ Pop /\ UNCHANGED isEnded
    BY <1>3
    DEF EndReturns, Completed, Unwind, Running, Throwing, Silent, featureVars, responseVars, requestVars
  <2> QED
    BY <2>1, PopIsNested
<1>4. CASE CompleteResponse \/ DrainBuffer
  <2>1. Silent /\ UNCHANGED isEnded
    BY <1>4 DEF CompleteResponse, DrainBuffer, Running, Silent, featureVars, responseVars, requestVars
  <2>2. PICK f \in {Frame("Complete", "none", 1), Frame("Flush", "none", 1)} :
           stack' = <<f, [Top EXCEPT !.pc = @ + 1]>> \o Tail(stack)
    BY <1>4 DEF CompleteResponse, DrainBuffer, CallFromTop
  <2>3. f \in Frames /\ f.proc # "End"
    <3>1. Frame("Complete", "none", 1) \in Frames /\ Frame("Complete", "none", 1).proc = "Complete"
      BY NewCalls
    <3>2. Frame("Flush", "none", 1) \in Frames /\ Frame("Flush", "none", 1).proc = "Flush"
      BY NewCalls
    <3> QED
      BY <2>2, <3>1, <3>2
  <2> DEFINE g == [Top EXCEPT !.pc = @ + 1]
  <2>4. g \in Frames /\ g.proc = Top.proc /\ (g.proc = "End" => g.pc = 5)
    BY <1>4, <2>1, FrameTypes DEF CompleteResponse, DrainBuffer, Running, Silent
  <2>5. stack # <<>> /\ stack' = <<f, g>> \o Tail(stack)
    BY <2>1, <2>2 DEF Silent
  <2> HIDE DEF g
  <2>6. g.proc = "End" => \A k \in 1 .. 3 : g.pc <= k => count[EndEvent(k)] = 0
    BY <2>4
  <2>7. stack' \in Seq(Frames) /\ EndOK(stack', isEnded, count)
    BY <2>3, <2>4, <2>5, <2>6, CallKeeps
  <2> QED
    BY <2>1, <2>7, SilentCounts
<1>5. CASE CatchInRaiseEvent
  <2>1. /\ Silent /\ UNCHANGED isEnded
        /\ stack' = <<Frame("Error", Top.event, 0)>> \o Tail(stack)
    BY <1>5, EventKinds
    DEF CatchInRaiseEvent, Throwing, Silent, responseVars, requestVars
  <2>2. Frame("Error", Top.event, 0) \in Frames /\ Frame("Error", Top.event, 0).proc # "End"
    <3>1. Top.event \in Events \cup {"none"}
      BY <2>1, FrameTypes DEF Silent, Frames
    <3> QED
      BY <3>1, NewFrames DEF Procs
  <2>3. stack' \in Seq(Frames) /\ EndOK(stack', isEnded, count)
    BY <2>1, <2>2, FrameTypes, PushFrame, PushKeeps DEF Silent
  <2> QED
    BY <2>1, <2>3, SilentCounts
<1>6. CASE CatchRequestEnd
  <2>1. Silent /\ isEnded' = TRUE
    BY <1>6 DEF CatchRequestEnd, Throwing, Silent, requestVars
  <2>2. CASE isEnded
    <3>1. Pop
      BY <1>6, <2>2 DEF CatchRequestEnd
    <3> QED
      BY <2>1, <2>2, <3>1, PopIsNested
  <2>3. CASE ~isEnded
    <3>1. stack' = <<Frame("End", "none", 1)>> \o Tail(stack)
      BY <1>6, <2>3 DEF CatchRequestEnd
    <3>2. Frame("End", "none", 1) \in Frames
      BY NewCalls
    <3>3. Tail(stack) \in Seq(Frames) /\ EndOK(Tail(stack), FALSE, count)
      BY <2>1, <2>3, FrameTypes DEF Silent
    <3>4. stack' \in Seq(Frames) /\ EndOK(stack', TRUE, count)
      BY <3>1, <3>2, <3>3, PushFrame, PushEndKeeps
    <3> QED
      BY <2>1, <3>4, SilentCounts
  <2> QED
    BY <2>2, <2>3
<1> QED
  BY <1>1, <1>2, <1>3, <1>4, <1>5, <1>6 DEF FeatureStep

LEMMA NestedKeeps ==
  ASSUME IInv, Nested
  PROVE  IInv'
<1>1. Types' /\ PositionInv' /\ SessionInv'
  BY DEF IInv, Types, PositionInv, SessionInv, Nested
<1>2. RaisedInv'
  <2>1. \A i \in Positions \ {10, 16, 21} : count'[Pipeline[i]] = count[Pipeline[i]]
    BY Checks DEF Nested
  <2> QED
    BY <2>1 DEF IInv, RaisedInv, Nested
<1> QED
  BY <1>1, <1>2 DEF IInv, Nested

-----------------------------------------------------------------------------
(* The steps of the middleware.                                             *)

\* What a step of the middleware shares that raises no event.
Passing ==
  /\ stack = <<>> /\ stack' = <<>> /\ UNCHANGED <<isEnded, count, presend>>

LEMMA PassingKeeps ==
  ASSUME IInv, Passing
  PROVE  EndInv' /\ HeadersInv'
  BY DEF IInv, EndInv, EndOK, HeadersInv, Passing

\* The middleware goes on to a later place; the events in between are not
\* raised any more.
LEMMA GoesOn ==
  ASSUME IInv, Passing, NEW next \in step + 1 .. 25, GoTo(next),
         isEnded => next \in {17, 18, 21, 22, 23, 24, 25}, SessionInv'
  PROVE  IInv'
<1>1. EndInv' /\ HeadersInv'
  BY PassingKeeps
<1>2. step' = next /\ raising' = FALSE /\ step \in 1 .. 25 /\ step < next
  BY DEF GoTo, IInv, Types
<1>3. Types'
  <2>1. stack' \in Seq(Frames) /\ next \in 1 .. 25
    BY <1>2, EmptySeq DEF Passing
  <2> QED
    BY <1>2, <2>1 DEF IInv, Types, Passing
<1>4. PositionInv'
  BY <1>2 DEF PositionInv, Passing
<1>5. RaisedInv'
  <2> SUFFICES ASSUME NEW j \in Positions \ {10, 16, 21}
               PROVE  /\ count'[Pipeline[j]] <= 1
                      /\ step' < j \/ (step' = j /\ ~raising') => count'[Pipeline[j]] = 0
    BY DEF RaisedInv
  <2>1. step' < j \/ step' = j => step < j
    BY <1>2 DEF Positions
  <2> QED
    BY <2>1 DEF IInv, RaisedInv, Passing
<1> QED
  BY <1>1, <1>3, <1>4, <1>5 DEF IInv

LEMMA RaisePipelineEventKeeps ==
  ASSUME IInv, NEW i \in Positions, RaisePipelineEvent(i)
  PROVE  IInv' /\ ~isEnded
<1>1. /\ stack = <<>> /\ step = i /\ ~raising /\ i \notin {10, 16, 21}
      /\ ~(i \in {17, 18, 22, 23} /\ isEnded)
      /\ stack' = <<Frame("Raise", Pipeline[i], 0)>> \o stack
      /\ Notify(Pipeline[i]) /\ raising' = TRUE
      /\ UNCHANGED <<isEnded, presend, step, session, failure>>
  BY Checks DEF RaisePipelineEvent, AtStep, Push, responseVars
<1>2. /\ Pipeline[i] \in PipelineEvents /\ Pipeline[i] \in Counted
      /\ Pipeline[i] \notin EndEvents \cup PreSendEvents
  BY <1>1, Checks, EventKinds
<1>3. count' = [count EXCEPT ![Pipeline[i]] = @ + 1]
  BY <1>1, <1>2 DEF Notify, PreSendEvents
<1>4. ~isEnded
  BY <1>1 DEF IInv, PositionInv, Positions
<1>5. stack' \in Seq(Frames) /\ EndOK(stack', isEnded, count)
  <2> DEFINE f == Frame("Raise", Pipeline[i], 0)
  <2>1. "Raise" \in Procs /\ Pipeline[i] \in Events \cup {"none"} /\ 0 \in Nat
    BY <1>2 DEF Procs, Events
  <2>2. f \in Frames /\ f.proc = "Raise"
    BY <2>1, NewFrames
  <2>3. stack \in Seq(Frames) /\ EndOK(stack, isEnded, count) /\ stack' = <<f>> \o stack
    BY <1>1 DEF IInv, Types, EndInv
  <2> HIDE DEF f
  <2> QED
    BY <2>2, <2>3, PushFrame, PushKeeps
<1>6. \A e \in EndEvents \cup {"PreSendRequestHeaders"} : count'[e] = count[e]
  BY <1>2, <1>3 DEF PreSendEvents
<1>7. EndInv' /\ HeadersInv'
  BY <1>1, <1>5, <1>6, EndEventNames DEF IInv, EndInv, EndOK, HeadersInv
<1>8. Types' /\ PositionInv' /\ SessionInv'
  BY <1>1, <1>2, <1>3, <1>5 DEF IInv, Types, PositionInv, SessionInv, Positions
<1>9. RaisedInv'
  <2> SUFFICES ASSUME NEW j \in Positions \ {10, 16, 21}
               PROVE  /\ count'[Pipeline[j]] <= 1
                      /\ step' < j \/ (step' = j /\ ~raising') => count'[Pipeline[j]] = 0
    BY DEF RaisedInv
  <2>1. Pipeline[j] \in Counted /\ count[Pipeline[j]] \in Nat
    BY Checks, EventKinds DEF IInv, Types
  <2>2. CASE j = i
    <3>1. count[Pipeline[i]] = 0
      BY <1>1 DEF IInv, RaisedInv
    <3> QED
      BY <1>1, <1>2, <1>3, <2>1, <2>2, <3>1 DEF IInv, Types
  <2>3. CASE j # i
    <3>1. Pipeline[j] # Pipeline[i]
      BY <2>3, PipelinePositions
    <3>2. count'[Pipeline[j]] = count[Pipeline[j]]
      BY <1>3, <2>1, <3>1 DEF IInv, Types
    <3> QED
      BY <1>1, <2>3, <3>2 DEF IInv, RaisedInv
  <2> QED
    BY <2>2, <2>3
<1> QED
  BY <1>4, <1>7, <1>8, <1>9 DEF IInv

LEMMA LeaveEventKeeps ==
  ASSUME IInv, NEW i \in Positions, LeaveEvent(i)
  PROVE  IInv'
<1>1. /\ Passing /\ step = i /\ i \notin {10, 16, 21} /\ UNCHANGED <<session, failure>>
      /\ raising \/ (i \in {17, 18, 22, 23} /\ isEnded) \/ i \in {12, 19}
  BY Checks DEF LeaveEvent, AtStep, Passing, featureVars, responseVars
<1>2. CASE isEnded /\ Pipeline[i] \in (IF raising THEN CheckedAfter ELSE CheckedBefore)
  <2>1. GoTo(ReturnFrom(i))
    BY <1>2 DEF LeaveEvent
  <2>2. ReturnFrom(i) \in {18, 21, 24} /\ i < ReturnFrom(i)
    <3>1. i \in (1 .. 9) \cup (11 .. 15) \cup {17, 18, 19, 22, 23}
      BY <1>2, Checks DEF Positions
    <3> QED
      BY <3>1, Returns DEF Positions
  <2>3. SessionInv'
    BY <1>1, <2>1, <2>2, Returns DEF GoTo, IInv, SessionInv, Positions
  <2>4. ReturnFrom(i) \in step + 1 .. 25
    BY <1>1, <2>2 DEF Positions
  <2> QED
    BY <1>1, <2>1, <2>2, <2>3, <2>4, GoesOn
<1>3. CASE ~(isEnded /\ Pipeline[i] \in (IF raising THEN CheckedAfter ELSE CheckedBefore))
  <2>1. GoTo(i + 1)
    BY <1>3 DEF LeaveEvent
  <2>2. isEnded => i + 1 \in {17, 18, 21, 22, 23, 24, 25}
    <3>1. CASE raising
      BY <1>1, <1>3, <3>1, Checks DEF Positions
    <3>2. CASE ~raising
      BY <1>1, <1>3, <3>2, Checks DEF IInv, PositionInv, Positions
    <3> QED
      BY <3>1, <3>2 DEF IInv, Types
  <2>3. SessionInv'
    BY <1>1, <2>1 DEF GoTo, IInv, SessionInv, Positions
  <2>4. i + 1 \in step + 1 .. 25
    BY <1>1 DEF Positions
  <2> QED
    BY <1>1, <2>1, <2>2, <2>3, <2>4, GoesOn
<1> QED
  BY <1>2, <1>3

LEMMA SessionMiddlewareKeeps ==
  ASSUME IInv, NEW i \in Positions,
         LoadSession(i) \/ CommitSession(i) \/ RunEndpoint(i) \/ LeaveEndpoint(i) \/ SessionThrows(i)
  PROVE  IInv'
<1>1. CASE LoadSession(i)
  <2>1. /\ Passing /\ step = i /\ i = 10 /\ GoTo(11) /\ session' \in {"none", "loaded"}
    BY <1>1, Checks DEF LoadSession, AtStep, Passing, featureVars, responseVars
  <2>2. ~isEnded /\ SessionInv'
    BY <2>1 DEF IInv, Types, PositionInv, SessionInv, GoTo
  <2>3. 11 \in step + 1 .. 25
    BY <2>1
  <2> QED
    BY <2>1, <2>2, <2>3, GoesOn
<1>2. CASE CommitSession(i)
  <2>1. /\ Passing /\ step = i /\ i = 21 /\ GoTo(22) /\ failure' = failure
        /\ session' = IF session = "loaded" THEN "committed" ELSE session
    BY <1>2, Checks DEF CommitSession, AtStep, Passing, featureVars, responseVars
  <2>2. SessionInv'
    BY <2>1 DEF IInv, SessionInv, GoTo
  <2>3. 22 \in step + 1 .. 25
    BY <2>1
  <2> QED
    BY <2>1, <2>2, <2>3, GoesOn
<1>3. CASE LeaveEndpoint(i)
  <2>1. Passing /\ step = i /\ i = 16 /\ GoTo(17) /\ UNCHANGED <<session, failure>>
    BY <1>3, Checks DEF LeaveEndpoint, AtStep, Passing, featureVars, responseVars
  <2>2. SessionInv'
    BY <2>1 DEF IInv, SessionInv, GoTo
  <2>3. 17 \in step + 1 .. 25
    BY <2>1
  <2> QED
    BY <2>1, <2>2, <2>3, GoesOn
<1>4. CASE RunEndpoint(i)
  <2>1. /\ stack = <<>> /\ step = i /\ i = 16 /\ ~raising
        /\ stack' = <<Frame("Endpoint", "none", 0)>> \o stack
        /\ raising' = TRUE /\ UNCHANGED <<isEnded, count, presend, step, session, failure>>
    BY <1>4, Checks DEF RunEndpoint, AtStep, Push, featureVars
  <2> DEFINE f == Frame("Endpoint", "none", 0)
  <2>2. f \in Frames /\ f.proc = "Endpoint"
    <3>1. "Endpoint" \in Procs /\ "none" \in Events \cup {"none"} /\ 0 \in Nat
      BY DEF Procs
    <3> QED
      BY <3>1, NewFrames
  <2>3. stack \in Seq(Frames) /\ EndOK(stack, isEnded, count) /\ stack' = <<f>> \o stack
    BY <2>1 DEF IInv, Types, EndInv
  <2> HIDE DEF f
  <2>4. stack' \in Seq(Frames) /\ EndOK(stack', isEnded, count)
    BY <2>2, <2>3, PushFrame, PushKeeps
  <2>5. EndInv' /\ HeadersInv' /\ SessionInv'
    BY <2>1, <2>4 DEF IInv, EndInv, EndOK, HeadersInv, SessionInv
  <2>6. Types' /\ PositionInv' /\ RaisedInv'
    BY <2>1, <2>4 DEF IInv, Types, PositionInv, RaisedInv, Positions
  <2> QED
    BY <2>5, <2>6 DEF IInv
<1>5. CASE SessionThrows(i)
  <2>1. UNCHANGED <<stack, isEnded, count, presend, step, raising, session, failure>>
    BY <1>5 DEF SessionThrows, featureVars, responseVars, requestVars
  <2> QED
    BY <2>1 DEF IInv, Types, PositionInv, SessionInv, RaisedInv, EndInv, EndOK, HeadersInv
<1> QED
  BY <1>1, <1>2, <1>3, <1>4, <1>5

LEMMA LeavingKeeps ==
  ASSUME IInv, LeavePipeline \/ EndInFinally \/ RequestDone
  PROVE  IInv'
<1>1. CASE LeavePipeline
  <2>1. /\ Passing /\ step < 24 /\ GoTo(24) /\ failure' = exn /\ exn # NoException
        /\ session' = IF session = "loaded" THEN "discarded" ELSE session
    BY <1>1, PipelinePositions DEF LeavePipeline, Passing, featureVars, responseVars
  <2>2. SessionInv' /\ 24 \in step + 1 .. 25
    BY <2>1 DEF IInv, Types, SessionInv, GoTo
  <2> QED
    BY <2>1, <2>2, GoesOn
<1>2. CASE RequestDone
  <2>1. /\ Passing /\ step = 24 /\ GoTo(25) /\ session' = session
        /\ failure' = IF exn # NoException THEN exn ELSE failure
    BY <1>2, PipelinePositions DEF RequestDone, Passing, featureVars, responseVars
  <2>2. SessionInv' /\ 25 \in step + 1 .. 25
    BY <2>1 DEF IInv, Types, SessionInv, GoTo
  <2> QED
    BY <2>1, <2>2, GoesOn
<1>3. CASE EndInFinally
  <2>1. /\ stack = <<>> /\ step = 24 /\ raising' = TRUE
        /\ UNCHANGED <<count, presend, step, session, failure>>
    BY <1>3, PipelinePositions DEF EndInFinally, AtStep, responseVars
  <2>2. \/ UNCHANGED <<stack, isEnded>>
        \/ isEnded /\ isEnded' = TRUE /\ UNCHANGED stack
        \/ ~isEnded /\ isEnded' = TRUE /\ stack' = <<Frame("End", "none", 1)>> \o stack
    BY <1>3 DEF EndInFinally, Push
  <2>3. stack \in Seq(Frames) /\ EndOK(stack, isEnded, count) /\ isEnded \in BOOLEAN
    BY DEF IInv, Types, EndInv
  <2>4. stack' \in Seq(Frames) /\ isEnded' \in BOOLEAN /\ EndOK(stack', isEnded', count)
    <3>1. CASE UNCHANGED <<stack, isEnded>> \/ (isEnded /\ isEnded' = TRUE /\ UNCHANGED stack)
      BY <2>3, <3>1
    <3>2. CASE ~isEnded /\ isEnded' = TRUE /\ stack' = <<Frame("End", "none", 1)>> \o stack
      <4>1. Frame("End", "none", 1) \in Frames
        BY NewCalls
      <4>2. EndOK(stack, FALSE, count)
        BY <2>3, <3>2
      <4> QED
        BY <2>3, <3>2, <4>1, <4>2, PushFrame, PushEndKeeps
    <3> QED
      BY <2>2, <3>1, <3>2
  <2>5. EndInv' /\ HeadersInv' /\ SessionInv'
    BY <2>1, <2>4 DEF IInv, EndInv, EndOK, HeadersInv, SessionInv
  <2>6. Types' /\ PositionInv' /\ RaisedInv'
    BY <2>1, <2>4 DEF IInv, Types, PositionInv, RaisedInv, Positions
  <2> QED
    BY <2>5, <2>6 DEF IInv
<1> QED
  BY <1>1, <1>2, <1>3

-----------------------------------------------------------------------------
(* The pre-send events.  While a handler of one runs, the state of these    *)
(* events says so, and of the calls above it none counts the bytes it       *)
(* writes: a flush is not begun, and a start finds the headers announced.   *)

IsRaising(p) == p \in {"RaisingPreHeader", "RaisingPreContent"}

SendFrame(f) == f.proc \in {"Raise", "Error"} /\ f.event \in PreSendEvents

\* What can be called while a pre-send event is raised.
Inert(f) == ~SendFrame(f) /\ f.proc # "Flush" /\ (f.proc = "Start" => f.pc = 1)

NoSend(s) == \A i \in DOMAIN s : ~SendFrame(s[i])

SendOK(s, p) ==
  \A i \in DOMAIN s : SendFrame(s[i]) =>
    IsRaising(p) /\ \A j \in DOMAIN s : j < i => Inert(s[j])

SendInv == SendOK(stack, presend)

LEMMA SendPop ==
  ASSUME NEW s \in Seq(Frames), s # <<>>, NEW p, SendOK(s, p)
  PROVE  /\ SendOK(Tail(s), p)
         /\ ~Inert(Head(s)) => NoSend(Tail(s))
         /\ SendFrame(Head(s)) => IsRaising(p)
         /\ ~IsRaising(p) => NoSend(Tail(s))
<1>1. /\ DOMAIN s = 1 .. Len(s) /\ DOMAIN Tail(s) = 1 .. Len(s) - 1 /\ Len(s) \in Nat
      /\ 1 \in DOMAIN s /\ Head(s) = s[1]
      /\ \A i \in DOMAIN Tail(s) : i + 1 \in DOMAIN s /\ Tail(s)[i] = s[i + 1] /\ 1 < i + 1
      /\ \A i, j \in DOMAIN Tail(s) : j < i => j + 1 < i + 1
  BY PopFrame, LenProperties
<1>2. SendOK(Tail(s), p)
  BY <1>1 DEF SendOK
<1>3. ~Inert(Head(s)) => NoSend(Tail(s))
  BY <1>1 DEF SendOK, NoSend
<1> QED
  BY <1>1, <1>2, <1>3 DEF SendOK, NoSend

LEMMA SendPush ==
  ASSUME NEW s \in Seq(Frames), NEW f \in Frames, NEW p, SendOK(s, p) \/ NoSend(s),
         ~NoSend(s) => Inert(f),
         SendFrame(f) => IsRaising(p)
  PROVE  SendOK(<<f>> \o s, p) /\ (NoSend(s) /\ ~SendFrame(f) => NoSend(<<f>> \o s))
<1> DEFINE t == <<f>> \o s
<1>1. /\ DOMAIN s = 1 .. Len(s) /\ DOMAIN t = 1 .. Len(s) + 1 /\ Len(s) \in Nat /\ t[1] = f
      /\ \A i \in 1 .. Len(s) : t[i + 1] = s[i]
  BY PushFrame, LenProperties
<1> HIDE DEF t
<1>2. \A i \in DOMAIN t : i = 1 \/ (i - 1 \in DOMAIN s /\ t[i] = s[i - 1])
  <2> SUFFICES ASSUME NEW i \in DOMAIN t, i # 1 PROVE i - 1 \in DOMAIN s /\ t[i] = s[i - 1]
    OBVIOUS
  <2>1. i - 1 \in 1 .. Len(s) /\ (i - 1) + 1 = i
    BY <1>1
  <2> QED
    BY <1>1, <2>1
<1>3. \A i, j \in DOMAIN t : j < i => i # 1 /\ (j # 1 => j - 1 < i - 1)
  BY <1>1
<1>4. NoSend(s) => \A i \in DOMAIN t : SendFrame(t[i]) => i = 1
  BY <1>1, <1>2 DEF NoSend
<1>5. SendOK(t, p)
  <2>1. CASE NoSend(s)
    BY <1>1, <1>3, <1>4, <2>1 DEF SendOK
  <2>2. CASE ~NoSend(s)
    <3> SUFFICES ASSUME NEW i \in DOMAIN t, SendFrame(t[i])
                 PROVE  IsRaising(p) /\ \A j \in DOMAIN t : j < i => Inert(t[j])
      BY DEF SendOK
    <3>1. i # 1 /\ i - 1 \in DOMAIN s /\ t[i] = s[i - 1]
      BY <1>1, <1>2, <2>2 DEF Inert
    <3>2. IsRaising(p) /\ \A j \in DOMAIN s : j < i - 1 => Inert(s[j])
      BY <2>2, <3>1 DEF SendOK
    <3>3. ASSUME NEW j \in DOMAIN t, j < i PROVE Inert(t[j])
      BY <1>1, <1>2, <1>3, <2>2, <3>2, <3>3
    <3> QED
      BY <3>2, <3>3
  <2> QED
    BY <2>1, <2>2
<1>6. NoSend(s) /\ ~SendFrame(f) => NoSend(t)
  BY <1>1, <1>4 DEF NoSend
<1> QED
  BY <1>5, <1>6 DEF t

LEMMA NewFrameIsInert ==
  /\ \A pc \in Nat, proc \in {"End", "Complete", "Endpoint"} : Inert(Frame(proc, "none", pc))
  /\ Inert(Frame("Start", "none", 1))
  /\ \A e \in (Events \cup {"none"}) \ PreSendEvents, proc \in {"Raise", "Error"}, pc \in Nat :
        Inert(Frame(proc, e, pc))
  /\ \A pc \in Nat : ~SendFrame(Frame("Flush", "none", pc))
  BY DEF Inert, SendFrame, Frame, PreSendEvents

\* The caller is advanced and calls something.
LEMMA SendCall ==
  ASSUME IInv, SendInv, stack # <<>>, NEW f \in Frames, NEW g \in Frames, NEW p,
         Inert(g) \/ NoSend(Tail(stack)), ~SendFrame(g),
         Inert(f) \/ NoSend(Tail(stack)), SendFrame(f) => IsRaising(p),
         p = presend \/ NoSend(Tail(stack))
  PROVE  SendOK(<<f, g>> \o Tail(stack), p)
<1> DEFINE s == Tail(stack)
<1>1. stack \in Seq(Frames) /\ s \in Seq(Frames) /\ SendOK(s, presend)
  BY FrameTypes, SendPop DEF IInv, Types, SendInv
<1>2. SendOK(s, p) \/ NoSend(s)
  BY <1>1
<1>3. <<f, g>> \o s = <<f>> \o (<<g>> \o s) /\ <<g>> \o s \in Seq(Frames)
  BY <1>1, TwoFrames, PushFrame
<1> HIDE DEF s
<1>4. SendOK(<<g>> \o s, p) /\ (NoSend(s) => NoSend(<<g>> \o s))
  BY <1>1, <1>2, SendPush DEF s
<1> DEFINE t == <<g>> \o s
<1>5. t \in Seq(Frames) /\ SendOK(t, p) /\ (~NoSend(t) => Inert(f)) /\ <<f, g>> \o s = <<f>> \o t
  BY <1>3, <1>4 DEF s
<1> HIDE DEF t
<1> QED
  BY <1>5, SendPush DEF s

LEMMA SendStep ==
  ASSUME IInv, SendInv, [Next]_vars
  PROVE  SendInv'
<1>0. /\ stack \in Seq(Frames) /\ SendOK(stack, presend)
      /\ ~IsRaising(presend) => NoSend(stack)
  BY DEF IInv, Types, SendInv, SendOK, NoSend
<1>1. CASE UNCHANGED <<stack, presend>>
  BY <1>0, <1>1 DEF SendInv
<1>2. CASE stack # <<>> /\ Pop /\ UNCHANGED presend
  BY <1>0, <1>2, SendPop DEF SendInv, Pop
<1>3. CASE UNCHANGED presend /\ \E proc \in {"End", "Start", "Endpoint"} :
              stack' = <<Frame(proc, "none", IF proc = "Endpoint" THEN 0 ELSE 1)>> \o stack
  <2>1. PICK f \in {Frame("End", "none", 1), Frame("Start", "none", 1), Frame("Endpoint", "none", 0)} :
           stack' = <<f>> \o stack
    BY <1>3
  <2>2. f \in Frames /\ Inert(f)
    <3>1. "Endpoint" \in Procs /\ "none" \in Events \cup {"none"}
      BY DEF Procs
    <3>2. Frame("Endpoint", "none", 0) \in Frames
      BY <3>1, NewFrames
    <3>3. Frame("End", "none", 1) \in Frames /\ Frame("Start", "none", 1) \in Frames
      BY NewCalls
    <3> QED
      BY <2>1, <3>2, <3>3, NewFrameIsInert
  <2> QED
    BY <1>0, <1>3, <2>1, <2>2, SendPush DEF SendInv, Inert
<1>4. CASE Flush
  <2>1. /\ stack' = <<Frame("Flush", "none", 1)>> \o stack /\ UNCHANGED presend
        /\ ~IsRaising(presend)
    BY <1>4 DEF Flush, UserCall, Push, IsRaising
  <2>2. Frame("Flush", "none", 1) \in Frames /\ ~SendFrame(Frame("Flush", "none", 1))
    BY NewCalls, NewFrameIsInert
  <2> QED
    BY <1>0, <2>1, <2>2, SendPush DEF SendInv
<1>5. CASE RaiseEndEvent
  <2> DEFINE g == [Top EXCEPT !.pc = @ + 1]
  <2>1. /\ stack # <<>> /\ Top.proc = "End" /\ Top.pc \in 1 .. 3
        /\ stack' = <<Frame("Raise", EndEvent(Top.pc), 0), g>> \o Tail(stack) /\ UNCHANGED presend
    BY <1>5 DEF RaiseEndEvent, Running, CallFromTop, EndEvent, responseVars
  <2>2. EndEvent(Top.pc) \in (Events \cup {"none"}) \ PreSendEvents
    BY <2>1, EndEventNames DEF EndEvents, PreSendEvents, Events
  <2>3. Frame("Raise", EndEvent(Top.pc), 0) \in Frames /\ Inert(Frame("Raise", EndEvent(Top.pc), 0))
    BY <2>2, NewFrames, NewFrameIsInert DEF Procs
  <2>4. g \in Frames /\ Inert(g) /\ ~SendFrame(g)
    BY <2>1, FrameTypes DEF Inert, SendFrame
  <2> HIDE DEF g
  <2> QED
    BY <2>1, <2>3, <2>4, SendCall DEF SendInv, Inert
<1>6. CASE CompleteResponse \/ DrainBuffer
  <2> DEFINE g == [Top EXCEPT !.pc = @ + 1]
  <2>1. PICK f \in {Frame("Complete", "none", 1), Frame("Flush", "none", 1)} :
           /\ stack' = <<f, g>> \o Tail(stack) /\ UNCHANGED presend
           /\ stack # <<>> /\ Top.proc \in {"End", "Complete"}
           /\ f = Frame("Flush", "none", 1) => ~IsRaising(presend)
    <3>1. CASE CompleteResponse
      <4>1. /\ stack' = <<Frame("Complete", "none", 1), g>> \o Tail(stack) /\ UNCHANGED presend
            /\ stack # <<>> /\ Top.proc = "End"
        BY <3>1 DEF CompleteResponse, Running, CallFromTop, responseVars
      <4> QED
        BY <4>1 DEF Frame
    <3>2. CASE DrainBuffer
      BY <3>2 DEF DrainBuffer, Running, CallFromTop, responseVars, IsRaising
    <3> QED
      BY <1>6, <3>1, <3>2
  <2>2. f \in Frames /\ ~SendFrame(f) /\ (Inert(f) \/ f = Frame("Flush", "none", 1))
    <3>1. Frame("Complete", "none", 1) \in Frames /\ Inert(Frame("Complete", "none", 1))
      BY NewCalls, NewFrameIsInert
    <3>2. Frame("Flush", "none", 1) \in Frames /\ ~SendFrame(Frame("Flush", "none", 1))
      BY NewCalls, NewFrameIsInert
    <3> QED
      BY <2>1, <3>1, <3>2 DEF Inert
  <2>3. g \in Frames /\ Inert(g) /\ ~SendFrame(g)
    BY <2>1, FrameTypes DEF Inert, SendFrame
  <2>4. Inert(f) \/ NoSend(Tail(stack))
    BY <1>0, <2>1, <2>2, SendPop
  <2> HIDE DEF g
  <2> QED
    BY <2>1, <2>2, <2>3, <2>4, SendCall DEF SendInv
<1>7. CASE RaisePreSendRequestHeaders \/ RaisePreSendRequestContent
  <2>1. PICK event \in PreSendEvents, n \in {2, 4} :
           /\ stack' = <<Frame("Raise", event, 0), [Top EXCEPT !.pc = n]>> \o Tail(stack)
           /\ stack # <<>> /\ Top.proc \in {"Flush", "Start"}
           /\ ~IsRaising(presend) /\ IsRaising(presend')
    <3>1. CASE RaisePreSendRequestHeaders
      <4>1. /\ stack # <<>> /\ Top.proc \in {"Flush", "Start"} /\ Top.pc = 1
            /\ stack' = <<Frame("Raise", "PreSendRequestHeaders", 0), [Top EXCEPT !.pc = @ + 1]>> \o Tail(stack)
            /\ ~IsRaising(presend) /\ IsRaising(presend')
        BY <3>1 DEF RaisePreSendRequestHeaders, Running, CallFromTop, IsRaising
      <4>2. [Top EXCEPT !.pc = @ + 1] = [Top EXCEPT !.pc = 2]
        BY <4>1, FrameTypes DEF Frames
      <4> QED
        BY <4>1, <4>2 DEF PreSendEvents
    <3>2. CASE RaisePreSendRequestContent
      <4>1. /\ stack # <<>> /\ Top.proc = "Flush"
            /\ stack' = <<Frame("Raise", "PreSendRequestContent", 0), [Top EXCEPT !.pc = 4]>> \o Tail(stack)
            /\ ~IsRaising(presend) /\ IsRaising(presend')
        BY <3>2 DEF RaisePreSendRequestContent, Running, IsRaising
      <4> QED
        BY <4>1 DEF PreSendEvents
    <3> QED
      BY <1>7, <3>1, <3>2
  <2> DEFINE g == [Top EXCEPT !.pc = n]
  <2>2. g \in Frames /\ ~SendFrame(g)
    <3>1. n \in Nat
      OBVIOUS
    <3>2. g \in Frames /\ g.proc = Top.proc
      BY <2>1, <3>1, FrameTypes
    <3> QED
      BY <2>1, <3>2 DEF SendFrame
  <2>3. Frame("Raise", event, 0) \in Frames
    BY NewFrames DEF Procs, Events
  <2>4. NoSend(Tail(stack))
    BY <1>0, <2>1, SendPop
  <2> HIDE DEF g
  <2>5. stack' = <<Frame("Raise", event, 0), g>> \o Tail(stack)
    BY <2>1 DEF g
  <2> QED
    BY <2>1, <2>2, <2>3, <2>4, <2>5, SendCall DEF SendInv
<1>8. CASE HeadersRaised
  <2>1. /\ stack # <<>> /\ Top.proc \in {"Flush", "Start"} /\ Top.pc = 2
        /\ stack' = <<[Top EXCEPT !.pc = 3]>> \o Tail(stack)
    BY <1>8 DEF HeadersRaised, Running
  <2>2. /\ [Top EXCEPT !.pc = 3] \in Frames /\ ~SendFrame([Top EXCEPT !.pc = 3])
        /\ Tail(stack) \in Seq(Frames)
    BY <2>1, FrameTypes DEF SendFrame
  <2>3. NoSend(Tail(stack))
    <3>1. ~Inert(Head(stack))
      BY <2>1 DEF Inert, Top
    <3> QED
      BY <1>0, <2>1, <3>1, SendPop
  <2> QED
    BY <2>1, <2>2, <2>3, SendPush DEF SendInv
<1>9. CASE FlushReturns
  <2>1. stack # <<>> /\ Pop /\ (presend' = presend \/ Top.proc = "Flush" \/ (Top.proc = "Start" /\ Top.pc = 4))
    BY <1>9 DEF FlushReturns, Running
  <2>2. CASE presend' = presend
    BY <1>2, <2>1, <2>2
  <2>3. CASE Top.proc = "Flush" \/ (Top.proc = "Start" /\ Top.pc = 4)
    <3>1. ~Inert(Head(stack))
      BY <2>3 DEF Inert, Top
    <3>2. NoSend(Tail(stack))
      BY <1>0, <2>1, <3>1, SendPop
    <3> QED
      BY <2>1, <3>2 DEF SendInv, SendOK, NoSend, Pop
  <2> QED
    BY <2>1, <2>2, <2>3
<1>10. CASE CatchInRaiseEvent
  <2>1. /\ stack # <<>> /\ Top.proc = "Raise" /\ UNCHANGED presend
        /\ stack' = <<Frame("Error", Top.event, 0)>> \o Tail(stack)
    BY <1>10 DEF CatchInRaiseEvent, Throwing, responseVars
  <2>2. Top.event \in Events \cup {"none"} /\ Tail(stack) \in Seq(Frames)
    BY <2>1, FrameTypes DEF Frames
  <2>3. Frame("Error", Top.event, 0) \in Frames
    BY <2>2, NewFrames DEF Procs
  <2>4. CASE Top.event \in PreSendEvents
    <3>1. SendFrame(Head(stack)) /\ ~Inert(Head(stack))
      BY <2>1, <2>4 DEF SendFrame, Inert, Top
    <3>2. NoSend(Tail(stack)) /\ IsRaising(presend)
      BY <1>0, <2>1, <3>1, SendPop
    <3> QED
      BY <2>1, <2>2, <2>3, <3>2, SendPush DEF SendInv
  <2>5. CASE Top.event \notin PreSendEvents
    <3>1. Inert(Frame("Error", Top.event, 0))
      BY <2>2, <2>5, NewFrameIsInert
    <3>2. SendOK(Tail(stack), presend)
      BY <1>0, <2>1, SendPop
    <3> QED
      BY <2>1, <2>2, <2>3, <3>1, <3>2, SendPush DEF SendInv, Inert
  <2> QED
    BY <2>4, <2>5
<1>11. CASE CatchRequestEnd
  <2>1. /\ stack # <<>> /\ UNCHANGED presend
        /\ Pop \/ stack' = <<Frame("End", "none", 1)>> \o Tail(stack)
    BY <1>11 DEF CatchRequestEnd, Throwing
  <2>2. /\ Frame("End", "none", 1) \in Frames /\ Inert(Frame("End", "none", 1))
        /\ Tail(stack) \in Seq(Frames) /\ SendOK(Tail(stack), presend)
    BY <1>0, <2>1, NewCalls, NewFrameIsInert, FrameTypes, SendPop
  <2> QED
    BY <1>2, <2>1, <2>2, SendPush DEF SendInv, Inert
<1>12. ASSUME NEW i \in Positions, RaisePipelineEvent(i)
       PROVE  SendInv'
  <2>1. /\ stack' = <<Frame("Raise", Pipeline[i], 0)>> \o stack /\ UNCHANGED presend
        /\ Pipeline[i] \in PipelineEvents
    BY <1>12 DEF RaisePipelineEvent, Push, responseVars
  <2>2. Pipeline[i] \in (Events \cup {"none"}) \ PreSendEvents
    BY <2>1, EventKinds DEF Events
  <2>3. Frame("Raise", Pipeline[i], 0) \in Frames /\ Inert(Frame("Raise", Pipeline[i], 0))
    BY <2>2, NewFrames, NewFrameIsInert DEF Procs
  <2> QED
    BY <1>0, <2>1, <2>3, SendPush DEF SendInv, Inert
<1>13. CASE UserStep
  <2>1. CASE Throw \/ AddError \/ ClearError
    BY <1>1, <2>1 DEF Throw, AddError, ClearError, UserCall
  <2>2. CASE EndCall
    BY <1>1, <1>3, <2>2 DEF EndCall, UserCall, Push
  <2>3. CASE Start
    BY <1>3, <2>3 DEF Start, UserCall, Push
  <2>4. CASE HandlersReturn \/ ErrorHandlersReturn \/ EndpointReturns
    BY <1>2, <2>4
    DEF HandlersReturn, ErrorHandlersReturn, EndpointReturns, Running, featureVars, responseVars
  <2> QED
    BY <1>4, <1>13, <2>1, <2>2, <2>3, <2>4 DEF UserStep
<1>14. CASE FeatureStep
  <2>1. CASE EndReturns \/ Completed \/ Unwind
    BY <1>2, <2>1 DEF EndReturns, Completed, Unwind, Running, Throwing, featureVars, responseVars
  <2> QED
    BY <1>5, <1>6, <1>7, <1>8, <1>9, <1>10, <1>11, <1>14, <2>1 DEF FeatureStep
<1>15. CASE PipelineStep
  <2>1. 1 .. Len(Pipeline) = Positions
    BY DEF Pipeline, Positions
  <2>2. ASSUME NEW i \in Positions,
               LeaveEvent(i) \/ LoadSession(i) \/ LeaveEndpoint(i) \/ CommitSession(i) \/ SessionThrows(i)
        PROVE  SendInv'
    BY <1>1, <2>2
    DEF LeaveEvent, LoadSession, LeaveEndpoint, CommitSession, SessionThrows, featureVars, responseVars
  <2>3. ASSUME NEW i \in Positions, RunEndpoint(i) PROVE SendInv'
    BY <1>3, <2>3 DEF RunEndpoint, Push
  <2>4. CASE LeavePipeline \/ RequestDone
    BY <1>1, <2>4 DEF LeavePipeline, RequestDone, responseVars
  <2>5. CASE EndInFinally
    BY <1>1, <1>3, <2>5 DEF EndInFinally, Push, responseVars
  <2> QED
    BY <1>12, <1>15, <2>1, <2>2, <2>3, <2>4, <2>5 DEF PipelineStep
<1>16. CASE Terminating \/ UNCHANGED vars
  BY <1>1, <1>16 DEF Terminating, vars
<1> QED
  BY <1>13, <1>14, <1>15, <1>16 DEF Next

-----------------------------------------------------------------------------
(* The invariant holds.                                                     *)

LEMMA InitHolds == Init => IInv
<1> SUFFICES ASSUME Init PROVE IInv
  OBVIOUS
<1>1. \A e \in Counted : count[e] = 0
  BY DEF Init
<1>2. Types /\ PositionInv /\ SessionInv
  <2>1. stack \in Seq(Frames)
    BY EmptySeq DEF Init
  <2>2. count \in [Counted -> Nat] /\ step \in 1 .. 25
    BY DEF Init
  <2> QED
    BY <2>1, <2>2 DEF Init, Types, PositionInv, SessionInv
<1>3. RaisedInv
  BY <1>1, Checks, EventKinds DEF RaisedInv
<1>4. EndInv /\ HeadersInv
  <2>1. DOMAIN stack = {}
    BY EmptySeq, LenProperties DEF Init
  <2> QED
    BY <1>1, <2>1, EndEventNames, EventKinds DEF EndInv, EndOK, HeadersInv
<1> QED
  BY <1>2, <1>3, <1>4 DEF IInv

LEMMA StepHolds ==
  ASSUME IInv, [Next]_vars
  PROVE  IInv' /\ (isEnded => \A e \in PipelineEvents : count'[e] = count[e])
<1>1. CASE UserStep \/ FeatureStep
  <2>1. Nested
    BY <1>1, UserStepIsNested, FeatureStepIsNested
  <2> QED
    BY <2>1, NestedKeeps DEF Nested
<1>2. ASSUME NEW i \in Positions, RaisePipelineEvent(i)
      PROVE  IInv' /\ (isEnded => \A e \in PipelineEvents : count'[e] = count[e])
  BY <1>2, RaisePipelineEventKeeps
<1>3. ASSUME NEW i \in Positions, LeaveEvent(i)
      PROVE  IInv' /\ (isEnded => \A e \in PipelineEvents : count'[e] = count[e])
  BY <1>3, LeaveEventKeeps DEF LeaveEvent
<1>4. ASSUME NEW i \in Positions,
             LoadSession(i) \/ CommitSession(i) \/ RunEndpoint(i) \/ LeaveEndpoint(i) \/ SessionThrows(i)
      PROVE  IInv' /\ (isEnded => \A e \in PipelineEvents : count'[e] = count[e])
  BY <1>4, SessionMiddlewareKeeps
  DEF LoadSession, CommitSession, RunEndpoint, LeaveEndpoint, SessionThrows
<1>5. CASE LeavePipeline \/ EndInFinally \/ RequestDone
  BY <1>5, LeavingKeeps DEF LeavePipeline, EndInFinally, RequestDone
<1>6. CASE Terminating \/ UNCHANGED vars
  <2>1. UNCHANGED <<stack, isEnded, count, presend, step, raising, session, failure>>
    BY <1>6 DEF Terminating, vars
  <2> QED
    BY <2>1 DEF IInv, Types, PositionInv, SessionInv, RaisedInv, EndInv, EndOK, HeadersInv
<1>7. CASE PipelineStep
  <2>1. 1 .. Len(Pipeline) = Positions
    BY DEF Pipeline, Positions
  <2> QED
    BY <1>2, <1>3, <1>4, <1>5, <1>7, <2>1 DEF PipelineStep
<1> QED
  BY <1>1, <1>6, <1>7 DEF Next

-----------------------------------------------------------------------------
(* What a step does to the calls under way, place by place.                 *)

Pushed(f) ==
  /\ Len(stack') = Len(stack) + 1 /\ stack'[1] = f
  /\ \A i \in 1 .. Len(stack) : stack'[i + 1] = stack[i]
  /\ \A i \in 2 .. Len(stack) + 1 : stack'[i] = stack[i - 1]

Popped ==
  /\ Len(stack) > 0 /\ Len(stack') = Len(stack) - 1
  /\ \A i \in 1 .. Len(stack) - 1 : stack'[i] = stack[i + 1]
  /\ \A i \in 2 .. Len(stack) : stack'[i - 1] = stack[i]

Called(f, g) ==
  /\ Len(stack) > 0 /\ Len(stack') = Len(stack) + 1 /\ stack'[1] = f /\ stack'[2] = g
  /\ \A i \in 2 .. Len(stack) : stack'[i + 1] = stack[i]
  /\ \A i \in 3 .. Len(stack) + 1 : stack'[i] = stack[i - 1]

Replaced(f) ==
  /\ Len(stack) > 0 /\ Len(stack') = Len(stack) /\ stack'[1] = f
  /\ \A i \in 2 .. Len(stack) : stack'[i] = stack[i]

\* The calls as a function on their places.
Stacks ==
  /\ Len(stack) \in Nat /\ DOMAIN stack = 1 .. Len(stack)
  /\ Len(stack') \in Nat /\ DOMAIN stack' = 1 .. Len(stack')
  /\ \A i \in 1 .. Len(stack) : stack[i] \in Frames
  /\ \A i \in 1 .. Len(stack') : stack'[i] \in Frames
  /\ stack = <<>> <=> Len(stack) = 0
  /\ stack' = <<>> <=> Len(stack') = 0
  /\ stack # <<>> => Top = stack[1] /\ Top \in Frames

LEMMA Shapes ==
  ASSUME stack \in Seq(Frames), stack' \in Seq(Frames)
  PROVE  /\ Stacks
         /\ \A f \in Frames : stack' = <<f>> \o stack => Pushed(f)
         /\ stack # <<>> /\ Pop => Popped
         /\ \A f, g \in Frames : stack # <<>> /\ stack' = <<f, g>> \o Tail(stack) => Called(f, g)
         /\ \A f \in Frames : stack # <<>> /\ stack' = <<f>> \o Tail(stack) => Replaced(f)
<1>1. Stacks
  <2>1. /\ Len(stack) \in Nat /\ DOMAIN stack = 1 .. Len(stack)
        /\ Len(stack') \in Nat /\ DOMAIN stack' = 1 .. Len(stack')
        /\ \A i \in 1 .. Len(stack) : stack[i] \in Frames
        /\ \A i \in 1 .. Len(stack') : stack'[i] \in Frames
    BY LenProperties, ElementOfSeq
  <2>2. (stack = <<>> <=> Len(stack) = 0) /\ (stack' = <<>> <=> Len(stack') = 0)
    BY EmptySeq
  <2>3. stack # <<>> => Top = stack[1] /\ Top \in Frames
    BY PopFrame DEF Top
  <2> QED
    BY <2>1, <2>2, <2>3 DEF Stacks
<1>2. ASSUME NEW f \in Frames, NEW s \in Seq(Frames), stack' = <<f>> \o s
      PROVE  /\ Len(s) \in Nat /\ Len(stack') = Len(s) + 1 /\ stack'[1] = f
             /\ \A i \in 1 .. Len(s) : stack'[i + 1] = s[i]
             /\ \A i \in 2 .. Len(s) + 1 : stack'[i] = s[i - 1]
  <2>1. /\ Len(s) \in Nat /\ Len(stack') = Len(s) + 1 /\ stack'[1] = f
        /\ \A i \in 1 .. Len(s) : stack'[i + 1] = s[i]
    BY <1>2, PushFrame, LenProperties
  <2>2. ASSUME NEW i \in 2 .. Len(s) + 1 PROVE stack'[i] = s[i - 1]
    <3>1. i - 1 \in 1 .. Len(s) /\ (i - 1) + 1 = i
      BY <2>1
    <3> QED
      BY <2>1, <3>1
  <2> QED
    BY <2>1, <2>2
<1>3. ASSUME stack # <<>>
      PROVE  /\ Tail(stack) \in Seq(Frames) /\ Len(Tail(stack)) = Len(stack) - 1
             /\ Len(stack) \in Nat \ {0}
             /\ \A i \in 1 .. Len(stack) - 1 : Tail(stack)[i] = stack[i + 1]
             /\ \A i \in 2 .. Len(stack) : Tail(stack)[i - 1] = stack[i]
  <2>1. /\ Tail(stack) \in Seq(Frames) /\ Len(Tail(stack)) = Len(stack) - 1
        /\ Len(stack) \in Nat \ {0}
        /\ \A i \in 1 .. Len(stack) - 1 : Tail(stack)[i] = stack[i + 1]
    BY <1>3, PopFrame
  <2>2. ASSUME NEW i \in 2 .. Len(stack) PROVE Tail(stack)[i - 1] = stack[i]
    <3>1. i - 1 \in 1 .. Len(stack) - 1 /\ (i - 1) + 1 = i
      BY <2>1
    <3> QED
      BY <2>1, <3>1
  <2> QED
    BY <2>1, <2>2
<1>4. \A f \in Frames : stack' = <<f>> \o stack => Pushed(f)
  BY <1>2 DEF Pushed
<1>5. stack # <<>> /\ Pop => Popped
  BY <1>3 DEF Pop, Popped
<1>6. ASSUME NEW f \in Frames, stack # <<>>, stack' = <<f>> \o Tail(stack)
      PROVE  Replaced(f)
  <2>1. /\ Len(Tail(stack)) = Len(stack) - 1 /\ Len(stack) \in Nat \ {0}
        /\ \A i \in 2 .. Len(stack) : Tail(stack)[i - 1] = stack[i]
    BY <1>3, <1>6
  <2>2. /\ Len(stack') = Len(Tail(stack)) + 1 /\ stack'[1] = f
        /\ \A i \in 2 .. Len(Tail(stack)) + 1 : stack'[i] = Tail(stack)[i - 1]
    BY <1>2, <1>3, <1>6
  <2> QED
    BY <2>1, <2>2 DEF Replaced
<1>7. ASSUME NEW f \in Frames, NEW g \in Frames, stack # <<>>, stack' = <<f, g>> \o Tail(stack)
      PROVE  Called(f, g)
  <2> DEFINE s == <<g>> \o Tail(stack)
  <2>1. /\ Tail(stack) \in Seq(Frames) /\ Len(Tail(stack)) = Len(stack) - 1 /\ Len(stack) \in Nat \ {0}
        /\ \A i \in 2 .. Len(stack) : Tail(stack)[i - 1] = stack[i]
    BY <1>3, <1>7
  <2>2. /\ s \in Seq(Frames) /\ Len(s) = Len(Tail(stack)) + 1 /\ s[1] = g
        /\ \A i \in 1 .. Len(Tail(stack)) : s[i + 1] = Tail(stack)[i]
    BY <2>1, PushFrame
  <2>3. stack' = <<f>> \o s
    BY <1>7, <2>1, TwoFrames
  <2> HIDE DEF s
  <2>4. ASSUME NEW i \in 2 .. Len(stack) PROVE s[i] = stack[i]
    <3>1. i - 1 \in 1 .. Len(Tail(stack)) /\ (i - 1) + 1 = i
      BY <2>1
    <3> QED
      BY <2>1, <2>2, <3>1
  <2>5. /\ Len(stack') = Len(stack) + 1 /\ stack'[1] = f
        /\ \A i \in 1 .. Len(stack) : stack'[i + 1] = s[i]
        /\ \A i \in 2 .. Len(stack) + 1 : stack'[i] = s[i - 1]
    BY <1>2, <2>1, <2>2, <2>3
  <2>6. stack'[2] = g
    BY <2>1, <2>2, <2>5
  <2>7. ASSUME NEW i \in 3 .. Len(stack) + 1 PROVE stack'[i] = stack[i - 1]
    <3>1. i - 1 \in 2 .. Len(stack) /\ i \in 2 .. Len(stack) + 1
      BY <2>1
    <3> QED
      BY <2>4, <2>5, <3>1
  <2> QED
    BY <2>1, <2>4, <2>5, <2>6, <2>7 DEF Called
<1> QED
  BY <1>1, <1>4, <1>5, <1>6, <1>7

-----------------------------------------------------------------------------
(* The steps by what they do to the calls and to the exception.             *)

Waiting == UNCHANGED <<step, raising, failure, endpoint, buffered>>
SameCounts == \A e \in EndEvents : count'[e] = count[e]

\* Code of the application throws, or ends the request inside an IHttpHandler.
UserThrows ==
  /\ exn = NoException /\ Len(stack) > 0 /\ Top.proc \in {"Raise", "Error", "Endpoint"}
  /\ UNCHANGED <<stack, errors, isEnded, endFeature, notification, completed>> /\ Waiting /\ SameCounts
  /\ calls' = calls + 1 /\ (calm' => calm /\ Top.proc # "Error")
  /\ \/ exn' = Exception("thrown", calls', <<>>)
     \/ exn' = Exception("requestEnd", calls', <<>>) /\ endFeature = "throwing"

\* It adds an error, clears the errors, or ends a request that has ended.
UserNotes ==
  /\ exn = NoException
  /\ UNCHANGED <<stack, exn, isEnded, endFeature, notification, completed>> /\ Waiting /\ SameCounts
  /\ calls' = calls + 1 /\ (calm' => calm)
  /\ errors' \in {errors, <<>>, Append(errors, Exception("added", calls', <<>>))}

\* It ends the request, or flushes or starts the response.
UserEnters ==
  /\ exn = NoException /\ Len(stack) > 0 /\ Top.proc \in {"Raise", "Error", "Endpoint"}
  /\ UNCHANGED <<exn, errors, endFeature, notification, completed>> /\ Waiting /\ SameCounts
  /\ calls' = calls + 1
  /\ \E proc \in {"End", "Flush", "Start"} :
       /\ Pushed(Frame(proc, "none", 1))
       /\ proc = "End" => isEnded = FALSE /\ isEnded' = TRUE /\ endFeature # "throwing"
       /\ proc # "End" => isEnded' = isEnded
       /\ calm' => calm /\ Top.proc # "Error" /\ proc # "Start"
       /\ buffered => proc # "Flush"

\* The innermost call returns.
Returned ==
  /\ exn = NoException /\ Popped
  /\ UNCHANGED <<errors, isEnded, notification, calls, calm>> /\ Waiting /\ SameCounts
  /\ completed' = (IF Top.proc = "Complete" THEN TRUE ELSE completed)
  /\ endFeature' = IF Top.proc = "Endpoint" THEN "application" ELSE endFeature
  /\ Top.proc = "End" => Top.pc = 5 /\ exn' = ThrownErrors
  /\ Top.proc = "Error" => exn' = IF Top.event \in EndEvents THEN NoException ELSE ThrownErrors
  /\ Top.proc \notin {"End", "Error"} => exn' = NoException

\* It goes on, or calls another: the caller stays what it is.
Inner ==
  /\ exn = NoException
  /\ UNCHANGED <<exn, errors, isEnded, endFeature, completed, calls, calm>> /\ Waiting

SameCaller(g) == g.proc = Top.proc /\ g.event = Top.event

Advanced ==
  /\ Inner /\ UNCHANGED notification /\ SameCounts
  /\ Top.proc \in {"Flush", "Start"}
  /\ \E g \in Frames : Replaced(g) /\ SameCaller(g) /\ g.pc = 3

RaisesEnd ==
  /\ Inner
  /\ Top.proc = "End" /\ Top.pc \in 1 .. 3
  /\ \E g \in Frames :
       /\ Called(Frame("Raise", EndEvent(Top.pc), 0), g) /\ SameCaller(g) /\ g.pc = Top.pc + 1
       /\ notification' = EndEvent(Top.pc)
       /\ count' = [count EXCEPT ![EndEvent(Top.pc)] = @ + 1]

RaisesPreSend ==
  /\ Inner /\ UNCHANGED notification /\ SameCounts
  /\ Top.proc \in {"Flush", "Start"}
  /\ \E g \in Frames, e \in PreSendEvents :
       Called(Frame("Raise", e, 0), g) /\ SameCaller(g) /\ g.pc \in {2, 4}

Completes ==
  /\ Inner /\ UNCHANGED notification /\ SameCounts
  /\ Top.proc = "End" /\ Top.pc = 4
  /\ \E g \in Frames : Called(Frame("Complete", "none", 1), g) /\ SameCaller(g) /\ g.pc = 5

Drains ==
  /\ Inner /\ UNCHANGED notification /\ SameCounts
  /\ Top.proc = "Complete"
  /\ \E g \in Frames : Called(Frame("Flush", "none", 1), g) /\ SameCaller(g) /\ g.pc = 2

\* The exception is recorded, leaves the innermost call, or ends the request.
Caught ==
  /\ exn # NoException /\ Top.proc = "Raise" /\ ~IsReentrant(exn)
  /\ Replaced(Frame("Error", Top.event, 0))
  /\ errors' = Append(errors, exn) /\ exn' = NoException
  /\ UNCHANGED <<isEnded, endFeature, notification, completed, calls, calm>> /\ Waiting /\ SameCounts

Unwound ==
  /\ exn # NoException /\ Popped
  /\ Top.proc = "Raise" => IsReentrant(exn)
  /\ Top.proc = "Endpoint" => exn.kind # "requestEnd"
  /\ UNCHANGED <<exn, errors, isEnded, endFeature, notification, completed, calls, calm>>
  /\ Waiting /\ SameCounts

CaughtEnd ==
  /\ exn.kind = "requestEnd" /\ Top.proc = "Endpoint"
  /\ IF isEnded THEN Popped ELSE Replaced(Frame("End", "none", 1))
  /\ exn' = NoException /\ endFeature' = "application" /\ isEnded' = TRUE
  /\ UNCHANGED <<errors, notification, completed, calls, calm>> /\ Waiting /\ SameCounts

CallMoves ==
  \/ UserThrows \/ UserNotes \/ UserEnters \/ Returned \/ Advanced \/ RaisesEnd
  \/ RaisesPreSend \/ Completes \/ Drains \/ Caught \/ Unwound \/ CaughtEnd

LEMMA UserMoves ==
  ASSUME IInv, stack' \in Seq(Frames), UserStep
  PROVE  UserThrows \/ UserNotes \/ UserEnters \/ Returned
<1> USE DEF Waiting, SameCounts
<1>a. stack \in Seq(Frames) /\ isEnded \in BOOLEAN
  BY DEF IInv, Types
<1>b. stack # <<>> => Len(stack) > 0
  <2>1. Len(stack) \in Nat /\ (stack = <<>> <=> Len(stack) = 0)
    BY <1>a, Shapes DEF Stacks
  <2> QED
    BY <2>1
<1>0. /\ stack \in Seq(Frames) /\ isEnded \in BOOLEAN
      /\ UserCode => exn = NoException /\ Top.proc \in {"Raise", "Error", "Endpoint"} /\ stack # <<>>
      /\ stack # <<>> => Len(stack) > 0
  BY <1>a, <1>b DEF UserCode, Running
<1>1. CASE Throw
  BY <1>0, <1>1 DEF Throw, UserCall, UserThrows, requestVars
<1>2. CASE AddError \/ ClearError
  BY <1>0, <1>2 DEF AddError, ClearError, UserCall, UserNotes, requestVars
<1>3. CASE EndCall
  <2>0. /\ UserCode /\ calls' = calls + 1 /\ UNCHANGED <<endFeature, notification, completed, errors>>
        /\ Waiting /\ SameCounts /\ (calm' => calm /\ Top.proc # "Error")
    BY <1>3 DEF EndCall, UserCall, requestVars
  <2>1. CASE endFeature = "throwing"
    BY <1>0, <1>3, <2>0, <2>1 DEF EndCall, UserThrows
  <2>2. CASE endFeature # "throwing" /\ isEnded
    BY <1>0, <1>3, <2>0, <2>2 DEF EndCall, UserNotes
  <2>3. CASE endFeature # "throwing" /\ ~isEnded
    <3>1. stack' = <<Frame("End", "none", 1)>> \o stack /\ isEnded' = TRUE /\ UNCHANGED exn
      BY <1>3, <2>3 DEF EndCall, Push
    <3>2. Pushed(Frame("End", "none", 1))
      BY <1>0, <3>1, Shapes, NewCalls
    <3> QED
      BY <1>0, <2>0, <2>3, <3>1, <3>2 DEF UserEnters
  <2> QED
    BY <2>1, <2>2, <2>3
<1>4. CASE Flush \/ Start
  <2>1. PICK proc \in {"Flush", "Start"} :
           /\ stack' = <<Frame(proc, "none", 1)>> \o stack
           /\ calm' => calm /\ Top.proc # "Error" /\ proc # "Start"
           /\ buffered => proc # "Flush"
    BY <1>4 DEF Flush, Start, UserCall, Push
  <2>2. Pushed(Frame(proc, "none", 1))
    BY <1>0, <2>1, Shapes, NewCalls
  <2> QED
    BY <1>0, <1>4, <2>1, <2>2 DEF Flush, Start, UserCall, UserEnters, requestVars
<1>5. CASE HandlersReturn \/ ErrorHandlersReturn \/ EndpointReturns
  <2>1. exn = NoException /\ Popped
    BY <1>0, <1>5, Shapes DEF HandlersReturn, ErrorHandlersReturn, EndpointReturns, Running
  <2> QED
    BY <1>5, <2>1
    DEF HandlersReturn, ErrorHandlersReturn, EndpointReturns, Running, Returned,
        featureVars, responseVars, requestVars, callVars
<1> QED
  BY <1>1, <1>2, <1>3, <1>4, <1>5 DEF UserStep

LEMMA FeatureMoves ==
  ASSUME IInv, stack' \in Seq(Frames), FeatureStep
  PROVE  CallMoves
<1> USE DEF Waiting, SameCounts
<1>a. stack \in Seq(Frames) /\ isEnded \in BOOLEAN /\ count \in [Counted -> Nat]
  BY DEF IInv, Types
<1>b. stack # <<>> => Len(stack) > 0 /\ Top \in Frames
  <2>1. /\ Len(stack) \in Nat /\ (stack = <<>> <=> Len(stack) = 0)
        /\ stack # <<>> => Top \in Frames
    BY <1>a, Shapes DEF Stacks
  <2> QED
    BY <2>1
<1>0. /\ stack \in Seq(Frames) /\ isEnded \in BOOLEAN /\ count \in [Counted -> Nat]
      /\ stack # <<>> => Len(stack) > 0 /\ Top \in Frames
  BY <1>a, <1>b
<1>1. CASE RaiseEndEvent
  <2> DEFINE g == [Top EXCEPT !.pc = @ + 1]
             f == Frame("Raise", EndEvent(Top.pc), 0)
  <2>1. /\ stack # <<>> /\ exn = NoException /\ Top.proc = "End" /\ Top.pc \in 1 .. 3
        /\ stack' = <<f, g>> \o Tail(stack)
    BY <1>1 DEF RaiseEndEvent, Running, CallFromTop, EndEvent
  <2>2. EndEvent(Top.pc) \in EndEvents
    BY <2>1, EndEventNames
  <2>3. f \in Frames
    BY <2>2, NewFrames DEF Procs, Events
  <2>4. g \in Frames /\ g.proc = Top.proc /\ g.event = Top.event /\ g.pc = Top.pc + 1
    BY <1>0, <2>1, FrameTypes DEF Frames
  <2>5. Called(f, g)
    <3> HIDE DEF f, g
    <3> QED
      BY <1>0, <2>1, <2>3, <2>4, Shapes
  <2>6. /\ notification' = EndEvent(Top.pc)
        /\ count' = [count EXCEPT ![EndEvent(Top.pc)] = @ + 1]
    <3>1. Notify(EndEvent(Top.pc))
      BY <1>1 DEF RaiseEndEvent, EndEvent
    <3>2. EndEvent(Top.pc) \notin UnnotifiedEvents /\ EndEvent(Top.pc) # "PreSendRequestContent"
      BY <2>2 DEF EndEvents, UnnotifiedEvents, PreSendEvents
    <3> QED
      BY <3>1, <3>2 DEF Notify
  <2>7. Inner
    BY <1>1, <2>1 DEF RaiseEndEvent, Inner, responseVars, requestVars, callVars
  <2> HIDE DEF g
  <2>8. RaisesEnd
    BY <2>1, <2>4, <2>5, <2>6, <2>7 DEF RaisesEnd, SameCaller
  <2> QED
    BY <2>8 DEF CallMoves
<1>2. CASE CompleteResponse \/ DrainBuffer
  <2> DEFINE g == [Top EXCEPT !.pc = @ + 1]
  <2>1. /\ stack # <<>> /\ exn = NoException
        /\ \/ /\ Top.proc = "End" /\ Top.pc = 4
              /\ stack' = <<Frame("Complete", "none", 1), g>> \o Tail(stack)
           \/ /\ Top.proc = "Complete" /\ Top.pc = 1
              /\ stack' = <<Frame("Flush", "none", 1), g>> \o Tail(stack)
    BY <1>2 DEF CompleteResponse, DrainBuffer, Running, CallFromTop
  <2>2. g \in Frames /\ g.proc = Top.proc /\ g.event = Top.event /\ g.pc = Top.pc + 1
    BY <1>0, <2>1, FrameTypes DEF Frames
  <2>3. Inner /\ UNCHANGED notification /\ SameCounts
    BY <1>2, <2>1
    DEF CompleteResponse, DrainBuffer, Inner, featureVars, responseVars, requestVars, callVars
  <2>4. Frame("Complete", "none", 1) \in Frames /\ Frame("Flush", "none", 1) \in Frames
    BY NewCalls
  <2> HIDE DEF g
  <2>5. \/ Top.proc = "End" /\ Top.pc = 4 /\ Called(Frame("Complete", "none", 1), g)
        \/ Top.proc = "Complete" /\ Top.pc = 1 /\ Called(Frame("Flush", "none", 1), g)
    BY <1>0, <2>1, <2>2, <2>4, Shapes
  <2>6. Completes \/ Drains
    BY <2>2, <2>3, <2>5 DEF Completes, Drains, SameCaller
  <2> QED
    BY <2>6 DEF CallMoves
<1>3. CASE EndReturns \/ Completed \/ FlushReturns
  <2>1. exn = NoException /\ Popped
    BY <1>0, <1>3, Shapes DEF EndReturns, Completed, FlushReturns, Running
  <2>2. Returned
    <3>1. CASE EndReturns
      BY <2>1, <3>1 DEF EndReturns, Running, Returned, featureVars, responseVars, requestVars, callVars
    <3>2. CASE Completed
      BY <2>1, <3>2 DEF Completed, Running, Returned, featureVars, requestVars, callVars
    <3>3. CASE FlushReturns
      BY <2>1, <3>3 DEF FlushReturns, Running, Returned, featureVars, requestVars, callVars
    <3> QED
      BY <1>3, <3>1, <3>2, <3>3
  <2> QED
    BY <2>2 DEF CallMoves
<1>4. CASE RaisePreSendRequestHeaders \/ RaisePreSendRequestContent
  <2>1. PICK e \in PreSendEvents, n \in {2, 4} :
           /\ stack' = <<Frame("Raise", e, 0), [Top EXCEPT !.pc = n]>> \o Tail(stack)
           /\ stack # <<>> /\ exn = NoException /\ Top.proc \in {"Flush", "Start"}
           /\ Notify(e)
    <3>1. CASE RaisePreSendRequestHeaders
      <4>1. /\ stack # <<>> /\ exn = NoException /\ Top.proc \in {"Flush", "Start"} /\ Top.pc = 1
            /\ stack' = <<Frame("Raise", "PreSendRequestHeaders", 0), [Top EXCEPT !.pc = @ + 1]>> \o Tail(stack)
            /\ Notify("PreSendRequestHeaders")
        BY <3>1 DEF RaisePreSendRequestHeaders, Running, CallFromTop
      <4>2. [Top EXCEPT !.pc = @ + 1] = [Top EXCEPT !.pc = 2]
        BY <4>1, FrameTypes DEF Frames
      <4> QED
        BY <4>1, <4>2 DEF PreSendEvents
    <3>2. CASE RaisePreSendRequestContent
      <4>1. /\ stack # <<>> /\ exn = NoException /\ Top.proc = "Flush"
            /\ stack' = <<Frame("Raise", "PreSendRequestContent", 0), [Top EXCEPT !.pc = 4]>> \o Tail(stack)
            /\ Notify("PreSendRequestContent")
        BY <3>2 DEF RaisePreSendRequestContent, Running
      <4> QED
        BY <4>1 DEF PreSendEvents
    <3> QED
      BY <1>4, <3>1, <3>2
  <2> DEFINE g == [Top EXCEPT !.pc = n]
  <2>2. g \in Frames /\ g.proc = Top.proc /\ g.event = Top.event /\ g.pc = n
    BY <1>0, <2>1, FrameTypes DEF Frames
  <2>3. Frame("Raise", e, 0) \in Frames
    BY NewFrames DEF Procs, Events
  <2>4. Called(Frame("Raise", e, 0), g)
    <3> HIDE DEF g
    <3>1. stack' = <<Frame("Raise", e, 0), g>> \o Tail(stack)
      BY <2>1 DEF g
    <3> QED
      BY <1>0, <2>1, <2>2, <2>3, <3>1, Shapes
  <2>5. UNCHANGED notification /\ SameCounts
    <3>1. e \in UnnotifiedEvents /\ e \notin EndEvents
      BY DEF UnnotifiedEvents, PreSendEvents, EndEvents
    <3>2. EndEvents \subseteq Counted
      BY EventKinds
    <3> QED
      BY <1>0, <2>1, <3>1, <3>2 DEF Notify
  <2>6. Inner
    BY <1>4, <2>1
    DEF RaisePreSendRequestHeaders, RaisePreSendRequestContent, Inner, requestVars, callVars
  <2> HIDE DEF g
  <2>7. RaisesPreSend
    BY <2>1, <2>2, <2>4, <2>5, <2>6 DEF RaisesPreSend, SameCaller
  <2> QED
    BY <2>7 DEF CallMoves
<1>5. CASE HeadersRaised
  <2> DEFINE g == [Top EXCEPT !.pc = 3]
  <2>1. /\ stack # <<>> /\ exn = NoException /\ Top.proc \in {"Flush", "Start"}
        /\ stack' = <<g>> \o Tail(stack)
    BY <1>5 DEF HeadersRaised, Running
  <2>2. g \in Frames /\ g.proc = Top.proc /\ g.event = Top.event /\ g.pc = 3
    BY <1>0, <2>1, FrameTypes DEF Frames
  <2>3. Inner /\ UNCHANGED notification /\ SameCounts
    BY <1>5, <2>1 DEF HeadersRaised, Inner, featureVars, requestVars, callVars
  <2> HIDE DEF g
  <2>4. Replaced(g)
    BY <1>0, <2>1, <2>2, Shapes
  <2>5. Advanced
    BY <2>1, <2>2, <2>3, <2>4 DEF Advanced, SameCaller
  <2> QED
    BY <2>5 DEF CallMoves
<1>6. CASE CatchInRaiseEvent
  <2>1. /\ stack # <<>> /\ exn # NoException /\ Top.proc = "Raise"
        /\ stack' = <<Frame("Error", Top.event, 0)>> \o Tail(stack)
    BY <1>6 DEF CatchInRaiseEvent, Throwing
  <2>2. Frame("Error", Top.event, 0) \in Frames
    <3>1. Top.event \in Events \cup {"none"}
      BY <1>0, <2>1 DEF Frames
    <3> QED
      BY <3>1, NewFrames DEF Procs
  <2>3. Replaced(Frame("Error", Top.event, 0))
    BY <1>0, <2>1, <2>2, Shapes
  <2>4. SameCounts
    <3>1. "Error" \notin EndEvents /\ EndEvents \subseteq Counted
      BY EventKinds DEF EndEvents
    <3> QED
      BY <1>0, <1>6, <3>1 DEF CatchInRaiseEvent
  <2>5. Caught
    BY <1>6, <2>1, <2>3, <2>4
    DEF CatchInRaiseEvent, Caught, responseVars, requestVars, callVars
  <2> QED
    BY <2>5 DEF CallMoves
<1>7. CASE Unwind
  <2>1. exn # NoException /\ Popped
    BY <1>0, <1>7, Shapes DEF Unwind, Throwing
  <2>2. Unwound
    BY <1>7, <2>1 DEF Unwind, Throwing, Unwound, featureVars, responseVars, requestVars, callVars
  <2> QED
    BY <2>2 DEF CallMoves
<1>8. CASE CatchRequestEnd
  <2>1. /\ stack # <<>> /\ Top.proc = "Endpoint" /\ exn.kind = "requestEnd"
        /\ IF isEnded THEN Pop ELSE stack' = <<Frame("End", "none", 1)>> \o Tail(stack)
    BY <1>8 DEF CatchRequestEnd, Throwing
  <2>2. IF isEnded THEN Popped ELSE Replaced(Frame("End", "none", 1))
    BY <1>0, <2>1, Shapes, NewCalls
  <2>3. CaughtEnd
    BY <1>8, <2>1, <2>2 DEF CatchRequestEnd, CaughtEnd, requestVars, callVars
  <2> QED
    BY <2>3 DEF CallMoves
<1> QED
  BY <1>1, <1>2, <1>3, <1>4, <1>5, <1>6, <1>7, <1>8 DEF FeatureStep

-----------------------------------------------------------------------------
(* The steps of the middleware itself, when no call is under way.           *)

Quiet == UNCHANGED <<errors, endpoint, buffered, completed, calls, calm>> /\ SameCounts

\* It raises an event of the pipeline, runs the endpoint, or the finally block
\* ends the request.
RaisesEvent ==
  /\ exn = NoException /\ stack = <<>> /\ Quiet
  /\ UNCHANGED <<exn, isEnded, endFeature, step, failure>> /\ raising' = TRUE /\ step <= 23
  /\ \E e \in PipelineEvents :
       /\ Pushed(Frame("Raise", e, 0))
       /\ notification' = IF e \in UnnotifiedEvents THEN notification ELSE e

RunsEndpoint ==
  /\ exn = NoException /\ stack = <<>> /\ Quiet
  /\ UNCHANGED <<exn, isEnded, notification, step, failure>> /\ raising' = TRUE
  /\ step = 16 /\ isEnded = FALSE
  /\ Pushed(Frame("Endpoint", "none", 0))
  /\ endFeature' = IF endpoint = "handler" THEN "throwing" ELSE "application"

Finishes ==
  /\ exn = NoException /\ stack = <<>> /\ Quiet
  /\ UNCHANGED <<notification, endFeature, step, failure>> /\ step = 24 /\ raising' = TRUE
  /\ \/ /\ endFeature = "throwing" /\ UNCHANGED <<stack, isEnded>>
        /\ exn' = Exception("requestEnd", 0, <<>>)
     \/ isEnded /\ isEnded' = TRUE /\ UNCHANGED <<stack, exn>>
     \/ /\ isEnded = FALSE /\ isEnded' = TRUE /\ UNCHANGED exn
        /\ Pushed(Frame("End", "none", 1))

\* The middleware goes on, or an exception leaves it.
Moved ==
  /\ exn = NoException /\ stack = <<>> /\ Quiet
  /\ UNCHANGED <<stack, exn, isEnded, notification, endFeature, failure>>
  /\ step' \in step + 1 .. 24 /\ raising' = FALSE

SessionFails ==
  /\ exn = NoException /\ stack = <<>> /\ Quiet
  /\ UNCHANGED <<stack, isEnded, notification, endFeature, step, raising, failure>>
  /\ step <= 21 /\ exn' = Exception("session", 0, <<>>)

Fails ==
  /\ exn # NoException /\ stack = <<>> /\ Quiet
  /\ UNCHANGED <<stack, isEnded, notification, endFeature>>
  /\ step < 24 /\ step' = 24 /\ raising' = FALSE
  /\ failure' = exn /\ exn' = NoException

Ends ==
  /\ stack = <<>> /\ step = 24 /\ raising /\ Quiet
  /\ UNCHANGED <<stack, isEnded, notification, endFeature>>
  /\ step' = 25 /\ raising' = FALSE
  /\ failure' = (IF exn # NoException THEN exn ELSE failure) /\ exn' = NoException

Stays ==
  /\ Quiet
  /\ UNCHANGED <<stack, exn, isEnded, notification, endFeature, step, raising, failure>>

PipelineMoves ==
  RaisesEvent \/ RunsEndpoint \/ Finishes \/ Moved \/ SessionFails \/ Fails \/ Ends

LEMMA MiddlewareMoves ==
  ASSUME IInv, stack' \in Seq(Frames), PipelineStep
  PROVE  PipelineMoves
<1> USE DEF Quiet, SameCounts
<1>0. /\ stack \in Seq(Frames) /\ isEnded \in BOOLEAN /\ count \in [Counted -> Nat]
      /\ step \in 1 .. 25 /\ raising \in BOOLEAN
  BY DEF IInv, Types
<1>1. 1 .. Len(Pipeline) = Positions
  BY DEF Pipeline, Positions
<1>2. ASSUME NEW i \in Positions, RaisePipelineEvent(i) PROVE RaisesEvent
  <2>1. /\ exn = NoException /\ stack = <<>> /\ step = i /\ raising' = TRUE
        /\ Pipeline[i] \in PipelineEvents
        /\ stack' = <<Frame("Raise", Pipeline[i], 0)>> \o stack
        /\ UNCHANGED <<exn, isEnded, endFeature, step, failure>>
        /\ UNCHANGED <<errors, endpoint, buffered, completed, calls, calm>>
    BY <1>2 DEF RaisePipelineEvent, AtStep, Push, responseVars, callVars
  <2>2. Frame("Raise", Pipeline[i], 0) \in Frames
    BY <2>1, NewFrames DEF Procs, Events
  <2>3. Pushed(Frame("Raise", Pipeline[i], 0))
    BY <1>0, <2>1, <2>2, Shapes
  <2>4. Notify(Pipeline[i])
    BY <1>2 DEF RaisePipelineEvent
  <2>5. \A e \in EndEvents : e \in Counted /\ e # Pipeline[i]
    BY EventKinds
  <2>6. SameCounts
    BY <1>0, <2>4, <2>5 DEF Notify
  <2>7. step <= 23
    BY <2>1 DEF Positions
  <2> QED
    BY <2>1, <2>3, <2>4, <2>6, <2>7 DEF RaisesEvent, Notify
<1>3. ASSUME NEW i \in Positions, RunEndpoint(i) PROVE RunsEndpoint
  <2>1. /\ exn = NoException /\ stack = <<>> /\ step = i /\ raising' = TRUE /\ ~raising
        /\ Pipeline[i] = "Endpoint"
        /\ stack' = <<Frame("Endpoint", "none", 0)>> \o stack
    BY <1>3 DEF RunEndpoint, AtStep, Push
  <2>2. step = 16 /\ isEnded = FALSE
    BY <1>0, <2>1, Checks DEF IInv, PositionInv
  <2>3. Pushed(Frame("Endpoint", "none", 0))
    BY <1>0, <2>1, Shapes, NewCalls
  <2> QED
    BY <1>3, <2>1, <2>2, <2>3 DEF RunEndpoint, RunsEndpoint, featureVars, callVars
<1>4. ASSUME NEW i \in Positions, LeaveEvent(i) \/ LoadSession(i) \/ LeaveEndpoint(i) \/ CommitSession(i)
      PROVE  Moved
  <2>1. exn = NoException /\ stack = <<>> /\ step = i
    BY <1>4 DEF LeaveEvent, LoadSession, LeaveEndpoint, CommitSession, AtStep
  <2>2. step' \in i + 1 .. 24 /\ raising' = FALSE
    <3>1. i + 1 \in i + 1 .. 24
      BY DEF Positions
    <3>2. Pipeline[i] \in PipelineEvents => ReturnFrom(i) \in i + 1 .. 24
      <4>1. /\ i < 10 => ReturnFrom(i) = 24
            /\ i \in 14 .. 17 => ReturnFrom(i) = 18
            /\ i > 21 => ReturnFrom(i) = 24
            /\ i \in (10 .. 13) \cup (18 .. 21) => ReturnFrom(i) = 21
        BY Returns
      <4>2. Pipeline[i] \in PipelineEvents => i # 21
        BY Checks
      <4>3. i \in 1 .. 23
        BY DEF Positions
      <4> QED
        BY <4>1, <4>2, <4>3
    <3> QED
      BY <1>4, <3>1, <3>2 DEF LeaveEvent, LoadSession, LeaveEndpoint, CommitSession, GoTo
  <2>3. /\ UNCHANGED <<stack, exn, isEnded, notification, endFeature, failure>> /\ Quiet
    BY <1>4
    DEF LeaveEvent, LoadSession, LeaveEndpoint, CommitSession, featureVars, responseVars, callVars
  <2> QED
    BY <2>1, <2>2, <2>3 DEF Moved
<1>5. ASSUME NEW i \in Positions, SessionThrows(i) PROVE SessionFails
  <2>1. /\ exn = NoException /\ stack = <<>> /\ step = i
        /\ Pipeline[i] = "Load" \/ Pipeline[i] = "Commit"
    BY <1>5 DEF SessionThrows, AtStep
  <2>2. step <= 21
    BY <2>1, Checks
  <2> QED
    BY <1>5, <2>1, <2>2
    DEF SessionThrows, SessionFails, featureVars, responseVars, requestVars, callVars
<1>6. CASE LeavePipeline
  BY <1>6, PipelinePositions
  DEF LeavePipeline, GoTo, PipelineMoves, Fails, featureVars, responseVars, callVars
<1>7. CASE RequestDone
  BY <1>7, PipelinePositions
  DEF RequestDone, GoTo, PipelineMoves, Ends, featureVars, responseVars, callVars
<1>8. CASE EndInFinally
  <2>1. /\ exn = NoException /\ stack = <<>> /\ step = 24 /\ raising' = TRUE
        /\ Quiet /\ UNCHANGED <<notification, endFeature, step, failure>>
    BY <1>8, PipelinePositions DEF EndInFinally, AtStep, responseVars, callVars
  <2>2. CASE endFeature = "throwing" \/ isEnded
    BY <1>8, <2>1, <2>2 DEF EndInFinally, Finishes, PipelineMoves
  <2>3. CASE endFeature # "throwing" /\ ~isEnded
    <3>1. stack' = <<Frame("End", "none", 1)>> \o stack /\ isEnded' = TRUE /\ UNCHANGED exn
      BY <1>8, <2>3 DEF EndInFinally, Push
    <3>2. Pushed(Frame("End", "none", 1))
      BY <1>0, <3>1, Shapes, NewCalls
    <3> QED
      BY <1>0, <2>1, <2>3, <3>1, <3>2 DEF Finishes, PipelineMoves
  <2> QED
    BY <2>2, <2>3
<1> QED
  BY <1>1, <1>2, <1>3, <1>4, <1>5, <1>6, <1>7, <1>8 DEF PipelineStep, PipelineMoves

\* Every step is one of these.
LEMMA Moves ==
  ASSUME IInv, [Next]_vars
  PROVE  /\ IInv' /\ Stacks
         /\ CallMoves \/ PipelineMoves \/ Stays
<1>1. IInv' /\ stack \in Seq(Frames) /\ stack' \in Seq(Frames)
  BY StepHolds DEF IInv, Types
<1>2. Stacks
  BY <1>1, Shapes
<1>3. ASSUME Terminating \/ UNCHANGED vars PROVE Stays
  BY <1>3 DEF Terminating, vars, Stays, Quiet, SameCounts
<1> QED
  BY <1>1, <1>2, <1>3, UserMoves, FeatureMoves, MiddlewareMoves DEF Next, CallMoves

-----------------------------------------------------------------------------
(* The recorded errors.  Each exception that is thrown or added has an id   *)
(* of its own; the one in flight was recorded, or is new, or is the         *)
(* aggregate of those recorded.                                             *)

Simple == [kind : {"thrown", "added", "requestEnd"}, id : Nat, inner : {<<>>}]

IsException(e) ==
  \/ e \in Simple \/ e = NoException \/ e = Exception("session", 0, <<>>)
  \/ e = Exception("aggregate", 0, e.inner) /\ e.inner \in Seq(Simple)

Fresh(e) == e \in Simple /\ e.id <= calls /\ \A i \in DOMAIN errors : errors[i] # e

ErrorsInv ==
  /\ errors \in Seq(Simple) /\ calls \in Nat
  /\ \A i \in DOMAIN errors : errors[i].id <= calls
  /\ \A i, j \in DOMAIN errors : errors[i] = errors[j] => i = j
  /\ IsException(exn) /\ IsException(failure)
  /\ exn # NoException /\ stack # <<>> => IsReentrant(exn) \/ Fresh(exn)

LEMMA ThrownErrorsAreKnown ==
  ASSUME errors \in Seq(Simple)
  PROVE  IsException(ThrownErrors) /\ (ThrownErrors # NoException => IsReentrant(ThrownErrors))
<1>1. Len(errors) \in Nat /\ DOMAIN errors = 1 .. Len(errors)
  BY LenProperties
<1>2. CASE Len(errors) = 0
  BY <1>2 DEF ThrownErrors, IsException
<1>3. CASE Len(errors) = 1
  <2>1. errors[1] \in Simple
    BY <1>1, <1>3, ElementOfSeq
  <2>2. ThrownErrors = errors[1]
    BY <1>3 DEF ThrownErrors
  <2> QED
    BY <1>3, <2>1, <2>2 DEF IsException, IsReentrant
<1>4. CASE Len(errors) > 1
  <2>1. ThrownErrors = Exception("aggregate", 0, errors)
    BY <1>1, <1>4 DEF ThrownErrors
  <2>2. ThrownErrors.kind = "aggregate" /\ ThrownErrors.inner = errors
    BY <2>1 DEF Exception
  <2> QED
    BY <1>4, <2>1, <2>2 DEF IsException, IsReentrant
<1> QED
  BY <1>1, <1>2, <1>3, <1>4

LEMMA NewErrors ==
  ASSUME ErrorsInv
  PROVE  /\ \A kind \in {"thrown", "added", "requestEnd"} :
              /\ Exception(kind, calls + 1, <<>>) \in Simple
              /\ Exception(kind, calls + 1, <<>>).id = calls + 1
              /\ \A i \in DOMAIN errors : errors[i] # Exception(kind, calls + 1, <<>>)
         /\ Exception("requestEnd", 0, <<>>) \in Simple
<1>1. ASSUME NEW kind \in {"thrown", "added", "requestEnd"}, NEW n \in Nat
      PROVE  Exception(kind, n, <<>>) \in Simple /\ Exception(kind, n, <<>>).id = n
  BY DEF Exception, Simple
<1>2. \A i \in DOMAIN errors : errors[i] \in Simple /\ errors[i].id <= calls /\ errors[i].id \in Nat
  <2>1. \A i \in DOMAIN errors : errors[i] \in Simple
    BY ElementOfSeq, LenProperties DEF ErrorsInv
  <2> QED
    BY <2>1 DEF ErrorsInv, Simple
<1>3. calls \in Nat /\ calls + 1 \in Nat
  BY DEF ErrorsInv
<1> QED
  BY <1>1, <1>2, <1>3

\* An error is appended that was not recorded before.
LEMMA RecordKeeps ==
  ASSUME ErrorsInv, NEW e \in Simple, e.id <= calls', calls' \in {calls, calls + 1},
         \A i \in DOMAIN errors : errors[i] # e, errors' = Append(errors, e)
  PROVE  /\ errors' \in Seq(Simple) /\ calls' \in Nat
         /\ \A i \in DOMAIN errors' : errors'[i].id <= calls'
         /\ \A i, j \in DOMAIN errors' : errors'[i] = errors'[j] => i = j
<1>1. errors \in Seq(Simple) /\ calls \in Nat /\ calls' \in Nat /\ calls <= calls'
  BY DEF ErrorsInv
<1>2. /\ errors' \in Seq(Simple) /\ Len(errors) \in Nat /\ Len(errors') = Len(errors) + 1
      /\ DOMAIN errors = 1 .. Len(errors) /\ DOMAIN errors' = 1 .. Len(errors) + 1
      /\ errors'[Len(errors) + 1] = e
      /\ \A i \in 1 .. Len(errors) : errors'[i] = errors[i]
  <2>1. /\ errors' \in Seq(Simple) /\ Len(errors') = Len(errors) + 1
        /\ errors'[Len(errors) + 1] = e
        /\ \A i \in 1 .. Len(errors) : errors'[i] = errors[i]
    BY <1>1, AppendProperties
  <2> QED
    BY <1>1, <2>1, LenProperties
<1>3. \A i \in DOMAIN errors' : i \in DOMAIN errors \/ i = Len(errors) + 1
  BY <1>2
<1>4. \A i \in DOMAIN errors : errors[i].id \in Nat /\ errors[i].id <= calls
  <2>1. \A i \in DOMAIN errors : errors[i] \in Simple
    BY <1>1, <1>2, ElementOfSeq
  <2> QED
    BY <2>1 DEF ErrorsInv, Simple
<1>5. \A i \in DOMAIN errors' : errors'[i].id <= calls'
  BY <1>1, <1>2, <1>3, <1>4
<1>6. \A i, j \in DOMAIN errors' : errors'[i] = errors'[j] => i = j
  BY <1>2, <1>3 DEF ErrorsInv
<1> QED
  BY <1>1, <1>2, <1>5, <1>6

LEMMA ErrorsStep ==
  ASSUME IInv, ErrorsInv, [Next]_vars
  PROVE  ErrorsInv'
<1>0. Stacks /\ (CallMoves \/ PipelineMoves \/ Stays)
  BY Moves
<1>1. /\ errors \in Seq(Simple) /\ calls \in Nat /\ IsException(exn) /\ IsException(failure)
      /\ IsException(NoException) /\ IsException(Exception("session", 0, <<>>))
      /\ \A e \in Simple : IsException(e)
      /\ \A i \in DOMAIN errors : errors[i].id \in Nat /\ errors[i].id <= calls
  <2>1. \A i \in DOMAIN errors : errors[i] \in Simple
    BY ElementOfSeq, LenProperties DEF ErrorsInv
  <2> QED
    BY <2>1 DEF ErrorsInv, IsException, Simple
<1>2. ASSUME errors' = errors, calls' \in {calls, calls + 1},
             IsException(exn'), IsException(failure'),
             exn' # NoException /\ stack' # <<>> =>
               \/ exn' = ThrownErrors
               \/ exn' = exn /\ stack # <<>>
               \/ Fresh(exn)'
      PROVE  ErrorsInv'
  <2>1. /\ errors' \in Seq(Simple) /\ calls' \in Nat
        /\ \A i \in DOMAIN errors' : errors'[i].id <= calls'
        /\ \A i, j \in DOMAIN errors' : errors'[i] = errors'[j] => i = j
    BY <1>1, <1>2 DEF ErrorsInv
  <2>2. ASSUME exn' # NoException, stack' # <<>>
        PROVE  IsReentrant(exn)' \/ Fresh(exn)'
    <3>1. CASE exn' = ThrownErrors
      BY <1>1, <1>2, <2>2, <3>1, ThrownErrorsAreKnown DEF IsReentrant
    <3>2. CASE exn' = exn /\ stack # <<>>
      <4>1. IsReentrant(exn) \/ Fresh(exn)
        BY <2>2, <3>2 DEF ErrorsInv
      <4>2. CASE IsReentrant(exn)
        BY <1>2, <3>2, <4>2 DEF IsReentrant
      <4>3. CASE Fresh(exn)
        <5>1. exn.id \in Nat
          BY <4>3 DEF Fresh, Simple
        <5> QED
          BY <1>1, <1>2, <3>2, <4>3, <5>1 DEF Fresh
      <4> QED
        BY <4>1, <4>2, <4>3
    <3> QED
      BY <1>2, <2>2, <3>1, <3>2
  <2>3. (exn' # NoException /\ stack' # <<>>) => (IsReentrant(exn)' \/ Fresh(exn)')
    BY <2>2
  <2>4. IsException(exn)' /\ IsException(failure)'
    BY <1>2 DEF IsException, NoException, Exception, Simple
  <2> QED
    BY <2>1, <2>3, <2>4 DEF ErrorsInv, NoException, Exception
<1>3. ASSUME UserThrows PROVE ErrorsInv'
  <2>1. PICK kind \in {"thrown", "requestEnd"} : exn' = Exception(kind, calls + 1, <<>>)
    BY <1>3 DEF UserThrows
  <2>2. calls' = calls + 1 /\ errors' = errors /\ failure' = failure
    BY <1>3 DEF UserThrows, Waiting
  <2>3. Fresh(exn)' /\ IsException(exn')
    BY <1>1, <2>1, <2>2, NewErrors DEF Fresh
  <2> QED
    BY <1>1, <1>2, <2>2, <2>3
<1>4. ASSUME UserNotes PROVE ErrorsInv'
  <2>1. exn' = NoException /\ calls' = calls + 1 /\ failure' = failure
    BY <1>4 DEF UserNotes, Waiting
  <2>2. CASE errors' = errors
    BY <1>1, <1>2, <2>1, <2>2
  <2>3. /\ errors' \in Seq(Simple) /\ calls' \in Nat
        /\ \A i \in DOMAIN errors' : errors'[i].id <= calls'
        /\ \A i, j \in DOMAIN errors' : errors'[i] = errors'[j] => i = j
    <3>1. CASE errors' = errors
      BY <1>1, <2>1, <3>1 DEF ErrorsInv
    <3>2. CASE errors' = <<>>
      <4>1. errors' \in Seq(Simple) /\ DOMAIN errors' = {}
        BY <3>2, EmptySeq, LenProperties
      <4> QED
        BY <1>1, <2>1, <4>1
    <3>3. CASE errors' = Append(errors, Exception("added", calls', <<>>))
      <4> DEFINE e == Exception("added", calls + 1, <<>>)
      <4>1. e \in Simple /\ e.id = calls + 1 /\ \A i \in DOMAIN errors : errors[i] # e
        BY NewErrors
      <4>2. errors' = Append(errors, e) /\ e.id <= calls'
        BY <1>1, <2>1, <3>3, <4>1
      <4> HIDE DEF e
      <4> QED
        BY <2>1, <4>1, <4>2, RecordKeeps
    <3> QED
      BY <1>4, <3>1, <3>2, <3>3 DEF UserNotes
  <2>4. IsException(exn)' /\ IsException(failure)'
    BY <1>1, <2>1 DEF IsException, NoException, Exception, Simple
  <2> QED
    BY <2>1, <2>3, <2>4 DEF ErrorsInv, NoException, Exception
<1>5. ASSUME Caught PROVE ErrorsInv'
  <2>1. /\ exn # NoException /\ stack # <<>> /\ ~IsReentrant(exn)
        /\ errors' = Append(errors, exn) /\ exn' = NoException /\ calls' = calls /\ failure' = failure
    <3>1. Len(stack) > 0
      BY <1>5 DEF Caught, Replaced
    <3>2. stack # <<>>
      BY <1>0, <3>1 DEF Stacks
    <3> QED
      BY <1>5, <3>2 DEF Caught, Waiting
  <2>2. Fresh(exn)
    BY <2>1 DEF ErrorsInv
  <2>3. /\ errors' \in Seq(Simple) /\ calls' \in Nat
        /\ \A i \in DOMAIN errors' : errors'[i].id <= calls'
        /\ \A i, j \in DOMAIN errors' : errors'[i] = errors'[j] => i = j
    BY <2>1, <2>2, RecordKeeps DEF Fresh
  <2>4. IsException(exn)' /\ IsException(failure)'
    BY <1>1, <2>1 DEF IsException, NoException, Exception, Simple
  <2> QED
    BY <2>1, <2>3, <2>4 DEF ErrorsInv, NoException, Exception
<1>6. ASSUME UserEnters \/ Advanced \/ RaisesEnd \/ RaisesPreSend \/ Completes \/ Drains \/ CaughtEnd
      PROVE  ErrorsInv'
  <2>1. /\ errors' = errors /\ calls' \in {calls, calls + 1} /\ failure' = failure
        /\ exn' = NoException
    BY <1>6
    DEF UserEnters, Advanced, RaisesEnd, RaisesPreSend, Completes, Drains, CaughtEnd, Inner, Waiting
  <2> QED
    BY <1>1, <1>2, <2>1
<1>7. ASSUME Returned \/ Unwound PROVE ErrorsInv'
  <2>1. stack # <<>>
    <3>1. Len(stack) > 0
      BY <1>7 DEF Returned, Unwound, Popped
    <3> QED
      BY <1>0, <3>1 DEF Stacks
  <2>2. errors' = errors /\ calls' = calls /\ failure' = failure
    BY <1>7 DEF Returned, Unwound, Waiting
  <2>3. exn' \in {NoException, ThrownErrors, exn}
    BY <1>7 DEF Returned, Unwound
  <2> QED
    BY <1>1, <1>2, <2>1, <2>2, <2>3, ThrownErrorsAreKnown
<1>8. ASSUME PipelineMoves \/ Stays PROVE ErrorsInv'
  <2>1. errors' = errors /\ calls' = calls
    BY <1>8
    DEF PipelineMoves, RaisesEvent, RunsEndpoint, Finishes, Moved, SessionFails, Fails, Ends, Stays, Quiet
  <2>2. exn' \in {exn, NoException, Exception("session", 0, <<>>), Exception("requestEnd", 0, <<>>)}
    BY <1>8
    DEF PipelineMoves, RaisesEvent, RunsEndpoint, Finishes, Moved, SessionFails, Fails, Ends, Stays
  <2>3. failure' \in {failure, exn}
    BY <1>8
    DEF PipelineMoves, RaisesEvent, RunsEndpoint, Finishes, Moved, SessionFails, Fails, Ends, Stays
  <2>4. exn' = NoException \/ stack' = <<>> \/ (exn' = exn /\ stack' = stack)
    BY <1>8
    DEF PipelineMoves, RaisesEvent, RunsEndpoint, Finishes, Moved, SessionFails, Fails, Ends, Stays
  <2> QED
    BY <1>1, <1>2, <2>1, <2>2, <2>3, <2>4, NewErrors
<1> QED
  BY <1>0, <1>3, <1>4, <1>5, <1>6, <1>7, <1>8 DEF CallMoves

-----------------------------------------------------------------------------
(* The calls under way, and how they nest.                                  *)

PcInv == \A i \in DOMAIN stack : stack[i].pc \in 0 .. 5

\* The events that end a request are raised by EndAsync, which is in the last of
\* its places while it completes the response.
StructInv ==
  /\ \A i \in DOMAIN stack : stack[i].proc \notin {"Raise", "Error"} => stack[i].event = "none"
  /\ \A i \in DOMAIN stack : stack[i].event \in EndEvents => i < Len(stack) /\ stack[i + 1].proc = "End"
  /\ \A i \in DOMAIN stack : i > 1 /\ stack[i].proc = "End" =>
       \/ stack[i - 1].event \in EndEvents
       \/ stack[i - 1].proc = "Complete" /\ stack[i].pc = 5
  /\ \A i \in DOMAIN stack : stack[i].proc = "End" => stack[i].pc \in 1 .. 5

NotifInv ==
  ~isEnded => \A i \in DOMAIN stack :
    stack[i].proc = "Raise" /\ stack[i].event \notin UnnotifiedEvents => notification = stack[i].event

LEMMA NoFrames ==
  ASSUME Stacks, stack' = <<>>
  PROVE  Len(stack') = 0 /\ \A i \in DOMAIN stack' : FALSE
<1>1. Len(stack') = 0 /\ DOMAIN stack' = 1 .. Len(stack')
  BY DEF Stacks
<1> QED
  BY <1>1

\* Each call after a step is the new one, the one that called it, or one that
\* was under way before.
LEMMA Places ==
  ASSUME Stacks
  PROVE  /\ Popped => \A i \in DOMAIN stack' : i + 1 \in DOMAIN stack /\ stack'[i] = stack[i + 1]
         /\ \A f : Pushed(f) => \A i \in DOMAIN stack' :
              \/ i = 1 /\ stack'[i] = f
              \/ i > 1 /\ i - 1 \in DOMAIN stack /\ stack'[i] = stack[i - 1]
         /\ \A f : Replaced(f) => \A i \in DOMAIN stack' :
              \/ i = 1 /\ stack'[i] = f
              \/ i > 1 /\ i \in DOMAIN stack /\ stack'[i] = stack[i]
         /\ \A f, g : Called(f, g) => \A i \in DOMAIN stack' :
              \/ i = 1 /\ stack'[i] = f
              \/ i = 2 /\ stack'[i] = g
              \/ i > 2 /\ i - 1 \in DOMAIN stack /\ stack'[i] = stack[i - 1]
<1>0. /\ Len(stack) \in Nat /\ DOMAIN stack = 1 .. Len(stack)
      /\ Len(stack') \in Nat /\ DOMAIN stack' = 1 .. Len(stack')
  BY DEF Stacks
<1>1. Popped => \A i \in DOMAIN stack' : i + 1 \in DOMAIN stack /\ stack'[i] = stack[i + 1]
  BY <1>0 DEF Popped
<1>2. ASSUME NEW f, Pushed(f), NEW i \in DOMAIN stack'
      PROVE  \/ i = 1 /\ stack'[i] = f
             \/ i > 1 /\ i - 1 \in DOMAIN stack /\ stack'[i] = stack[i - 1]
  <2>1. i = 1 \/ (i > 1 /\ i - 1 \in DOMAIN stack /\ i \in 2 .. Len(stack) + 1)
    BY <1>0, <1>2 DEF Pushed
  <2> QED
    BY <1>2, <2>1 DEF Pushed
<1>3. ASSUME NEW f, Replaced(f), NEW i \in DOMAIN stack'
      PROVE  \/ i = 1 /\ stack'[i] = f
             \/ i > 1 /\ i \in DOMAIN stack /\ stack'[i] = stack[i]
  <2>1. i = 1 \/ (i > 1 /\ i \in DOMAIN stack /\ i \in 2 .. Len(stack))
    BY <1>0, <1>3 DEF Replaced
  <2> QED
    BY <1>3, <2>1 DEF Replaced
<1>4. ASSUME NEW f, NEW g, Called(f, g), NEW i \in DOMAIN stack'
      PROVE  \/ i = 1 /\ stack'[i] = f
             \/ i = 2 /\ stack'[i] = g
             \/ i > 2 /\ i - 1 \in DOMAIN stack /\ stack'[i] = stack[i - 1]
  <2>1. i = 1 \/ i = 2 \/ (i > 2 /\ i - 1 \in DOMAIN stack /\ i \in 3 .. Len(stack) + 1)
    BY <1>0, <1>4 DEF Called
  <2> QED
    BY <1>4, <2>1 DEF Called
<1> QED
  BY <1>1, <1>2, <1>3, <1>4

LEMMA FrameFields ==
  \A proc, event, pc :
    /\ Frame(proc, event, pc).proc = proc
    /\ Frame(proc, event, pc).event = event
    /\ Frame(proc, event, pc).pc = pc
  BY DEF Frame

LEMMA OtherEvents ==
  /\ "none" \notin EndEvents
  /\ \A e \in PipelineEvents : e \notin EndEvents
  /\ \A e \in PreSendEvents : e \notin EndEvents /\ e \in UnnotifiedEvents
<1>1. \A e \in PipelineEvents : e \notin EndEvents
  BY EventKinds
<1> QED
  BY <1>1 DEF EndEvents, PreSendEvents, UnnotifiedEvents

LEMMA PcStep ==
  ASSUME IInv, PcInv, [Next]_vars
  PROVE  PcInv'
<1>0. Stacks /\ (CallMoves \/ PipelineMoves \/ Stays)
  BY Moves
<1>1. ASSUME stack' = stack PROVE PcInv'
  BY <1>1 DEF PcInv
<1>2. ASSUME Popped PROVE PcInv'
  BY <1>0, <1>2, Places DEF PcInv
<1>3. ASSUME NEW f, f.pc \in 0 .. 5, Pushed(f) \/ Replaced(f) PROVE PcInv'
  BY <1>0, <1>3, Places DEF PcInv
<1>4. ASSUME NEW f, NEW g, f.pc \in 0 .. 5, g.pc \in 0 .. 5, Called(f, g) PROVE PcInv'
  BY <1>0, <1>4, Places DEF PcInv
<1>5. CASE CallMoves
  <2>1. ASSUME UserThrows \/ UserNotes PROVE stack' = stack
    BY <2>1 DEF UserThrows, UserNotes
  <2>2. ASSUME Returned \/ Unwound PROVE Popped
    BY <2>2 DEF Returned, Unwound
  <2>3. ASSUME UserEnters \/ Advanced \/ Caught \/ CaughtEnd
        PROVE  Popped \/ \E f : f.pc \in 0 .. 5 /\ (Pushed(f) \/ Replaced(f))
    BY <2>3, FrameFields DEF UserEnters, Advanced, Caught, CaughtEnd
  <2>4. ASSUME RaisesEnd \/ RaisesPreSend \/ Completes \/ Drains
        PROVE  \E f, g : f.pc \in 0 .. 5 /\ g.pc \in 0 .. 5 /\ Called(f, g)
    BY <2>4, FrameFields DEF RaisesEnd, RaisesPreSend, Completes, Drains
  <2> QED
    BY <1>1, <1>2, <1>3, <1>4, <1>5, <2>1, <2>2, <2>3, <2>4 DEF CallMoves
<1>6. CASE PipelineMoves \/ Stays
  <2>1. stack' = stack \/ \E f : f.pc \in 0 .. 5 /\ Pushed(f)
    BY <1>6, FrameFields
    DEF PipelineMoves, RaisesEvent, RunsEndpoint, Finishes, Moved, SessionFails, Fails, Ends, Stays
  <2> QED
    BY <1>1, <1>3, <2>1
<1> QED
  BY <1>0, <1>5, <1>6

LEMMA NotifStep ==
  ASSUME IInv, NotifInv, [Next]_vars
  PROVE  NotifInv'
<1>0. Stacks /\ (CallMoves \/ PipelineMoves \/ Stays)
  BY Moves
<1>1. ASSUME stack' = stack, notification' = notification, isEnded' = isEnded PROVE NotifInv'
  BY <1>1 DEF NotifInv
<1>2. ASSUME isEnded' = TRUE PROVE NotifInv'
  BY <1>2 DEF NotifInv
<1>3. ASSUME Popped, notification' = notification, isEnded' = isEnded PROVE NotifInv'
  BY <1>0, <1>3, Places DEF NotifInv
<1>4. ASSUME NEW f, Pushed(f) \/ Replaced(f), notification' = notification, isEnded' = isEnded,
             f.proc # "Raise"
      PROVE  NotifInv'
  BY <1>0, <1>4, Places DEF NotifInv
<1>5. ASSUME NEW f, NEW g, Called(f, g), notification' = notification, isEnded' = isEnded,
             f.proc # "Raise" \/ f.event \in UnnotifiedEvents, g.proc # "Raise"
      PROVE  NotifInv'
  BY <1>0, <1>5, Places DEF NotifInv
<1>6. CASE CallMoves
  <2>1. ASSUME UserThrows \/ UserNotes PROVE NotifInv'
    BY <1>1, <2>1 DEF UserThrows, UserNotes
  <2>2. ASSUME Returned \/ Unwound PROVE NotifInv'
    BY <1>3, <2>2 DEF Returned, Unwound
  <2>3. ASSUME UserEnters PROVE NotifInv'
    <3>1. PICK proc \in {"End", "Flush", "Start"} :
             /\ Pushed(Frame(proc, "none", 1)) /\ notification' = notification
             /\ isEnded' = TRUE \/ isEnded' = isEnded
      BY <2>3 DEF UserEnters
    <3> QED
      BY <1>2, <1>4, <3>1, FrameFields
  <2>4. ASSUME Advanced \/ Caught
        PROVE  /\ notification' = notification /\ isEnded' = isEnded
               /\ \E f : Replaced(f) /\ f.proc # "Raise"
    BY <2>4, FrameFields DEF Advanced, Caught, Inner, SameCaller
  <2>5. ASSUME CaughtEnd PROVE isEnded' = TRUE
    BY <2>5 DEF CaughtEnd
  <2>6. ASSUME RaisesEnd PROVE isEnded' = TRUE
    <3>1. stack[1].proc = "End" /\ 1 \in DOMAIN stack /\ isEnded' = isEnded
      BY <1>0, <2>6 DEF RaisesEnd, Called, Stacks, Inner
    <3>2. isEnded /\ isEnded \in BOOLEAN
      BY <3>1 DEF IInv, EndInv, EndOK, Types
    <3> QED
      BY <3>1, <3>2
  <2>7. ASSUME RaisesPreSend \/ Completes \/ Drains
        PROVE  /\ notification' = notification /\ isEnded' = isEnded
               /\ \E f, g : /\ Called(f, g) /\ g.proc # "Raise"
                            /\ f.proc # "Raise" \/ f.event \in UnnotifiedEvents
    <3>1. CASE RaisesPreSend
      <4>1. PICK g \in Frames, e \in PreSendEvents :
               Called(Frame("Raise", e, 0), g) /\ g.proc # "Raise"
        BY <3>1 DEF RaisesPreSend, SameCaller
      <4>2. Frame("Raise", e, 0).event \in UnnotifiedEvents
        BY FrameFields, OtherEvents
      <4> QED
        BY <3>1, <4>1, <4>2 DEF RaisesPreSend, Inner
    <3>2. CASE Completes \/ Drains
      BY <3>2, FrameFields DEF Completes, Drains, Inner, SameCaller
    <3> QED
      BY <2>7, <3>1, <3>2
  <2> QED
    BY <1>2, <1>4, <1>5, <1>6, <2>1, <2>2, <2>3, <2>4, <2>5, <2>6, <2>7 DEF CallMoves
<1>7. CASE PipelineMoves \/ Stays
  <2>1. CASE RaisesEvent
    <3>1. PICK e \in PipelineEvents :
             /\ Pushed(Frame("Raise", e, 0)) /\ stack = <<>>
             /\ notification' = IF e \in UnnotifiedEvents THEN notification ELSE e
      BY <2>1 DEF RaisesEvent
    <3>2. \A i \in DOMAIN stack' : stack'[i] = Frame("Raise", e, 0)
      BY <1>0, <3>1 DEF Stacks, Pushed
    <3> QED
      BY <3>1, <3>2, FrameFields DEF NotifInv
  <2>2. CASE RunsEndpoint
    BY <1>4, <2>2, FrameFields DEF RunsEndpoint
  <2>3. CASE Finishes
    BY <1>1, <1>2, <2>3 DEF Finishes
  <2>4. CASE Moved \/ SessionFails \/ Fails \/ Ends \/ Stays
    BY <1>1, <2>4 DEF Moved, SessionFails, Fails, Ends, Stays
  <2> QED
    BY <1>7, <2>1, <2>2, <2>3, <2>4 DEF PipelineMoves
<1> QED
  BY <1>0, <1>6, <1>7

LEMMA StructStep ==
  ASSUME IInv, StructInv, [Next]_vars
  PROVE  StructInv'
<1>0. Stacks /\ (CallMoves \/ PipelineMoves \/ Stays)
  BY Moves
<1>00. /\ Len(stack) \in Nat /\ DOMAIN stack = 1 .. Len(stack)
       /\ Len(stack') \in Nat /\ DOMAIN stack' = 1 .. Len(stack')
       /\ Len(stack) > 0 => Top = stack[1] /\ 1 \in DOMAIN stack
  BY <1>0 DEF Stacks
<1>1. ASSUME stack' = stack PROVE StructInv'
  BY <1>1 DEF StructInv
<1>2. ASSUME Popped PROVE StructInv'
  <2>1. Len(stack') = Len(stack) - 1 /\ \A i \in DOMAIN stack' : i + 1 \in DOMAIN stack /\ stack'[i] = stack[i + 1]
    BY <1>0, <1>2, Places DEF Popped
  <2>2. ASSUME NEW i \in DOMAIN stack', stack'[i].event \in EndEvents
        PROVE  i < Len(stack') /\ stack'[i + 1].proc = "End"
    <3>1. i + 1 < Len(stack) /\ stack[(i + 1) + 1].proc = "End"
      BY <2>1, <2>2 DEF StructInv
    <3>2. i + 1 \in DOMAIN stack'
      BY <1>00, <2>1, <3>1
    <3> QED
      BY <1>00, <2>1, <3>1, <3>2
  <2>3. ASSUME NEW i \in DOMAIN stack', i > 1, stack'[i].proc = "End"
        PROVE  stack'[i - 1].event \in EndEvents \/ (stack'[i - 1].proc = "Complete" /\ stack'[i].pc = 5)
    <3>1. i - 1 \in DOMAIN stack' /\ (i - 1) + 1 = i /\ (i + 1) - 1 = i /\ i + 1 > 1
      BY <1>00, <2>3
    <3>2. stack'[i - 1] = stack[i]
      BY <2>1, <3>1
    <3> QED
      BY <2>1, <2>3, <3>1, <3>2 DEF StructInv
  <2> QED
    BY <2>1, <2>2, <2>3 DEF StructInv
<1>3. ASSUME NEW f, Pushed(f),
             f.proc \notin {"Raise", "Error"} => f.event = "none",
             f.event \notin EndEvents,
             Len(stack) > 0 => Top.proc # "End",
             f.proc = "End" => f.pc \in 1 .. 5
      PROVE  StructInv'
  <2>1. /\ Len(stack') = Len(stack) + 1
        /\ \A i \in DOMAIN stack' : \/ i = 1 /\ stack'[i] = f
                                    \/ i > 1 /\ i - 1 \in DOMAIN stack /\ stack'[i] = stack[i - 1]
    BY <1>0, <1>3, Places DEF Pushed
  <2>2. ASSUME NEW i \in DOMAIN stack', stack'[i].event \in EndEvents
        PROVE  i < Len(stack') /\ stack'[i + 1].proc = "End"
    <3>1. i > 1 /\ i - 1 \in DOMAIN stack /\ stack'[i] = stack[i - 1]
      BY <1>3, <2>1, <2>2
    <3>2. i - 1 < Len(stack) /\ stack[(i - 1) + 1].proc = "End"
      BY <2>2, <3>1 DEF StructInv
    <3>3. i < Len(stack') /\ i + 1 \in DOMAIN stack' /\ (i - 1) + 1 = i /\ (i + 1) - 1 = i /\ i + 1 # 1
      BY <1>00, <2>1, <3>1, <3>2
    <3> QED
      BY <2>1, <3>2, <3>3
  <2>3. ASSUME NEW i \in DOMAIN stack', i > 1, stack'[i].proc = "End"
        PROVE  stack'[i - 1].event \in EndEvents \/ (stack'[i - 1].proc = "Complete" /\ stack'[i].pc = 5)
    <3>1. i - 1 \in DOMAIN stack /\ stack'[i] = stack[i - 1]
      BY <2>1, <2>3
    <3>2. i - 1 # 1
      BY <1>00, <1>3, <2>3, <3>1
    <3>3. i - 1 > 1 /\ i - 1 \in DOMAIN stack'
      BY <1>00, <2>1, <2>3, <3>1, <3>2
    <3> QED
      BY <2>1, <2>3, <3>1, <3>3 DEF StructInv
  <2>4. \A i \in DOMAIN stack' : stack'[i].proc \notin {"Raise", "Error"} => stack'[i].event = "none"
    BY <1>3, <2>1 DEF StructInv
  <2>5. \A i \in DOMAIN stack' : stack'[i].proc = "End" => stack'[i].pc \in 1 .. 5
    BY <1>3, <2>1 DEF StructInv
  <2> QED
    BY <2>2, <2>3, <2>4, <2>5 DEF StructInv
\* The innermost call is replaced by one that raises the same event.
<1>4. ASSUME NEW g, Replaced(g),
             g.proc \notin {"Raise", "Error"} => g.event = "none",
             g.event = Top.event, Top.proc # "Complete", g.proc = "Complete" => Top.proc = "Complete",
             g.proc = "End" => g.pc \in 1 .. 5
      PROVE  StructInv'
  <2>1. /\ Len(stack') = Len(stack) /\ Len(stack) > 0 /\ Top = stack[1] /\ 1 \in DOMAIN stack
        /\ \A i \in DOMAIN stack' : (i = 1 /\ stack'[i] = g) \/ (i > 1 /\ i \in DOMAIN stack /\ stack'[i] = stack[i])
    BY <1>0, <1>00, <1>4, Places DEF Replaced
  <2>2. ASSUME NEW i \in DOMAIN stack', stack'[i].event \in EndEvents
        PROVE  i < Len(stack') /\ stack'[i + 1].proc = "End"
    <3>1. i < Len(stack) /\ stack[i + 1].proc = "End"
      BY <1>4, <2>1, <2>2 DEF StructInv
    <3>2. i + 1 \in DOMAIN stack' /\ i + 1 # 1
      BY <1>00, <2>1, <3>1
    <3> QED
      BY <2>1, <3>1, <3>2
  <2>3. ASSUME NEW i \in DOMAIN stack', i > 1, stack'[i].proc = "End"
        PROVE  stack'[i - 1].event \in EndEvents \/ (stack'[i - 1].proc = "Complete" /\ stack'[i].pc = 5)
    <3>1. i \in DOMAIN stack /\ stack'[i] = stack[i] /\ i - 1 \in DOMAIN stack'
      BY <1>00, <2>1, <2>3
    <3>2. stack[i - 1].event \in EndEvents \/ (stack[i - 1].proc = "Complete" /\ stack[i].pc = 5)
      BY <2>3, <3>1 DEF StructInv
    <3>3. CASE i - 1 = 1
      BY <1>4, <2>1, <3>1, <3>2, <3>3
    <3>4. CASE i - 1 # 1
      BY <2>1, <3>1, <3>2, <3>4
    <3> QED
      BY <3>3, <3>4
  <2> QED
    BY <1>4, <2>1, <2>2, <2>3 DEF StructInv
<1>5. ASSUME NEW f, NEW g, Called(f, g),
             f.proc \notin {"Raise", "Error", "End"} => f.event = "none",
             f.proc # "End",
             g.proc = Top.proc, g.event = Top.event,
             f.event \in EndEvents => g.proc = "End",
             g.proc = "End" => f.event \in EndEvents \/ (f.proc = "Complete" /\ g.pc = 5),
             g.proc = "End" => g.pc \in 1 .. 5
      PROVE  StructInv'
  <2>1. /\ Len(stack') = Len(stack) + 1 /\ Len(stack) > 0 /\ Top = stack[1] /\ 1 \in DOMAIN stack
        /\ stack'[1] = f /\ stack'[2] = g
        /\ \A i \in DOMAIN stack' : \/ i = 1 /\ stack'[i] = f
                                    \/ i = 2 /\ stack'[i] = g
                                    \/ i > 2 /\ i - 1 \in DOMAIN stack /\ stack'[i] = stack[i - 1]
    BY <1>0, <1>00, <1>5, Places DEF Called
  <2>2. ASSUME NEW i \in DOMAIN stack', stack'[i].event \in EndEvents
        PROVE  i < Len(stack') /\ stack'[i + 1].proc = "End"
    <3>1. CASE i = 1
      BY <1>00, <1>5, <2>1, <2>2, <3>1
    <3>2. CASE i # 1
      <4>1. i > 1 /\ i - 1 \in DOMAIN stack /\ stack[i - 1].event \in EndEvents
        BY <1>00, <1>5, <2>1, <2>2, <3>2
      <4>2. i - 1 < Len(stack) /\ stack[(i - 1) + 1].proc = "End"
        BY <4>1 DEF StructInv
      <4>3. /\ i < Len(stack') /\ i + 1 \in DOMAIN stack' /\ (i - 1) + 1 = i
            /\ (i + 1) - 1 = i /\ i + 1 > 2
        BY <1>00, <2>1, <4>1, <4>2
      <4> QED
        BY <2>1, <4>2, <4>3
    <3> QED
      BY <3>1, <3>2
  <2>3. ASSUME NEW i \in DOMAIN stack', i > 1, stack'[i].proc = "End"
        PROVE  stack'[i - 1].event \in EndEvents \/ (stack'[i - 1].proc = "Complete" /\ stack'[i].pc = 5)
    <3>1. CASE i = 2
      BY <1>5, <2>1, <2>3, <3>1
    <3>2. CASE i # 2
      <4>1. i > 2 /\ i - 1 \in DOMAIN stack /\ i - 1 > 1 /\ stack'[i] = stack[i - 1] /\ i - 1 \in DOMAIN stack'
        BY <1>00, <2>1, <2>3, <3>2
      <4>2. stack[(i - 1) - 1].event \in EndEvents \/ (stack[(i - 1) - 1].proc = "Complete" /\ stack[i - 1].pc = 5)
        BY <2>3, <4>1 DEF StructInv
      <4>3. CASE i - 1 = 2
        <5>1. (i - 1) - 1 = 1
          BY <4>3
        <5> QED
          BY <1>5, <2>1, <4>1, <4>2, <4>3, <5>1
      <4>4. CASE i - 1 # 2
        BY <2>1, <4>1, <4>2, <4>4
      <4> QED
        BY <4>3, <4>4
    <3> QED
      BY <3>1, <3>2
  <2>4. \A i \in DOMAIN stack' : stack'[i].proc \notin {"Raise", "Error"} => stack'[i].event = "none"
    BY <1>5, <2>1 DEF StructInv
  <2>5. \A i \in DOMAIN stack' : stack'[i].proc = "End" => stack'[i].pc \in 1 .. 5
    BY <1>5, <2>1 DEF StructInv
  <2> QED
    BY <2>2, <2>3, <2>4, <2>5 DEF StructInv
<1>6. ASSUME UserThrows \/ UserNotes PROVE StructInv'
  BY <1>1, <1>6 DEF UserThrows, UserNotes
<1>7. ASSUME Returned \/ Unwound PROVE StructInv'
  BY <1>2, <1>7 DEF Returned, Unwound
<1>8. ASSUME UserEnters PROVE StructInv'
  <2>1. PICK proc \in {"End", "Flush", "Start"} : Pushed(Frame(proc, "none", 1))
    BY <1>8 DEF UserEnters
  <2>2. Top.proc # "End"
    BY <1>8 DEF UserEnters
  <2> DEFINE f == Frame(proc, "none", 1)
  <2>3. f.proc = proc /\ f.event = "none" /\ f.pc \in 1 .. 5 /\ f.event \notin EndEvents
    BY FrameFields, OtherEvents
  <2> HIDE DEF f
  <2>4. Pushed(f)
    BY <2>1 DEF f
  <2> QED
    BY <1>3, <2>2, <2>3, <2>4
<1>9. ASSUME Advanced PROVE StructInv'
  <2>1. PICK g : Replaced(g) /\ SameCaller(g) /\ Top.proc \in {"Flush", "Start"} /\ Len(stack) > 0
    BY <1>9 DEF Advanced, Replaced
  <2>2. Top.event = "none"
    BY <1>00, <2>1 DEF StructInv
  <2> QED
    BY <1>4, <2>1, <2>2 DEF SameCaller
<1>10. ASSUME Caught PROVE StructInv'
  BY <1>4, <1>10, FrameFields DEF Caught
<1>11. ASSUME CaughtEnd PROVE StructInv'
  <2>1. Len(stack) > 0 /\ Top.proc = "Endpoint"
    BY <1>11 DEF CaughtEnd, Popped, Replaced
  <2>2. Top.event = "none"
    BY <1>00, <2>1 DEF StructInv
  <2>3. CASE Popped
    BY <1>2, <2>3
  <2>4. CASE Replaced(Frame("End", "none", 1))
    BY <1>4, <2>1, <2>2, <2>4, FrameFields
  <2> QED
    BY <1>11, <2>3, <2>4 DEF CaughtEnd
<1>12. ASSUME RaisesEnd PROVE StructInv'
  <2>1. PICK g : /\ Called(Frame("Raise", EndEvent(Top.pc), 0), g) /\ g.proc = "End"
                 /\ g.proc = Top.proc /\ g.event = Top.event
                 /\ g.pc = Top.pc + 1 /\ Top.pc \in 1 .. 3
    BY <1>12 DEF RaisesEnd, SameCaller
  <2>2. EndEvent(Top.pc) \in EndEvents
    BY <2>1, EndEventNames
  <2> QED
    BY <1>5, <2>1, <2>2, FrameFields
<1>13. ASSUME RaisesPreSend \/ Completes \/ Drains PROVE StructInv'
  <2>1. CASE RaisesPreSend
    <3>1. PICK g \in Frames, e \in PreSendEvents :
            Called(Frame("Raise", e, 0), g) /\ SameCaller(g) /\ Top.proc \in {"Flush", "Start"}
      BY <2>1 DEF RaisesPreSend
    <3> DEFINE f == Frame("Raise", e, 0)
    <3>2. f.proc = "Raise" /\ f.event \notin EndEvents
      BY FrameFields, OtherEvents
    <3> HIDE DEF f
    <3>3. Called(f, g) /\ g.proc = Top.proc /\ g.event = Top.event
      BY <3>1 DEF f, SameCaller
    <3> QED
      BY <1>5, <2>1, <3>1, <3>2, <3>3 DEF RaisesPreSend
  <2>2. CASE Completes
    <3>1. PICK g : Called(Frame("Complete", "none", 1), g) /\ SameCaller(g) /\ g.pc = 5
      BY <2>2 DEF Completes
    <3> DEFINE f == Frame("Complete", "none", 1)
    <3>2. f.proc = "Complete" /\ f.event \notin EndEvents /\ f.event = "none"
      BY FrameFields, OtherEvents
    <3> HIDE DEF f
    <3>3. Called(f, g) /\ g.proc = Top.proc /\ g.event = Top.event
      BY <3>1 DEF f, SameCaller
    <3> QED
      BY <1>5, <2>2, <3>1, <3>2, <3>3
  <2>3. CASE Drains
    <3>1. PICK g : Called(Frame("Flush", "none", 1), g) /\ SameCaller(g) /\ Top.proc = "Complete"
      BY <2>3 DEF Drains
    <3> DEFINE f == Frame("Flush", "none", 1)
    <3>2. f.proc = "Flush" /\ f.event \notin EndEvents /\ f.event = "none"
      BY FrameFields, OtherEvents
    <3> HIDE DEF f
    <3>3. Called(f, g) /\ g.proc = Top.proc /\ g.event = Top.event
      BY <3>1 DEF f, SameCaller
    <3> QED
      BY <1>5, <2>3, <3>1, <3>2, <3>3
  <2> QED
    BY <1>13, <2>1, <2>2, <2>3
<1>14. ASSUME PipelineMoves \/ Stays PROVE StructInv'
  <2>1. CASE stack' = stack
    BY <1>1, <2>1
  <2>2. CASE stack' # stack
    <3>1. /\ stack = <<>>
          /\ \E f : /\ Pushed(f) /\ f.event \notin EndEvents
                    /\ f.proc \notin {"Raise", "Error"} => f.event = "none"
                    /\ f.proc = "End" => f.pc \in 1 .. 5
      BY <1>14, <2>2, FrameFields, OtherEvents
      DEF PipelineMoves, RaisesEvent, RunsEndpoint, Finishes, Moved, SessionFails, Fails, Ends, Stays
    <3>2. Len(stack) = 0
      BY <1>0, <3>1 DEF Stacks
    <3> QED
      BY <1>3, <3>1, <3>2
  <2> QED
    BY <2>1, <2>2
<1> QED
  BY <1>0, <1>6, <1>7, <1>8, <1>9, <1>10, <1>11, <1>12, <1>13, <1>14 DEF CallMoves

-----------------------------------------------------------------------------
(* What was thrown is reported: an IHttpHandler that a request breaks off,  *)
(* and errors that nobody cleared.                                          *)

\* The endpoint is the outermost call, and an IHttpHandler runs with the feature
\* that throws; that feature, and what it throws, are found after the handler
\* has run only.
HandlerRan == endpoint = "handler" /\ step >= 16 /\ (step = 16 => raising)
Recorded(kind) == \E i \in DOMAIN errors : errors[i].kind = kind

EndpointInv ==
  /\ \A i \in DOMAIN stack : stack[i].proc = "Endpoint" =>
       i = Len(stack) /\ (endpoint = "handler" => endFeature = "throwing" /\ ~isEnded)
  /\ endFeature = "throwing" \/ exn.kind = "requestEnd" \/ Recorded("requestEnd") => HandlerRan

\* Where the errors after a step come from.
LEMMA ErrorSources ==
  ASSUME IInv, ErrorsInv, [Next]_vars
  PROVE  \A i \in DOMAIN errors' :
           \/ \E j \in DOMAIN errors : errors'[i] = errors[j]
           \/ errors'[i].kind = "added"
           \/ errors'[i] = exn /\ Caught
<1>0. CallMoves \/ PipelineMoves \/ Stays
  BY Moves
<1>1. errors' \in {errors, <<>>} \/ (\E e : errors' = Append(errors, e) /\ (e.kind = "added" \/ (e = exn /\ Caught)))
  <2>1. ASSUME UserNotes
        PROVE  errors' \in {errors, <<>>} \/ \E e : errors' = Append(errors, e) /\ e.kind = "added"
    <3>1. Exception("added", calls', <<>>).kind = "added"
      BY DEF Exception
    <3> QED
      BY <2>1, <3>1 DEF UserNotes
  <2>2. ASSUME Caught PROVE errors' = Append(errors, exn)
    BY <2>2 DEF Caught
  <2>3. ASSUME CallMoves, ~UserNotes, ~Caught PROVE errors' = errors
    BY <2>3
    DEF CallMoves, UserThrows, UserEnters, Returned, Advanced, RaisesEnd, RaisesPreSend, Completes,
        Drains, Unwound, CaughtEnd, Inner
  <2>4. ASSUME PipelineMoves \/ Stays PROVE errors' = errors
    BY <2>4
    DEF PipelineMoves, RaisesEvent, RunsEndpoint, Finishes, Moved, SessionFails, Fails, Ends, Stays, Quiet
  <2> QED
    BY <1>0, <2>1, <2>2, <2>3, <2>4
<1>2. errors \in Seq(Simple)
  BY DEF ErrorsInv
<1>3. CASE errors' = errors
  BY <1>3
<1>4. CASE errors' = <<>>
  BY <1>4, EmptySeq, LenProperties
<1>5. ASSUME NEW e, errors' = Append(errors, e), e.kind = "added" \/ (e = exn /\ Caught)
      PROVE  \A i \in DOMAIN errors' : errors'[i] = e \/ \E j \in DOMAIN errors : errors'[i] = errors[j]
  <2>1. e \in Simple \cup {e} /\ errors \in Seq(Simple \cup {e})
    <3>1. DOMAIN errors = 1 .. Len(errors) /\ Len(errors) \in Nat
      BY <1>2, LenProperties
    <3>2. \A i \in 1 .. Len(errors) : errors[i] \in Simple \cup {e}
      BY <1>2, ElementOfSeq
    <3> QED
      BY <1>2, <3>1, <3>2, SeqDef
  <2>2. /\ errors' \in Seq(Simple \cup {e}) /\ Len(errors') = Len(errors) + 1
        /\ \A i \in 1 .. Len(errors) : errors'[i] = errors[i]
        /\ errors'[Len(errors) + 1] = e
    BY <1>5, <2>1, AppendProperties
  <2>3. DOMAIN errors' = 1 .. Len(errors) + 1 /\ DOMAIN errors = 1 .. Len(errors) /\ Len(errors) \in Nat
    BY <1>2, <2>2, LenProperties
  <2> QED
    BY <2>2, <2>3
<1> QED
  BY <1>1, <1>3, <1>4, <1>5

\* The exception of EndAsync is thrown, or is one of the recorded errors.
LEMMA EndExceptionSources ==
  ASSUME IInv, ErrorsInv, [Next]_vars, exn'.kind = "requestEnd"
  PROVE  exn.kind = "requestEnd" \/ endFeature = "throwing" \/ Recorded("requestEnd")
<1>0. CallMoves \/ PipelineMoves \/ Stays
  BY Moves
<1>1. /\ Exception("thrown", calls', <<>>).kind = "thrown" /\ NoException.kind = "none"
      /\ Exception("session", 0, <<>>).kind = "session"
  BY DEF Exception, NoException
<1>2. ThrownErrors.kind = "requestEnd" => Recorded("requestEnd")
  <2>0. Len(errors) \in Nat /\ DOMAIN errors = 1 .. Len(errors)
    BY LenProperties DEF ErrorsInv
  <2>1. CASE Len(errors) = 0
    BY <1>1, <2>1 DEF ThrownErrors
  <2>2. CASE Len(errors) = 1
    BY <2>0, <2>2 DEF ThrownErrors, Recorded
  <2>3. CASE Len(errors) > 1
    BY <2>0, <2>3 DEF ThrownErrors, Exception
  <2> QED
    BY <2>0, <2>1, <2>2, <2>3
<1>3. CASE UserThrows
  BY <1>1, <1>3 DEF UserThrows
<1>4. CASE Returned
  BY <1>1, <1>2, <1>4 DEF Returned
<1>5. CASE CallMoves /\ ~UserThrows /\ ~Returned
  BY <1>1, <1>5
  DEF CallMoves, UserNotes, UserEnters, Advanced, RaisesEnd, RaisesPreSend, Completes, Drains,
      Caught, Unwound, CaughtEnd, Inner
<1>6. CASE PipelineMoves \/ Stays
  BY <1>1, <1>6
  DEF PipelineMoves, RaisesEvent, RunsEndpoint, Finishes, Moved, SessionFails, Fails, Ends, Stays
<1> QED
  BY <1>0, <1>3, <1>4, <1>5, <1>6

LEMMA EndpointStep ==
  ASSUME IInv, ErrorsInv, EndpointInv, [Next]_vars
  PROVE  EndpointInv'
<1>0. Stacks /\ (CallMoves \/ PipelineMoves \/ Stays)
  BY Moves
<1>00. /\ Len(stack) \in Nat /\ DOMAIN stack = 1 .. Len(stack)
       /\ Len(stack') \in Nat /\ DOMAIN stack' = 1 .. Len(stack')
       /\ Len(stack) > 0 => Top = stack[1] /\ 1 \in DOMAIN stack
       /\ stack = <<>> => Len(stack) = 0
  BY <1>0 DEF Stacks
<1> DEFINE Outermost ==
      \A i \in DOMAIN stack : stack[i].proc = "Endpoint" =>
         i = Len(stack) /\ (endpoint = "handler" => endFeature = "throwing" /\ ~isEnded)
<1>1. Outermost
  BY DEF EndpointInv
<1>2. ASSUME stack' = stack, UNCHANGED <<endpoint, endFeature, isEnded>> PROVE Outermost'
  BY <1>1, <1>2
<1>3. ASSUME stack' = <<>> PROVE Outermost'
  BY <1>0, <1>3, NoFrames
<1>4. ASSUME Popped, endpoint' = endpoint,
             UNCHANGED <<endFeature, isEnded>> \/ Top.proc = "Endpoint"
      PROVE  Outermost'
  <2>1. /\ Len(stack') = Len(stack) - 1 /\ Len(stack) > 0
        /\ \A i \in DOMAIN stack' : i + 1 \in DOMAIN stack /\ stack'[i] = stack[i + 1]
    BY <1>0, <1>4, Places DEF Popped
  <2>2. CASE Top.proc = "Endpoint"
    <3>1. Len(stack) = 1
      BY <1>1, <1>00, <2>1, <2>2
    <3> QED
      BY <1>00, <2>1, <3>1
  <2>3. CASE UNCHANGED <<endFeature, isEnded>>
    <3>1. ASSUME NEW i \in DOMAIN stack', stack'[i].proc = "Endpoint"
          PROVE  i = Len(stack') /\ (endpoint = "handler" => endFeature = "throwing" /\ ~isEnded)
      <4>1. i + 1 \in DOMAIN stack /\ stack[i + 1].proc = "Endpoint"
        BY <2>1, <3>1
      <4>2. i + 1 = Len(stack) /\ (endpoint = "handler" => endFeature = "throwing" /\ ~isEnded)
        BY <1>1, <4>1
      <4> QED
        BY <1>00, <2>1, <4>2
    <3> QED
      BY <1>4, <2>3, <3>1
  <2> QED
    BY <1>4, <2>2, <2>3
<1>5. ASSUME NEW f, Pushed(f), f.proc # "Endpoint", UNCHANGED <<endpoint, endFeature>>,
             isEnded' = isEnded \/ endFeature # "throwing"
      PROVE  Outermost'
  <2>1. /\ Len(stack') = Len(stack) + 1
        /\ \A i \in DOMAIN stack' : \/ i = 1 /\ stack'[i] = f
                                    \/ i > 1 /\ i - 1 \in DOMAIN stack /\ stack'[i] = stack[i - 1]
    BY <1>0, <1>5, Places DEF Pushed
  <2>2. ASSUME NEW i \in DOMAIN stack', stack'[i].proc = "Endpoint"
        PROVE  i = Len(stack') /\ (endpoint = "handler" => endFeature = "throwing" /\ ~isEnded)
    <3>1. i - 1 \in DOMAIN stack /\ stack[i - 1].proc = "Endpoint"
      BY <1>5, <2>1, <2>2
    <3>2. i - 1 = Len(stack) /\ (endpoint = "handler" => endFeature = "throwing" /\ ~isEnded)
      BY <1>1, <3>1
    <3> QED
      BY <1>00, <2>1, <2>2, <3>2
  <2> QED
    BY <1>5, <2>2
<1>6. ASSUME NEW f, Replaced(f), f.proc # "Endpoint", endpoint' = endpoint,
             UNCHANGED <<endFeature, isEnded>> \/ Top.proc = "Endpoint"
      PROVE  Outermost'
  <2>1. /\ Len(stack') = Len(stack) /\ Len(stack) > 0
        /\ \A i \in DOMAIN stack' : \/ i = 1 /\ stack'[i] = f
                                    \/ i > 1 /\ i \in DOMAIN stack /\ stack'[i] = stack[i]
    BY <1>0, <1>6, Places DEF Replaced
  <2>2. ASSUME NEW i \in DOMAIN stack', stack'[i].proc = "Endpoint"
        PROVE  i = Len(stack) /\ (endpoint = "handler" => endFeature = "throwing" /\ ~isEnded) /\ i > 1
    BY <1>1, <1>6, <2>1, <2>2
  <2>3. Top.proc = "Endpoint" => Len(stack) = 1
    BY <1>1, <1>00, <2>1
  <2> QED
    BY <1>6, <2>1, <2>2, <2>3
<1>7. ASSUME NEW f, NEW g, Called(f, g), f.proc # "Endpoint", g.proc # "Endpoint",
             UNCHANGED <<endpoint, endFeature, isEnded>>
      PROVE  Outermost'
  <2>1. /\ Len(stack') = Len(stack) + 1
        /\ \A i \in DOMAIN stack' : \/ i = 1 /\ stack'[i] = f
                                    \/ i = 2 /\ stack'[i] = g
                                    \/ i > 2 /\ i - 1 \in DOMAIN stack /\ stack'[i] = stack[i - 1]
    BY <1>0, <1>7, Places DEF Called
  <2>2. ASSUME NEW i \in DOMAIN stack', stack'[i].proc = "Endpoint"
        PROVE  i = Len(stack') /\ (endpoint = "handler" => endFeature = "throwing" /\ ~isEnded)
    <3>1. i - 1 \in DOMAIN stack /\ stack[i - 1].proc = "Endpoint"
      BY <1>7, <2>1, <2>2
    <3>2. i - 1 = Len(stack) /\ (endpoint = "handler" => endFeature = "throwing" /\ ~isEnded)
      BY <1>1, <3>1
    <3> QED
      BY <1>00, <2>1, <2>2, <3>2
  <2> QED
    BY <1>7, <2>2
<1>8. Outermost'
  <2> HIDE DEF Outermost
  <2>1. ASSUME UserThrows \/ UserNotes PROVE Outermost'
    BY <1>2, <2>1 DEF UserThrows, UserNotes, Waiting
  <2>2. ASSUME UserEnters PROVE Outermost'
    <3>1. PICK proc \in {"End", "Flush", "Start"} :
             /\ Pushed(Frame(proc, "none", 1)) /\ UNCHANGED <<endpoint, endFeature>>
             /\ isEnded' = isEnded \/ endFeature # "throwing"
      BY <2>2 DEF UserEnters, Waiting
    <3> QED
      BY <1>5, <3>1, FrameFields
  <2>3. ASSUME Returned \/ Unwound PROVE Outermost'
    BY <1>4, <2>3 DEF Returned, Unwound, Waiting
  <2>4. ASSUME Advanced \/ Caught PROVE Outermost'
    <3>1. /\ UNCHANGED <<endpoint, endFeature, isEnded>>
          /\ \E f : Replaced(f) /\ f.proc # "Endpoint"
      BY <2>4, FrameFields DEF Advanced, Caught, Inner, SameCaller, Waiting
    <3> QED
      BY <1>6, <3>1
  <2>5. ASSUME CaughtEnd PROVE Outermost'
    BY <1>4, <1>6, <2>5, FrameFields DEF CaughtEnd, Waiting
  <2>6. ASSUME RaisesEnd \/ RaisesPreSend \/ Completes \/ Drains PROVE Outermost'
    <3>1. /\ UNCHANGED <<endpoint, endFeature, isEnded>>
          /\ \E f, g : Called(f, g) /\ f.proc # "Endpoint" /\ g.proc # "Endpoint"
      BY <2>6, FrameFields DEF RaisesEnd, RaisesPreSend, Completes, Drains, Inner, SameCaller, Waiting
    <3> QED
      BY <1>7, <3>1
  <2>7. ASSUME RunsEndpoint PROVE Outermost'
    <3>1. /\ Len(stack') = 1 /\ isEnded' = FALSE /\ endpoint' = endpoint
          /\ endpoint = "handler" => endFeature' = "throwing"
      BY <1>00, <2>7 DEF RunsEndpoint, Pushed, Quiet
    <3>2. \A i \in DOMAIN stack' : i = Len(stack')
      BY <1>00, <3>1
    <3> QED
      BY <3>1, <3>2 DEF Outermost
  <2>8. ASSUME RaisesEvent PROVE Outermost'
    BY <1>5, <2>8, FrameFields DEF RaisesEvent, Quiet
  <2>9. ASSUME Finishes PROVE Outermost'
    <3>1. CASE stack' = stack
      BY <1>3, <2>9, <3>1 DEF Finishes
    <3>2. CASE stack' # stack
      <4>1. Pushed(Frame("End", "none", 1)) /\ stack = <<>>
        BY <2>9, <3>2 DEF Finishes
      <4>2. \A i \in DOMAIN stack' : stack'[i].proc # "Endpoint"
        BY <1>0, <1>00, <4>1, Places, FrameFields
      <4> QED
        BY <4>2 DEF Outermost
    <3> QED
      BY <3>1, <3>2
  <2>10. ASSUME Moved \/ SessionFails \/ Fails \/ Ends \/ Stays PROVE Outermost'
    BY <1>2, <2>10 DEF Moved, SessionFails, Fails, Ends, Stays, Quiet
  <2> QED
    BY <1>0, <2>1, <2>2, <2>3, <2>4, <2>5, <2>6, <2>7, <2>8, <2>9, <2>10 DEF CallMoves, PipelineMoves
\* The handler has run once its feature, or what it throws, is there.
<1>9. HandlerRan => HandlerRan'
  <2>1. step \in Nat
    BY DEF IInv, Types
  <2>2. CASE CallMoves
    BY <2>2
    DEF CallMoves, UserThrows, UserNotes, UserEnters, Returned, Advanced, RaisesEnd, RaisesPreSend,
        Completes, Drains, Caught, Unwound, CaughtEnd, Inner, Waiting, HandlerRan
  <2>3. CASE PipelineMoves \/ Stays
    BY <2>1, <2>3
    DEF PipelineMoves, RaisesEvent, RunsEndpoint, Finishes, Moved, SessionFails, Fails, Ends, Stays,
        Quiet, HandlerRan
  <2> QED
    BY <1>0, <2>2, <2>3
<1>10. endFeature' = "throwing" => endFeature = "throwing" \/ HandlerRan'
  <2>1. CASE CallMoves
    BY <2>1
    DEF CallMoves, UserThrows, UserNotes, UserEnters, Returned, Advanced, RaisesEnd, RaisesPreSend,
        Completes, Drains, Caught, Unwound, CaughtEnd, Inner
  <2>2. CASE RunsEndpoint
    BY <2>2 DEF RunsEndpoint, HandlerRan, Quiet
  <2>3. CASE (PipelineMoves \/ Stays) /\ ~RunsEndpoint
    BY <2>3
    DEF PipelineMoves, RaisesEvent, Finishes, Moved, SessionFails, Fails, Ends, Stays
  <2> QED
    BY <1>0, <2>1, <2>2, <2>3
<1>11. exn'.kind = "requestEnd" => HandlerRan'
  BY <1>9, EndExceptionSources DEF EndpointInv
<1>12. Recorded("requestEnd")' => HandlerRan'
  <2>1. ASSUME NEW i \in DOMAIN errors', errors'[i].kind = "requestEnd"
        PROVE  exn.kind = "requestEnd" \/ Recorded("requestEnd")
    BY <2>1, ErrorSources DEF Recorded
  <2> QED
    BY <1>9, <2>1 DEF EndpointInv, Recorded
<1> QED
  BY <1>8, <1>9, <1>10, <1>11, <1>12 DEF EndpointInv

\* An error that a handler threw, or that broke an IHttpHandler off, is on its
\* way as long as it is recorded.
FailInv ==
  Recorded("thrown") \/ Recorded("requestEnd") =>
    \/ exn # NoException \/ failure # NoException
    \/ \E i \in DOMAIN stack : stack[i].proc \in {"End", "Error"}

DoneInv == step = 25 => exn = NoException /\ stack = <<>>

LEMMA RecordedErrorsAreThrown ==
  ASSUME errors \in Seq(Simple), Recorded("thrown") \/ Recorded("requestEnd")
  PROVE  ThrownErrors # NoException
<1>1. Len(errors) \in Nat /\ DOMAIN errors = 1 .. Len(errors)
  BY LenProperties
<1>2. CASE Len(errors) = 0
  BY <1>1, <1>2 DEF Recorded
<1>3. CASE Len(errors) = 1
  <2>1. ThrownErrors = errors[1] /\ errors[1].kind \in {"thrown", "requestEnd"}
    BY <1>1, <1>3 DEF ThrownErrors, Recorded
  <2> QED
    BY <2>1 DEF NoException, Exception
<1>4. CASE Len(errors) > 1
  <2>1. ThrownErrors = Exception("aggregate", 0, errors)
    BY <1>1, <1>4 DEF ThrownErrors
  <2> QED
    BY <2>1 DEF NoException, Exception
<1> QED
  BY <1>1, <1>2, <1>3, <1>4

\* RequestEndThrowsMiddleware catches what EndAsync throws while the request has
\* not ended.
LEMMA CaughtEndEnds ==
  ASSUME IInv, EndpointInv, [Next]_vars, CaughtEnd
  PROVE  ~isEnded /\ Replaced(Frame("End", "none", 1)) /\ isEnded' = TRUE
<1>0. Stacks
  BY Moves
<1>1. Len(stack) > 0 /\ Top.proc = "Endpoint" /\ exn.kind = "requestEnd"
  BY DEF CaughtEnd, Popped, Replaced
<1>2. 1 \in DOMAIN stack /\ stack[1].proc = "Endpoint"
  BY <1>0, <1>1 DEF Stacks
<1>3. ~isEnded
  BY <1>1, <1>2 DEF EndpointInv, HandlerRan
<1> QED
  BY <1>3 DEF CaughtEnd

LEMMA DoneStep ==
  ASSUME IInv, DoneInv, [Next]_vars
  PROVE  DoneInv'
<1>0. IInv' /\ Stacks /\ (CallMoves \/ PipelineMoves \/ Stays)
  BY Moves
<1>1. step' = 25 => stack' = <<>>
  BY <1>0 DEF IInv, PositionInv
<1>2. ASSUME CallMoves, step' = 25 PROVE exn' = NoException
  <2>1. step = 25
    BY <1>2
    DEF CallMoves, UserThrows, UserNotes, UserEnters, Returned, Advanced, RaisesEnd, RaisesPreSend,
        Completes, Drains, Caught, Unwound, CaughtEnd, Inner, Waiting
  <2>2. exn = NoException /\ Len(stack) = 0
    BY <1>0, <2>1 DEF DoneInv, Stacks
  <2> QED
    BY <1>2, <2>2
    DEF CallMoves, UserThrows, UserNotes, UserEnters, Returned, Advanced, RaisesEnd, RaisesPreSend,
        Completes, Drains, Caught, Unwound, CaughtEnd, Inner, Popped, Replaced, Called
<1>3. ASSUME PipelineMoves \/ Stays, step' = 25 PROVE exn' = NoException
  <2>1. step \in 1 .. 25
    BY DEF IInv, Types
  <2> QED
    BY <1>3, <2>1
    DEF PipelineMoves, RaisesEvent, RunsEndpoint, Finishes, Moved, SessionFails, Fails, Ends, Stays, DoneInv
<1> QED
  BY <1>0, <1>1, <1>2, <1>3 DEF DoneInv

LEMMA FailStep ==
  ASSUME IInv, ErrorsInv, EndpointInv, StructInv, FailInv, [Next]_vars
  PROVE  FailInv'
<1>0. Stacks /\ (CallMoves \/ PipelineMoves \/ Stays)
  BY Moves
<1>00. /\ Len(stack) \in Nat /\ DOMAIN stack = 1 .. Len(stack)
       /\ Len(stack') \in Nat /\ DOMAIN stack' = 1 .. Len(stack')
       /\ Len(stack) > 0 => Top = stack[1] /\ 1 \in DOMAIN stack
       /\ stack = <<>> => Len(stack) = 0
  BY <1>0 DEF Stacks
<1> DEFINE Failing == Recorded("thrown") \/ Recorded("requestEnd")
           Suppressed == \E i \in DOMAIN stack : stack[i].proc \in {"End", "Error"}
<1>1. ASSUME Failing', ~Caught PROVE Failing
  BY <1>1, ErrorSources DEF Recorded
<1>2. Failing => exn # NoException \/ failure # NoException \/ Suppressed
  BY DEF FailInv
<1>3. ASSUME NEW f, NEW g, Called(f, g), SameCaller(g), Suppressed PROVE Suppressed'
  <2>1. PICK i \in DOMAIN stack : stack[i].proc \in {"End", "Error"}
    BY <1>3
  <2>2. CASE i = 1
    <3>1. 2 \in DOMAIN stack' /\ stack'[2] = g /\ g.proc = stack[1].proc
      BY <1>3, <1>00 DEF Called, SameCaller
    <3> QED
      BY <2>1, <2>2, <3>1
  <2>3. CASE i # 1
    <3>1. i \in 2 .. Len(stack) /\ i + 1 \in DOMAIN stack'
      BY <1>3, <1>00, <2>3 DEF Called
    <3> QED
      BY <1>3, <2>1, <3>1 DEF Called
  <2> QED
    BY <2>2, <2>3
<1>4. ASSUME NEW f, Pushed(f), Suppressed PROVE Suppressed'
  <2>1. PICK i \in DOMAIN stack : stack[i].proc \in {"End", "Error"}
    BY <1>4
  <2>2. i + 1 \in DOMAIN stack' /\ stack'[i + 1] = stack[i]
    BY <1>4, <1>00 DEF Pushed
  <2> QED
    BY <2>1, <2>2
<1>5. ASSUME NEW g, Replaced(g), Suppressed, Top.proc \notin {"End", "Error"} PROVE Suppressed'
  <2>1. PICK i \in DOMAIN stack : stack[i].proc \in {"End", "Error"}
    BY <1>5
  <2>2. i \in 2 .. Len(stack) /\ i \in DOMAIN stack' /\ stack'[i] = stack[i]
    BY <1>00, <1>5, <2>1 DEF Replaced
  <2> QED
    BY <2>1, <2>2
<1>6. ASSUME Popped, Suppressed, Top.proc \notin {"End", "Error"} PROVE Suppressed'
  <2>1. PICK i \in DOMAIN stack : stack[i].proc \in {"End", "Error"}
    BY <1>6
  <2>2. i \in 2 .. Len(stack) /\ i - 1 \in DOMAIN stack' /\ stack'[i - 1] = stack[i]
    BY <1>00, <1>6, <2>1 DEF Popped
  <2> QED
    BY <2>1, <2>2
<1> DEFINE Alive == exn' # NoException \/ failure' # NoException \/ Suppressed'
<1>7. ASSUME UserThrows PROVE Alive
  BY <1>7 DEF UserThrows, NoException, Exception
<1>8. ASSUME UserNotes, Failing PROVE Alive
  BY <1>2, <1>8 DEF UserNotes, Waiting
<1>9. ASSUME UserEnters, Failing PROVE Alive
  BY <1>2, <1>4, <1>9 DEF UserEnters, Waiting
<1>10. ASSUME Returned, Failing PROVE Alive
  <2>1. exn = NoException /\ failure' = failure /\ Popped
    BY <1>10 DEF Returned, Waiting
  <2>2. ThrownErrors # NoException
    BY <1>10, RecordedErrorsAreThrown DEF ErrorsInv
  <2>3. CASE Top.proc = "End" \/ (Top.proc = "Error" /\ Top.event \notin EndEvents)
    BY <1>10, <2>2, <2>3 DEF Returned
  <2>4. CASE Top.proc = "Error" /\ Top.event \in EndEvents
    <3>1. 1 < Len(stack) /\ stack[1 + 1].proc = "End"
      BY <1>00, <2>1, <2>4 DEF StructInv, Popped
    <3>2. 1 \in DOMAIN stack' /\ stack'[1].proc = "End"
      BY <1>00, <2>1, <3>1 DEF Popped
    <3> QED
      BY <3>2
  <2>5. CASE Top.proc \notin {"End", "Error"}
    BY <1>2, <1>6, <1>10, <2>1, <2>5
  <2> QED
    BY <2>3, <2>4, <2>5
<1>11. ASSUME Advanced, Failing PROVE Alive
  <2>1. /\ exn = NoException /\ failure' = failure /\ Top.proc \in {"Flush", "Start"}
        /\ \E g : Replaced(g)
    BY <1>11 DEF Advanced, Inner, Waiting
  <2> QED
    BY <1>2, <1>5, <1>11, <2>1
<1>12. ASSUME RaisesEnd \/ RaisesPreSend \/ Completes \/ Drains, Failing PROVE Alive
  <2>1. exn = NoException /\ failure' = failure /\ \E f, g : Called(f, g) /\ SameCaller(g)
    BY <1>12 DEF RaisesEnd, RaisesPreSend, Completes, Drains, Inner, Waiting
  <2> QED
    BY <1>2, <1>3, <1>12, <2>1
<1>13. ASSUME Caught PROVE Alive
  <2>1. 1 \in DOMAIN stack' /\ stack'[1].proc = "Error"
    BY <1>00, <1>13, FrameFields DEF Caught, Replaced
  <2> QED
    BY <2>1
<1>14. ASSUME Unwound PROVE Alive
  BY <1>14 DEF Unwound
<1>15. ASSUME CaughtEnd PROVE Alive
  <2>0. Replaced(Frame("End", "none", 1))
    BY <1>15, CaughtEndEnds
  <2>1. 1 \in DOMAIN stack' /\ stack'[1].proc = "End"
    BY <1>00, <2>0, FrameFields DEF Replaced
  <2> QED
    BY <2>1
<1>16. ASSUME PipelineMoves, Failing PROVE Alive
  <2>1. stack = <<>> /\ DOMAIN stack = {}
    BY <1>00, <1>16 DEF PipelineMoves, RaisesEvent, RunsEndpoint, Finishes, Moved, SessionFails, Fails, Ends
  <2>2. exn # NoException \/ failure # NoException
    BY <1>2, <1>16, <2>1
  <2>3. Exception("requestEnd", 0, <<>>) # NoException /\ Exception("session", 0, <<>>) # NoException
    BY DEF NoException, Exception
  <2>4. exn' # NoException \/ failure' # NoException
    BY <1>16, <2>2, <2>3
    DEF PipelineMoves, RaisesEvent, RunsEndpoint, Finishes, Moved, SessionFails, Fails, Ends
  <2> QED
    BY <2>4
<1>17. ASSUME Stays, Failing PROVE Alive
  BY <1>2, <1>17 DEF Stays
<1>18. Failing' => Alive
  BY <1>0, <1>1, <1>7, <1>8, <1>9, <1>10, <1>11, <1>12, <1>13, <1>14, <1>15, <1>16, <1>17 DEF CallMoves
<1> QED
  BY <1>18 DEF FailInv

-----------------------------------------------------------------------------
(* While the handlers of Error only add and clear errors and nobody starts  *)
(* the response, the handlers of Error are the innermost call; what passes  *)
(* EndAsync was recorded before; and the response of a request that is      *)
(* buffered is not sent from inside the events that end it.                 *)

Innermost ==
  /\ \A i \in DOMAIN stack : stack[i].proc = "Error" => i = 1
  /\ buffered => \A i \in DOMAIN stack : stack[i].event \in EndEvents => i = 1

InPassing ==
  /\ Top.proc # "Error"
  /\ Top.proc \notin {"Raise", "Endpoint"} => IsReentrant(exn)
  /\ buffered /\ Top.event \in EndEvents => Fresh(exn)
  /\ buffered /\ Top.proc = "End" => Top.pc >= 4

CalmInv == calm => Innermost /\ (exn # NoException /\ stack # <<>> => InPassing)

LEMMA FreshIsNew == ASSUME ErrorsInv PROVE \A e : Fresh(e) => ~IsReentrant(e)
<1> SUFFICES ASSUME NEW e, Fresh(e), IsReentrant(e) PROVE FALSE
  OBVIOUS
<1>1. CASE Len(errors) = 1 /\ e = errors[1]
  <2>1. 1 \in DOMAIN errors
    BY <1>1, LenProperties DEF ErrorsInv
  <2> QED
    BY <1>1, <2>1 DEF Fresh
<1>2. CASE e.kind = "aggregate"
  BY <1>2 DEF Fresh, Simple
<1> QED
  BY <1>1, <1>2 DEF IsReentrant

LEMMA CalmStep ==
  ASSUME IInv, ErrorsInv, EndpointInv, StructInv, CalmInv, [Next]_vars
  PROVE  CalmInv'
<1>0. Stacks /\ (CallMoves \/ PipelineMoves \/ Stays)
  BY Moves
<1>00. /\ Len(stack) \in Nat /\ DOMAIN stack = 1 .. Len(stack)
       /\ Len(stack') \in Nat /\ DOMAIN stack' = 1 .. Len(stack')
       /\ Len(stack) > 0 => Top = stack[1] /\ 1 \in DOMAIN stack
       /\ stack = <<>> <=> Len(stack) = 0
       /\ stack' = <<>> <=> Len(stack') = 0
  BY <1>0 DEF Stacks
<1>01. stack' # <<>> => 1 \in DOMAIN stack' /\ Top' = stack'[1]
  BY <1>00, StepHolds, PopFrame DEF Top, IInv, Types
<1>1. ASSUME calm PROVE Innermost /\ (exn # NoException /\ stack # <<>> => InPassing)
  BY <1>1 DEF CalmInv
<1>2. ASSUME calm' => Innermost', calm' => exn' = NoException \/ stack' = <<>> \/ InPassing'
      PROVE  CalmInv'
  BY <1>2 DEF CalmInv, NoException, Exception
<1>3. ASSUME stack' = stack, buffered' = buffered, Innermost PROVE Innermost'
  BY <1>3 DEF Innermost
<1>4. ASSUME stack' = <<>> PROVE Innermost'
  BY <1>0, <1>4, NoFrames DEF Innermost
<1>5. ASSUME Popped, buffered' = buffered, Innermost
      PROVE  /\ Innermost' /\ \A i \in DOMAIN stack' : stack'[i].proc # "Error"
             /\ buffered => \A i \in DOMAIN stack' : stack'[i].event \notin EndEvents
  <2>1. ASSUME NEW i \in DOMAIN stack'
        PROVE  /\ stack'[i].proc # "Error"
               /\ buffered => stack'[i].event \notin EndEvents
    <3>1. i + 1 \in DOMAIN stack /\ stack'[i] = stack[i + 1] /\ i + 1 # 1
      BY <1>0, <1>00, <1>5, Places
    <3> QED
      BY <1>5, <3>1 DEF Innermost
  <2> QED
    BY <1>5, <2>1 DEF Innermost
<1>6. ASSUME NEW f, Replaced(f), buffered' = buffered, Innermost PROVE Innermost'
  <2>1. \A i \in DOMAIN stack' : i = 1 \/ (i > 1 /\ i \in DOMAIN stack /\ stack'[i] = stack[i])
    BY <1>0, <1>6, Places
  <2> QED
    BY <1>00, <1>6, <2>1 DEF Innermost
<1>7. ASSUME NEW f, NEW g, Called(f, g), g.proc = Top.proc, g.event = Top.event,
             Top.proc \notin {"Raise", "Error"},
             buffered' = buffered, Innermost
      PROVE  Innermost'
  <2>1. \A i \in DOMAIN stack' : \/ i = 1
                                 \/ i = 2 /\ stack'[i] = g
                                 \/ i > 2 /\ i - 1 \in DOMAIN stack /\ stack'[i] = stack[i - 1]
    BY <1>0, <1>7, Places
  <2>2. g.event \notin EndEvents
    <3>1. 1 \in DOMAIN stack /\ stack[1] = Top
      BY <1>00, <1>7 DEF Called
    <3>2. stack[1].event = "none"
      BY <1>7, <3>1 DEF StructInv
    <3> QED
      BY <1>7, <3>1, <3>2, OtherEvents
  <2>3. ASSUME NEW i \in DOMAIN stack', i # 1
        PROVE  stack'[i].proc # "Error" /\ (buffered => stack'[i].event \notin EndEvents)
    <3>1. CASE i = 2
      BY <1>7, <2>1, <2>2, <3>1
    <3>2. CASE i > 2 /\ i - 1 \in DOMAIN stack /\ stack'[i] = stack[i - 1]
      <4>1. i - 1 # 1
        BY <1>00, <3>2
      <4> QED
        BY <1>7, <3>2, <4>1 DEF Innermost
    <3> QED
      BY <2>1, <2>3, <3>1, <3>2
  <2> QED
    BY <1>7, <2>3 DEF Innermost
<1>8. ASSUME UserThrows PROVE CalmInv'
  <2>1. /\ calm' => calm /\ Top.proc \in {"Raise", "Endpoint"}
        /\ stack' = stack /\ stack # <<>> /\ buffered' = buffered
    BY <1>00, <1>8 DEF UserThrows, Waiting
  <2>2. Top' = Top
    BY <2>1 DEF Top
  <2>3. Fresh(exn)'
    <3>1. PICK kind \in {"thrown", "requestEnd"} : exn' = Exception(kind, calls + 1, <<>>)
      BY <1>8 DEF UserThrows
    <3>2. calls' = calls + 1 /\ errors' = errors /\ calls \in Nat
      BY <1>8 DEF UserThrows, ErrorsInv
    <3> QED
      BY <3>1, <3>2, NewErrors DEF Fresh
  <2>4. calm' => Innermost'
    BY <1>1, <1>3, <2>1
  <2>5. calm' => InPassing'
    BY <2>1, <2>2, <2>3 DEF InPassing
  <2> QED
    BY <1>2, <2>4, <2>5
<1>9. ASSUME UserNotes PROVE CalmInv'
  <2>1. (calm' => calm) /\ stack' = stack /\ buffered' = buffered /\ exn' = NoException
    BY <1>9 DEF UserNotes, Waiting
  <2> QED
    BY <1>1, <1>2, <1>3, <2>1
<1>10. ASSUME UserEnters PROVE CalmInv'
  <2>1. PICK proc \in {"End", "Flush", "Start"} :
           /\ Pushed(Frame(proc, "none", 1))
           /\ proc = "End" => isEnded = FALSE
           /\ calm' => calm /\ Top.proc # "Error" /\ proc # "Start"
           /\ buffered => proc # "Flush"
           /\ buffered' = buffered /\ exn' = NoException /\ Len(stack) > 0
    BY <1>10 DEF UserEnters, Waiting
  <2>2. \A i \in DOMAIN stack' : \/ i = 1 /\ stack'[i] = Frame(proc, "none", 1)
                                 \/ i > 1 /\ i - 1 \in DOMAIN stack /\ stack'[i] = stack[i - 1]
    BY <1>0, <2>1, Places
  <2>3. calm' => \A i \in DOMAIN stack : stack[i].proc # "Error"
    BY <1>00, <1>1, <2>1 DEF Innermost
  <2>4. isEnded = FALSE => \A i \in DOMAIN stack : stack[i].event \notin EndEvents
    <3> SUFFICES ASSUME isEnded = FALSE, NEW i \in DOMAIN stack, stack[i].event \in EndEvents
                 PROVE  FALSE
      OBVIOUS
    <3>1. i + 1 \in DOMAIN stack /\ stack[i + 1].proc = "End"
      BY <1>00 DEF StructInv
    <3> QED
      BY <3>1 DEF IInv, EndInv, EndOK
  <2>5. calm' /\ buffered => proc = "End"
    BY <2>1
  <2>6. calm' => Innermost'
    <3>1. ASSUME calm', NEW i \in DOMAIN stack', i # 1
          PROVE  stack'[i].proc # "Error" /\ (buffered => stack'[i].event \notin EndEvents)
      BY <2>1, <2>2, <2>3, <2>4, <2>5, <3>1
    <3> QED
      BY <2>1, <3>1 DEF Innermost
  <2> QED
    BY <1>2, <2>1, <2>6
\* The caller of what returns or is left: EndAsync was at its end, or is past
\* the events.
<1>11. ASSUME Popped, stack' # <<>>, calm, buffered, buffered' = buffered, Top'.proc = "End",
              Top.proc \in {"Raise", "Error"} => Top.event \notin EndEvents
       PROVE  Top'.pc >= 4
  <2>1. 2 \in DOMAIN stack /\ Top' = stack[2] /\ Len(stack) > 0 /\ 2 > 1 /\ 2 - 1 = 1
    <3>1. Len(stack) > 0 /\ 1 + 1 \in DOMAIN stack /\ stack'[1] = stack[1 + 1]
      BY <1>0, <1>01, <1>11, Places DEF Popped
    <3> QED
      BY <1>01, <1>11, <3>1
  <2>2. stack[1].event \in EndEvents \/ (stack[1].proc = "Complete" /\ stack[2].pc = 5)
    BY <1>11, <2>1 DEF StructInv
  <2>3. stack[1].event \in EndEvents => stack[1].proc \in {"Raise", "Error"}
    BY <1>00, <2>1, OtherEvents DEF StructInv
  <2> QED
    BY <1>00, <1>11, <2>1, <2>2, <2>3
<1>12. ASSUME Returned PROVE CalmInv'
  <2>1. /\ exn = NoException /\ Popped /\ calm' = calm /\ buffered' = buffered /\ errors' = errors
    BY <1>12 DEF Returned, Waiting
  <2>2. exn' # NoException => exn' = ThrownErrors /\ (Top.proc \in {"Raise", "Error"} => Top.event \notin EndEvents)
    BY <1>12 DEF Returned
  <2>3. exn' # NoException => IsReentrant(exn)'
    BY <2>1, <2>2, ThrownErrorsAreKnown DEF ErrorsInv, IsReentrant
  <2>4. calm' => /\ Innermost' /\ \A i \in DOMAIN stack' : stack'[i].proc # "Error"
                 /\ buffered => \A i \in DOMAIN stack' : stack'[i].event \notin EndEvents
    BY <1>1, <1>5, <2>1
  <2>5. ASSUME calm', exn' # NoException, stack' # <<>> PROVE InPassing'
    <3>1. Top'.proc # "Error" /\ (buffered => Top'.event \notin EndEvents)
      BY <1>01, <2>4, <2>5
    <3>2. buffered /\ Top'.proc = "End" => Top'.pc >= 4
      BY <1>11, <2>1, <2>2, <2>5
    <3> QED
      BY <2>1, <2>3, <2>5, <3>1, <3>2 DEF InPassing
  <2> QED
    BY <1>2, <2>4, <2>5
<1>13. ASSUME Advanced \/ Caught PROVE CalmInv'
  <2>1. calm' = calm /\ buffered' = buffered /\ exn' = NoException /\ \E f : Replaced(f)
    BY <1>13 DEF Advanced, Caught, Inner, Waiting
  <2> QED
    BY <1>1, <1>2, <1>6, <2>1
<1>14. ASSUME RaisesEnd \/ RaisesPreSend \/ Completes \/ Drains PROVE CalmInv'
  <2>1. /\ calm' = calm /\ buffered' = buffered /\ exn' = NoException
        /\ Top.proc \notin {"Raise", "Error"}
        /\ \E f, g : Called(f, g) /\ g.proc = Top.proc /\ g.event = Top.event
    BY <1>14 DEF RaisesEnd, RaisesPreSend, Completes, Drains, Inner, SameCaller, Waiting
  <2> QED
    BY <1>1, <1>2, <1>7, <2>1
<1>15. ASSUME Unwound PROVE CalmInv'
  <2>1. /\ exn # NoException /\ Popped /\ calm' = calm /\ buffered' = buffered
        /\ exn' = exn /\ errors' = errors
        /\ Top.proc = "Raise" => IsReentrant(exn)
    BY <1>15 DEF Unwound, Waiting
  <2>2. stack # <<>>
    BY <1>00, <2>1 DEF Popped
  <2>3. calm' => /\ Innermost' /\ \A i \in DOMAIN stack' : stack'[i].proc # "Error"
                 /\ buffered => \A i \in DOMAIN stack' : stack'[i].event \notin EndEvents
    BY <1>1, <1>5, <2>1
  <2>4. ASSUME calm', stack' # <<>> PROVE InPassing'
    <3>1. Top'.proc # "Error" /\ (buffered => Top'.event \notin EndEvents)
      BY <1>01, <2>3, <2>4
    <3>2. InPassing
      BY <1>1, <2>1, <2>2, <2>4
    <3>3. Top.proc # "Endpoint"
      <4> SUFFICES ASSUME Top.proc = "Endpoint" PROVE FALSE
        OBVIOUS
      <4>1. Len(stack) = 1
        BY <1>00, <2>2 DEF EndpointInv
      <4> QED
        BY <1>00, <2>1, <2>4, <4>1 DEF Popped
    <3>4. IsReentrant(exn)
      BY <2>1, <3>2, <3>3 DEF InPassing
    <3>5. buffered /\ Top'.proc = "End" => Top'.pc >= 4
      <4>1. ASSUME buffered, Top.proc \in {"Raise", "Error"} PROVE Top.event \notin EndEvents
        BY <3>2, <3>4, <4>1, FreshIsNew DEF InPassing
      <4> QED
        BY <1>11, <2>1, <2>4, <4>1
    <3>6. IsReentrant(exn)'
      BY <2>1, <3>4 DEF IsReentrant
    <3> QED
      BY <2>1, <3>1, <3>5, <3>6 DEF InPassing
  <2> QED
    BY <1>2, <2>3, <2>4
<1>16. ASSUME CaughtEnd PROVE CalmInv'
  <2>1. calm' = calm /\ buffered' = buffered /\ exn' = NoException /\ \E f : Replaced(f)
    BY <1>16, CaughtEndEnds DEF CaughtEnd, Waiting
  <2> QED
    BY <1>1, <1>2, <1>6, <2>1
<1>17. ASSUME PipelineMoves PROVE CalmInv'
  <2>1. stack = <<>> /\ buffered' = buffered
    BY <1>17
    DEF PipelineMoves, RaisesEvent, RunsEndpoint, Finishes, Moved, SessionFails, Fails, Ends, Quiet
  <2>2. stack' = <<>> \/ (exn' = NoException /\ \E f : Pushed(f))
    BY <1>17
    DEF PipelineMoves, RaisesEvent, RunsEndpoint, Finishes, Moved, SessionFails, Fails, Ends
  <2>3. CASE stack' = <<>>
    BY <1>2, <1>4, <2>3
  <2>4. CASE exn' = NoException /\ \E f : Pushed(f)
    <3>1. Len(stack') = 1
      BY <1>00, <2>1, <2>4 DEF Pushed
    <3>2. \A i \in DOMAIN stack' : i = 1
      BY <1>00, <3>1
    <3>3. Innermost'
      BY <3>2 DEF Innermost
    <3> QED
      BY <1>2, <2>4, <3>3
  <2> QED
    BY <2>2, <2>3, <2>4
<1>18. ASSUME Stays PROVE CalmInv'
  <2>1. UNCHANGED <<stack, exn, errors, calls, calm, buffered>>
    BY <1>18 DEF Stays, Quiet
  <2> QED
    BY <2>1 DEF CalmInv, Innermost, InPassing, Top, Fresh, IsReentrant
<1> QED
  BY <1>0, <1>8, <1>9, <1>10, <1>12, <1>13, <1>14, <1>15, <1>16, <1>17, <1>18 DEF CallMoves

-----------------------------------------------------------------------------
(* A request that has ended is inside EndAsync, was completed, or fails.    *)

AllRaised == \A k \in 1 .. 3 : count[EndEvent(k)] = 1

\* EndAsync has raised the events before its place, and is at its last one with
\* the response being completed, or with an exception that leaves it.
EndGoesOn(i) ==
  /\ stack[i].proc = "End"
  /\ \A k \in 1 .. 3 : k < stack[i].pc => count[EndEvent(k)] = 1
  /\ stack[i].pc = 5 =>
       \/ completed \/ (i > 1 /\ stack[i - 1].proc = "Complete")
       \/ (i = 1 /\ exn # NoException)

Doomed == failure # NoException \/ (exn # NoException /\ (stack # <<>> => IsReentrant(exn)))

Ongoing == \E i \in DOMAIN stack : EndGoesOn(i)
Through == AllRaised /\ completed
Lost == Doomed /\ (buffered /\ endpoint = "delegate" => AllRaised)

CompletionInv == calm /\ isEnded => Ongoing \/ Through \/ Lost

\* The finally block ends the request, unless the feature of an IHttpHandler is
\* still there.
FinallyInv ==
  /\ step = 24 /\ raising => isEnded \/ (stack = <<>> /\ exn # NoException /\ endpoint = "handler")
  /\ step = 25 => isEnded \/ (failure # NoException /\ endpoint = "handler")

LEMMA FinallyStep ==
  ASSUME IInv, EndpointInv, FinallyInv, [Next]_vars
  PROVE  FinallyInv'
<1>0. Stacks /\ (CallMoves \/ PipelineMoves \/ Stays)
  BY Moves
<1>1. step \in 1 .. 25 /\ raising \in BOOLEAN /\ (stack = <<>> <=> Len(stack) = 0)
  BY <1>0 DEF IInv, Types, Stacks
<1>2. ASSUME CallMoves PROVE FinallyInv'
  <2>1. UNCHANGED <<step, raising, failure, endpoint>> /\ (isEnded => isEnded')
    <3>1. UNCHANGED <<step, raising, failure, endpoint>>
      BY <1>2
      DEF CallMoves, UserThrows, UserNotes, UserEnters, Returned, Advanced, RaisesEnd, RaisesPreSend,
          Completes, Drains, Caught, Unwound, CaughtEnd, Inner, Waiting
    <3>2. UserEnters => isEnded' = isEnded \/ isEnded' = TRUE
      BY DEF UserEnters
    <3>3. ASSUME CallMoves, ~UserEnters PROVE isEnded' = isEnded \/ isEnded' = TRUE
      BY <3>3
      DEF CallMoves, UserThrows, UserNotes, Returned, Advanced, RaisesEnd, RaisesPreSend,
          Completes, Drains, Caught, Unwound, CaughtEnd, Inner
    <3>4. isEnded' = isEnded \/ isEnded' = TRUE
      BY <1>2, <3>2, <3>3
    <3>5. isEnded => isEnded'
      BY <3>4
    <3> QED
      BY <3>1, <3>5
  <2>2. exn = NoException \/ Len(stack) > 0
    BY <1>2
    DEF CallMoves, UserThrows, UserNotes, UserEnters, Returned, Advanced, RaisesEnd, RaisesPreSend,
        Completes, Drains, Caught, Unwound, CaughtEnd, Inner, Popped, Replaced
  <2>3. exn = NoException \/ stack # <<>>
    BY <1>1, <2>2
  <2>4. step = 24 /\ raising => isEnded
    BY <2>3 DEF FinallyInv
  <2> QED
    BY <2>1, <2>4 DEF FinallyInv, NoException, Exception
<1>3. ASSUME Finishes PROVE FinallyInv'
  <2>1. step' = 24 /\ endpoint' = endpoint
    BY <1>3 DEF Finishes, Quiet
  <2>2. isEnded' \/ (stack' = <<>> /\ exn' # NoException /\ endpoint = "handler")
    <3>1. CASE /\ endFeature = "throwing" /\ UNCHANGED <<stack, isEnded>>
               /\ exn' = Exception("requestEnd", 0, <<>>)
      <4>1. endpoint = "handler"
        BY <3>1 DEF EndpointInv, HandlerRan
      <4>2. exn' # NoException /\ stack' = <<>>
        BY <1>3, <3>1 DEF Finishes, NoException, Exception
      <4> QED
        BY <4>1, <4>2
    <3> QED
      BY <1>3, <3>1 DEF Finishes
  <2> QED
    BY <2>1, <2>2 DEF FinallyInv, NoException, Exception
<1>4. ASSUME RaisesEvent \/ RunsEndpoint \/ Moved \/ SessionFails \/ Fails PROVE FinallyInv'
  BY <1>1, <1>4 DEF RaisesEvent, RunsEndpoint, Moved, SessionFails, Fails, FinallyInv, Quiet
<1>5. ASSUME Ends PROVE FinallyInv'
  BY <1>1, <1>5 DEF Ends, FinallyInv, Quiet, NoException, Exception
<1>6. ASSUME Stays PROVE FinallyInv'
  BY <1>1, <1>6 DEF Stays, FinallyInv, Quiet, NoException, Exception
<1> QED
  BY <1>0, <1>2, <1>3, <1>4, <1>5, <1>6 DEF PipelineMoves

LEMMA CompletionStep ==
  ASSUME IInv, ErrorsInv, EndpointInv, StructInv, CalmInv, CompletionInv, [Next]_vars
  PROVE  CompletionInv'
<1>0. Stacks /\ (CallMoves \/ PipelineMoves \/ Stays)
  BY Moves
<1>00. /\ Len(stack) \in Nat /\ DOMAIN stack = 1 .. Len(stack)
       /\ Len(stack') \in Nat /\ DOMAIN stack' = 1 .. Len(stack')
       /\ Len(stack) > 0 => Top = stack[1] /\ 1 \in DOMAIN stack
       /\ stack = <<>> <=> Len(stack) = 0
  BY <1>0 DEF Stacks
<1>01. \A k \in 1 .. 3 : EndEvent(k) \in EndEvents
  BY EndEventNames
<1>1. calm /\ isEnded => Ongoing \/ Through \/ Lost
  BY DEF CompletionInv
<1>2. ASSUME calm' /\ isEnded' => Ongoing' \/ Through' \/ Lost' PROVE CompletionInv'
  BY <1>2 DEF CompletionInv
<1>3. ASSUME SameCounts, AllRaised PROVE AllRaised'
  BY <1>01, <1>3 DEF SameCounts, AllRaised
<1>4. ASSUME SameCounts, completed => completed', Through PROVE Through'
  BY <1>3, <1>4 DEF Through
<1>5. ASSUME SameCounts, UNCHANGED <<buffered, endpoint>>, Lost, Doomed' PROVE Lost'
  BY <1>3, <1>5 DEF Lost
\* A call of EndAsync that was not the innermost one goes on, wherever it is
\* now.
<1>6. ASSUME SameCounts, NEW i \in DOMAIN stack, EndGoesOn(i), NEW j \in DOMAIN stack', stack'[j] = stack[i],
             stack[i].pc = 5 => \/ completed'
                                \/ (j > 1 /\ stack'[j - 1].proc = "Complete")
                                \/ (j = 1 /\ exn' # NoException)
      PROVE  Ongoing'
  <2>1. \A k \in 1 .. 3 : k < stack'[j].pc => count'[EndEvent(k)] = 1
    BY <1>01, <1>6 DEF EndGoesOn, SameCounts
  <2>2. EndGoesOn(j)'
    BY <1>6, <2>1 DEF EndGoesOn, NoException, Exception
  <2> QED
    BY <2>2 DEF Ongoing
\* The first call of EndAsync.
<1>7. ASSUME Len(stack') > 0, stack'[1] = Frame("End", "none", 1) PROVE Ongoing'
  <2>1. stack'[1].proc = "End" /\ stack'[1].pc = 1 /\ 1 \in DOMAIN stack'
    BY <1>00, <1>7, FrameFields
  <2>2. EndGoesOn(1)'
    BY <2>1 DEF EndGoesOn
  <2> QED
    BY <2>1, <2>2 DEF Ongoing
\* What is lost without an exception in flight has failed.
<1>8. ASSUME SameCounts, UNCHANGED <<buffered, endpoint>>, Lost, failure' = failure, exn = NoException
      PROVE  Lost'
  <2>1. Doomed'
    BY <1>8 DEF Doomed, Lost, NoException, Exception
  <2> QED
    BY <1>5, <1>8, <2>1
<1>9. ASSUME UserThrows \/ UserNotes PROVE CompletionInv'
  <2>1. /\ UNCHANGED <<stack, isEnded, completed, failure, buffered, endpoint>> /\ SameCounts
        /\ (calm' => calm) /\ exn = NoException
    BY <1>9 DEF UserThrows, UserNotes, Waiting
  <2>2. ASSUME Ongoing PROVE Ongoing'
    <3>1. PICK i \in DOMAIN stack : EndGoesOn(i)
      BY <2>2 DEF Ongoing
    <3> QED
      BY <1>6, <2>1, <3>1 DEF EndGoesOn
  <2> QED
    BY <1>1, <1>2, <1>4, <1>8, <2>1, <2>2
<1>10. ASSUME UserEnters PROVE CompletionInv'
  <2>1. PICK proc \in {"End", "Flush", "Start"} :
           /\ Pushed(Frame(proc, "none", 1))
           /\ isEnded' = isEnded \/ (isEnded = FALSE /\ proc = "End")
    BY <1>10 DEF UserEnters
  <2>2. /\ UNCHANGED <<completed, failure, buffered, endpoint>> /\ SameCounts
        /\ (calm' => calm) /\ exn = NoException /\ Len(stack) > 0
        /\ Top.proc \in {"Raise", "Error", "Endpoint"}
    BY <1>10 DEF UserEnters, Waiting
  <2>3. CASE proc = "End" /\ isEnded = FALSE
    BY <1>2, <1>7, <1>00, <2>1, <2>3 DEF Pushed
  <2>4. ASSUME Ongoing PROVE Ongoing'
    <3>1. PICK i \in DOMAIN stack : EndGoesOn(i)
      BY <2>4 DEF Ongoing
    <3>2. i # 1
      BY <1>00, <2>2, <3>1 DEF EndGoesOn
    <3>3. /\ i + 1 \in DOMAIN stack' /\ stack'[i + 1] = stack[i] /\ i + 1 > 1 /\ (i + 1) - 1 = i
          /\ i \in DOMAIN stack' /\ stack'[i] = stack[i - 1]
      BY <1>00, <2>1, <3>2 DEF Pushed
    <3> QED
      BY <1>6, <2>2, <3>1, <3>2, <3>3 DEF EndGoesOn
  <2>5. CASE isEnded' = isEnded
    BY <1>1, <1>2, <1>4, <1>8, <2>2, <2>4, <2>5
  <2> QED
    BY <2>1, <2>3, <2>5
\* There is one call of EndAsync at most; if it is the innermost, it goes on.
<1>11. ASSUME Ongoing, Top.proc = "End", Len(stack) > 0 PROVE EndGoesOn(1)
  <2>1. PICK i \in DOMAIN stack : EndGoesOn(i)
    BY <1>11 DEF Ongoing
  <2>2. i = 1
    BY <1>00, <1>11, <2>1 DEF EndGoesOn, IInv, EndInv, EndOK
  <2> QED
    BY <2>1, <2>2
<1>12. ASSUME Returned PROVE CompletionInv'
  <2>1. /\ UNCHANGED <<isEnded, calm, failure, buffered, endpoint>> /\ SameCounts
        /\ exn = NoException /\ Popped /\ Len(stack) > 0
        /\ completed' = (IF Top.proc = "Complete" THEN TRUE ELSE completed)
        /\ Top.proc = "End" => Top.pc = 5
    BY <1>12 DEF Returned, Waiting, Popped
  <2>2. completed => completed'
    BY <2>1
  <2>3. CASE Top.proc = "End"
    <3>1. ASSUME Ongoing PROVE Through'
      <4>1. EndGoesOn(1) /\ stack[1].pc = 5
        BY <1>00, <1>11, <2>1, <2>3, <3>1
      <4>2. AllRaised
        BY <4>1 DEF EndGoesOn, AllRaised
      <4>3. completed
        BY <2>1, <4>1 DEF EndGoesOn
      <4> QED
        BY <1>3, <2>1, <2>2, <4>2, <4>3 DEF Through
    <3> QED
      BY <1>1, <1>2, <1>4, <1>8, <2>1, <2>2, <3>1
  <2>4. CASE Top.proc # "End"
    <3>1. ASSUME Ongoing PROVE Ongoing'
      <4>1. PICK i \in DOMAIN stack : EndGoesOn(i)
        BY <3>1 DEF Ongoing
      <4>2. i # 1
        BY <1>00, <2>1, <2>4, <4>1 DEF EndGoesOn
      <4>3. i - 1 \in DOMAIN stack' /\ stack'[i - 1] = stack[i] /\ i > 1
        BY <1>00, <2>1, <4>2 DEF Popped
      <4>4. CASE i = 2
        <5>1. stack[i - 1] = Top
          BY <1>00, <2>1, <4>4
        <5>2. stack[i].pc = 5 => completed'
          BY <2>1, <2>2, <4>1, <4>2, <5>1 DEF EndGoesOn
        <5> QED
          BY <1>6, <2>1, <4>1, <4>3, <5>2
      <4>5. CASE i # 2
        <5>1. i - 1 > 1 /\ stack'[(i - 1) - 1] = stack[i - 1]
          BY <1>00, <2>1, <4>3, <4>5 DEF Popped
        <5>2. stack[i].pc = 5 => completed' \/ stack'[(i - 1) - 1].proc = "Complete"
          BY <2>2, <4>1, <4>2, <5>1 DEF EndGoesOn
        <5> QED
          BY <1>6, <2>1, <4>1, <4>3, <5>1, <5>2
      <4> QED
        BY <4>4, <4>5
    <3> QED
      BY <1>1, <1>2, <1>4, <1>8, <2>1, <2>2, <3>1
  <2> QED
    BY <2>3, <2>4
\* The innermost call is replaced, and is none of EndAsync or of what completes
\* the response.
<1>13. ASSUME NEW g, Replaced(g), Top.proc \notin {"End", "Complete"}, SameCounts,
              completed' = completed, Ongoing
       PROVE  Ongoing'
  <2>1. PICK i \in DOMAIN stack : EndGoesOn(i)
    BY <1>13 DEF Ongoing
  <2>2. i # 1 /\ Len(stack) > 0
    BY <1>00, <1>13, <2>1 DEF EndGoesOn, Replaced
  <2>3. i \in DOMAIN stack' /\ stack'[i] = stack[i] /\ i > 1
    BY <1>00, <1>13, <2>2 DEF Replaced
  <2>4. stack[i].pc = 5 => completed' \/ stack'[i - 1].proc = "Complete"
    <3>1. CASE i = 2
      <4>1. stack[i - 1] = Top
        BY <1>00, <2>2, <3>1
      <4> QED
        BY <1>13, <2>1, <2>2, <4>1 DEF EndGoesOn
    <3>2. CASE i # 2
      <4>1. stack'[i - 1] = stack[i - 1]
        BY <1>00, <1>13, <2>3, <3>2 DEF Replaced
      <4> QED
        BY <1>13, <2>1, <2>2, <4>1 DEF EndGoesOn
    <3> QED
      BY <3>1, <3>2
  <2> QED
    BY <1>6, <1>13, <2>1, <2>3, <2>4
<1>14. ASSUME Advanced PROVE CompletionInv'
  <2>1. /\ UNCHANGED <<isEnded, completed, calm, failure, buffered, endpoint>> /\ SameCounts
        /\ exn = NoException /\ Top.proc \notin {"End", "Complete"} /\ \E g : Replaced(g)
    BY <1>14 DEF Advanced, Inner, Waiting
  <2>2. Ongoing => Ongoing'
    BY <1>13, <2>1
  <2> QED
    BY <1>1, <1>2, <1>4, <1>8, <2>1, <2>2
<1>15. ASSUME NEW f, NEW g, Called(f, g), g.proc = Top.proc, Top.proc # "End", SameCounts,
              completed' = completed, Ongoing
       PROVE  Ongoing'
  <2>1. PICK i \in DOMAIN stack : EndGoesOn(i)
    BY <1>15 DEF Ongoing
  <2>2. i # 1 /\ Len(stack) > 0
    BY <1>00, <1>15, <2>1 DEF EndGoesOn, Called
  <2>3. i + 1 \in DOMAIN stack' /\ stack'[i + 1] = stack[i] /\ i + 1 > 1 /\ (i + 1) - 1 = i /\ i > 1
    BY <1>00, <1>15, <2>2 DEF Called
  <2>4. stack'[i].proc = stack[i - 1].proc
    <3>1. CASE i = 2
      <4>1. stack[i - 1] = Top /\ stack'[i] = g
        BY <1>00, <1>15, <2>2, <3>1 DEF Called
      <4> QED
        BY <1>15, <4>1
    <3>2. CASE i # 2
      BY <1>00, <1>15, <2>3, <3>2 DEF Called
    <3> QED
      BY <3>1, <3>2
  <2> QED
    BY <1>6, <1>15, <2>1, <2>2, <2>3, <2>4 DEF EndGoesOn
<1>16. ASSUME RaisesPreSend \/ Drains PROVE CompletionInv'
  <2>1. /\ UNCHANGED <<isEnded, completed, calm, failure, buffered, endpoint>> /\ SameCounts
        /\ exn = NoException /\ Top.proc # "End"
        /\ \E f, g : Called(f, g) /\ g.proc = Top.proc
    BY <1>16 DEF RaisesPreSend, Drains, Inner, SameCaller, Waiting
  <2>2. Ongoing => Ongoing'
    BY <1>15, <2>1
  <2> QED
    BY <1>1, <1>2, <1>4, <1>8, <2>1, <2>2
<1>17. ASSUME Completes PROVE CompletionInv'
  <2>1. PICK g : /\ Called(Frame("Complete", "none", 1), g) /\ g.proc = "End" /\ g.pc = 5
                 /\ Top.proc = "End" /\ Top.pc = 4
    BY <1>17 DEF Completes, SameCaller
  <2>2. /\ UNCHANGED <<isEnded, completed, calm, failure, buffered, endpoint>> /\ SameCounts
        /\ exn = NoException /\ Len(stack) > 0
    BY <1>17, <2>1 DEF Completes, Inner, Waiting, Called
  <2>3. ASSUME Ongoing PROVE Ongoing'
    <3>1. EndGoesOn(1) /\ stack[1].pc = 4
      BY <1>00, <1>11, <2>1, <2>2, <2>3
    <3>2. AllRaised
      BY <3>1 DEF EndGoesOn, AllRaised
    <3>3. AllRaised'
      BY <1>3, <2>2, <3>2
    <3>4. /\ 2 \in DOMAIN stack' /\ stack'[2].proc = "End" /\ stack'[2].pc = 5
          /\ stack'[2 - 1].proc = "Complete" /\ 2 > 1
      BY <1>00, <2>1, FrameFields DEF Called
    <3>5. EndGoesOn(2)'
      BY <3>3, <3>4 DEF EndGoesOn, AllRaised
    <3> QED
      BY <3>4, <3>5 DEF Ongoing
  <2> QED
    BY <1>1, <1>2, <1>4, <1>8, <2>2, <2>3
<1>18. ASSUME RaisesEnd PROVE CompletionInv'
  <2>1. PICK g : /\ Called(Frame("Raise", EndEvent(Top.pc), 0), g) /\ g.proc = "End" /\ g.pc = Top.pc + 1
                 /\ Top.proc = "End" /\ Top.pc \in 1 .. 3
                 /\ count' = [count EXCEPT ![EndEvent(Top.pc)] = @ + 1]
    BY <1>18 DEF RaisesEnd, SameCaller
  <2>2. /\ UNCHANGED <<isEnded, completed, calm, failure, buffered, endpoint>>
        /\ exn = NoException /\ Len(stack) > 0
    BY <1>18, <2>1 DEF RaisesEnd, Inner, Waiting, Called
  <2>3. /\ count[EndEvent(Top.pc)] = 0 /\ count \in [Counted -> Nat]
        /\ \A k \in 1 .. 3 : EndEvent(k) \in Counted
    <3>1. count[EndEvent(Top.pc)] = 0
      BY <1>00, <2>1, <2>2 DEF IInv, EndInv, EndOK
    <3> QED
      BY <3>1, <1>01, EventKinds DEF IInv, Types
  <2>4. ~AllRaised
    BY <2>1, <2>3 DEF AllRaised
  <2>5. ASSUME Ongoing PROVE Ongoing'
    <3>1. EndGoesOn(1)
      BY <1>11, <2>1, <2>2, <2>5
    <3>2. 2 \in DOMAIN stack' /\ stack'[2] = g
      BY <1>00, <2>1 DEF Called
    <3>3. ASSUME NEW k \in 1 .. 3, k < g.pc PROVE count'[EndEvent(k)] = 1
      <4>1. CASE k = Top.pc
        BY <2>1, <2>3, <4>1
      <4>2. CASE k < Top.pc
        <5>1. EndEvent(k) # EndEvent(Top.pc)
          BY <2>1, <4>2, EndEventNames
        <5>2. count[EndEvent(k)] = 1
          BY <1>00, <2>2, <3>1, <4>2 DEF EndGoesOn
        <5> QED
          BY <2>1, <2>3, <5>1, <5>2
      <4> QED
        BY <2>1, <3>3, <4>1, <4>2
    <3>4. stack'[2].pc # 5
      BY <2>1, <3>2
    <3>5. EndGoesOn(2)'
      BY <2>1, <3>2, <3>3, <3>4 DEF EndGoesOn
    <3> QED
      BY <3>2, <3>5 DEF Ongoing
  <2>6. ASSUME Lost PROVE Lost'
    BY <2>2, <2>4, <2>6 DEF Lost, Doomed, NoException, Exception
  <2> QED
    BY <1>1, <1>2, <2>2, <2>4, <2>5, <2>6 DEF Through
<1>19. ASSUME Caught PROVE CompletionInv'
  <2>1. /\ UNCHANGED <<isEnded, completed, calm, failure, buffered, endpoint>> /\ SameCounts
        /\ Top.proc \notin {"End", "Complete"} /\ ~IsReentrant(exn) /\ Len(stack) > 0
        /\ \E g : Replaced(g)
    BY <1>19 DEF Caught, Waiting, Replaced
  <2>2. Ongoing => Ongoing'
    BY <1>13, <2>1
  <2>3. ASSUME Lost PROVE Lost'
    <3>1. failure # NoException
      BY <1>00, <2>1, <2>3 DEF Lost, Doomed
    <3>2. Doomed'
      BY <2>1, <3>1 DEF Doomed, NoException, Exception
    <3> QED
      BY <1>5, <2>1, <2>3, <3>2
  <2> QED
    BY <1>1, <1>2, <1>4, <2>1, <2>2, <2>3
<1>20. ASSUME Unwound PROVE CompletionInv'
  <2>1. /\ UNCHANGED <<isEnded, completed, calm, failure, buffered, endpoint, exn, errors>> /\ SameCounts
        /\ exn # NoException /\ Popped /\ Len(stack) > 0
        /\ Top.proc = "Raise" => IsReentrant(exn)
    BY <1>20 DEF Unwound, Waiting, Popped
  <2>2. calm => InPassing
    BY <1>00, <2>1 DEF CalmInv
  <2>3. calm => Doomed'
    <3> SUFFICES ASSUME calm, stack' # <<>> PROVE IsReentrant(exn)'
      BY <2>1 DEF Doomed, NoException, Exception
    <3>1. Top.proc # "Endpoint"
      <4> SUFFICES ASSUME Top.proc = "Endpoint" PROVE FALSE
        OBVIOUS
      <4>1. Len(stack) = 1
        BY <1>00, <2>1 DEF EndpointInv
      <4>2. Len(stack') = 0
        BY <2>1, <4>1 DEF Popped
      <4> QED
        BY <1>0, <4>2 DEF Stacks
    <3>2. IsReentrant(exn)
      BY <2>1, <2>2, <3>1 DEF InPassing
    <3> QED
      BY <2>1, <3>2 DEF IsReentrant
  <2>4. CASE Top.proc = "End"
    <3>1. ASSUME Ongoing, calm PROVE Lost'
      <4>1. EndGoesOn(1)
        BY <1>11, <2>1, <2>4, <3>1
      <4>2. buffered => AllRaised
        <5> SUFFICES ASSUME buffered PROVE AllRaised
          OBVIOUS
        <5>1. stack[1].pc >= 4 /\ stack[1].pc \in 1 .. 5
          BY <1>00, <2>1, <2>2, <2>4, <3>1 DEF InPassing, StructInv
        <5> QED
          BY <4>1, <5>1 DEF EndGoesOn, AllRaised
      <4>3. buffered => AllRaised'
        BY <1>3, <2>1, <4>2
      <4> QED
        BY <2>1, <2>3, <3>1, <4>3 DEF Lost
    <3> QED
      BY <1>1, <1>2, <1>4, <1>5, <2>1, <2>3, <3>1
  <2>5. CASE Top.proc # "End"
    <3>1. ASSUME Ongoing PROVE Ongoing'
      <4>1. PICK i \in DOMAIN stack : EndGoesOn(i)
        BY <3>1 DEF Ongoing
      <4>2. i # 1
        BY <1>00, <2>1, <2>5, <4>1 DEF EndGoesOn
      <4>3. i - 1 \in DOMAIN stack' /\ stack'[i - 1] = stack[i] /\ i > 1
        BY <1>00, <2>1, <4>2 DEF Popped
      <4>4. CASE i = 2
        <5>1. i - 1 = 1 /\ exn' # NoException
          BY <2>1, <4>4
        <5> QED
          BY <1>6, <2>1, <4>1, <4>3, <5>1
      <4>5. CASE i # 2
        <5>1. i - 1 > 1 /\ stack'[(i - 1) - 1] = stack[i - 1]
          BY <1>00, <2>1, <4>3, <4>5 DEF Popped
        <5>2. stack[i].pc = 5 => completed' \/ stack'[(i - 1) - 1].proc = "Complete"
          BY <2>1, <4>1, <4>2, <5>1 DEF EndGoesOn
        <5> QED
          BY <1>6, <2>1, <4>1, <4>3, <5>1, <5>2
      <4> QED
        BY <4>4, <4>5
    <3> QED
      BY <1>1, <1>2, <1>4, <1>5, <2>1, <2>3, <3>1
  <2> QED
    BY <2>4, <2>5
<1>21. ASSUME CaughtEnd PROVE CompletionInv'
  <2>1. Replaced(Frame("End", "none", 1))
    BY <1>21, CaughtEndEnds
  <2> QED
    BY <1>2, <1>7, <2>1 DEF Replaced
\* The middleware runs when no call is under way.
<1>22. ASSUME stack = <<>> PROVE ~Ongoing
  BY <1>00, <1>22 DEF Ongoing
<1>23. ASSUME PipelineMoves PROVE CompletionInv'
  <2>1. /\ stack = <<>> /\ UNCHANGED <<completed, calm, buffered, endpoint>> /\ SameCounts
    BY <1>23
    DEF PipelineMoves, RaisesEvent, RunsEndpoint, Finishes, Moved, SessionFails, Fails, Ends, Quiet
  <2>2. ASSUME Finishes, ~isEnded, isEnded' PROVE Ongoing'
    <3>1. Pushed(Frame("End", "none", 1))
      BY <2>2 DEF Finishes
    <3> QED
      BY <1>7, <1>00, <3>1 DEF Pushed
  <2>3. isEnded' => isEnded \/ Finishes
    BY <1>23 DEF PipelineMoves, RaisesEvent, RunsEndpoint, Moved, SessionFails, Fails, Ends
  <2>4. Doomed => Doomed'
    <3>1. \/ exn = NoException /\ failure' = failure
          \/ exn # NoException /\ failure' = exn
          \/ failure' = (IF exn # NoException THEN exn ELSE failure)
      BY <1>23 DEF PipelineMoves, RaisesEvent, RunsEndpoint, Finishes, Moved, SessionFails, Fails, Ends
    <3> QED
      BY <2>1, <3>1 DEF Doomed, NoException, Exception
  <2> QED
    BY <1>1, <1>2, <1>4, <1>5, <1>22, <2>1, <2>2, <2>3, <2>4 DEF Lost
<1>24. ASSUME Stays PROVE CompletionInv'
  <2>1. /\ UNCHANGED <<stack, exn, errors, isEnded, completed, calm, failure, buffered, endpoint>>
        /\ SameCounts
    BY <1>24 DEF Stays, Quiet
  <2>2. ASSUME Ongoing PROVE Ongoing'
    <3>1. PICK i \in DOMAIN stack : EndGoesOn(i)
      BY <2>2 DEF Ongoing
    <3> QED
      BY <1>6, <2>1, <3>1 DEF EndGoesOn
  <2>3. Doomed => Doomed'
    BY <2>1 DEF Doomed, NoException, Exception, IsReentrant
  <2> QED
    BY <1>1, <1>2, <1>4, <1>5, <2>1, <2>2, <2>3 DEF Lost
<1> QED
  BY <1>0, <1>9, <1>10, <1>12, <1>14, <1>16, <1>17, <1>18, <1>19, <1>20, <1>21, <1>23, <1>24 DEF CallMoves

Notifications == (Events \ UnnotifiedEvents) \cup {"none"}

ScalarInv ==
  /\ completed \in BOOLEAN /\ notification \in Notifications
  /\ endFeature \in {"application", "throwing"}
  /\ presend \in {"NotStarted", "RaisingPreHeader", "ReadyForContent", "RaisingPreContent"}
  /\ session \in {"none", "loaded", "committed", "discarded"}
  /\ endpoint \in Endpoints /\ buffered \in Buffering
  /\ calls \in 0 .. MaxCalls /\ calm \in BOOLEAN

LEMMA ScalarStep ==
  ASSUME IInv, ScalarInv, [Next]_vars
  PROVE  ScalarInv'
<1> USE DEF ScalarInv
<1>1. ASSUME UNCHANGED <<completed, notification, endFeature, presend, session, endpoint, buffered, calls, calm>>
      PROVE  ScalarInv'
  BY <1>1
<1>2. ASSUME NEW event \in Events, Notify(event) PROVE notification' \in Notifications
  BY <1>2 DEF Notify, Notifications
<1>3. ASSUME NEW kind, UserCall(kind)
      PROVE  ScalarInv'
  <2>1. calls' \in 0 .. MaxCalls
    BY <1>3, ConstantsAssumption DEF UserCall
  <2>2. UNCHANGED <<completed, notification, endFeature, presend, session, endpoint, buffered>>
    BY <1>3 DEF UserCall, requestVars
  <2>3. calm' \in BOOLEAN
    BY <1>3 DEF UserCall
  <2> QED
    BY <2>1, <2>2, <2>3
<1>4. CASE UserStep
  <2>1. CASE Throw \/ AddError \/ ClearError \/ EndCall \/ Flush \/ Start
    BY <1>3, <2>1 DEF Throw, AddError, ClearError, EndCall, Flush, Start
  <2>2. CASE HandlersReturn \/ ErrorHandlersReturn \/ EndpointReturns
    BY <2>2
    DEF HandlersReturn, ErrorHandlersReturn, EndpointReturns, featureVars, responseVars, requestVars, callVars
  <2> QED
    BY <1>4, <2>1, <2>2 DEF UserStep
<1>5. CASE FeatureStep
  <2>1. CASE RaiseEndEvent
    <3>1. Top.pc \in 1 .. 3 /\ Notify(EndEvent(Top.pc))
      BY <2>1 DEF RaiseEndEvent, EndEvent
    <3>2. EndEvent(Top.pc) \in Events
      BY <3>1, EndEventNames DEF Events
    <3> QED
      BY <1>2, <2>1, <3>1, <3>2 DEF RaiseEndEvent, responseVars, requestVars, callVars
  <2>2. CASE RaisePreSendRequestHeaders
    BY <1>2, <2>2
    DEF RaisePreSendRequestHeaders, requestVars, callVars, Events, PreSendEvents
  <2>3. CASE RaisePreSendRequestContent
    BY <1>2, <2>3
    DEF RaisePreSendRequestContent, requestVars, callVars, Events, PreSendEvents
  <2>4. CASE CompleteResponse \/ EndReturns \/ DrainBuffer \/ Unwind
    BY <1>1, <2>4
    DEF CompleteResponse, EndReturns, DrainBuffer, Unwind, featureVars, responseVars, requestVars, callVars
  <2>5. CASE Completed
    BY <2>5 DEF Completed, featureVars, requestVars, callVars
  <2>6. CASE HeadersRaised
    BY <2>6 DEF HeadersRaised, featureVars, requestVars, callVars
  <2>7. CASE FlushReturns
    BY <2>7 DEF FlushReturns, featureVars, requestVars, callVars
  <2>8. CASE CatchInRaiseEvent
    BY <1>1, <2>8 DEF CatchInRaiseEvent, responseVars, requestVars, callVars
  <2>9. CASE CatchRequestEnd
    BY <2>9 DEF CatchRequestEnd, requestVars, callVars
  <2> QED
    BY <1>5, <2>1, <2>2, <2>3, <2>4, <2>5, <2>6, <2>7, <2>8, <2>9 DEF FeatureStep
<1>6. CASE PipelineStep
  <2>1. ASSUME NEW i, RaisePipelineEvent(i) PROVE ScalarInv'
    <3>1. Pipeline[i] \in Events /\ Notify(Pipeline[i])
      BY <2>1 DEF RaisePipelineEvent, Events
    <3> QED
      BY <1>2, <2>1, <3>1 DEF RaisePipelineEvent, responseVars, callVars
  <2>2. ASSUME NEW i, LeaveEvent(i) \/ LeaveEndpoint(i) \/ SessionThrows(i) PROVE ScalarInv'
    BY <1>1, <2>2
    DEF LeaveEvent, LeaveEndpoint, SessionThrows, featureVars, responseVars, requestVars, callVars
  <2>3. ASSUME NEW i, LoadSession(i) \/ CommitSession(i) PROVE ScalarInv'
    BY <2>3 DEF LoadSession, CommitSession, featureVars, responseVars, callVars
  <2>4. ASSUME NEW i, RunEndpoint(i) PROVE ScalarInv'
    BY <2>4 DEF RunEndpoint, featureVars, callVars
  <2>5. CASE LeavePipeline
    BY <2>5 DEF LeavePipeline, featureVars, responseVars, callVars
  <2>6. CASE EndInFinally \/ RequestDone
    BY <1>1, <2>6 DEF EndInFinally, RequestDone, featureVars, responseVars, callVars
  <2> QED
    BY <1>6, <2>1, <2>2, <2>3, <2>4, <2>5, <2>6 DEF PipelineStep
<1>7. CASE Terminating \/ UNCHANGED vars
  BY <1>1, <1>7 DEF Terminating, vars
<1> QED
  BY <1>4, <1>5, <1>6, <1>7 DEF Next

-----------------------------------------------------------------------------
(* The variables that keep their types, and the invariant as a whole.       *)

CallInv ==
  /\ ScalarInv /\ PcInv /\ NotifInv /\ ErrorsInv /\ EndpointInv /\ StructInv
  /\ FailInv /\ DoneInv /\ CalmInv /\ CompletionInv /\ FinallyInv

LEMMA CallInvHolds == Spec => [](IInv /\ CallInv)
<1>1. Init => IInv /\ CallInv
  <2> SUFFICES ASSUME Init PROVE IInv /\ CallInv
    OBVIOUS
  <2>1. /\ errors \in Seq(Simple) /\ DOMAIN errors = {}
        /\ stack = <<>> /\ DOMAIN stack = {}
    BY EmptySeq, LenProperties DEF Init
  <2>2. ScalarInv
    <3>1. calls \in 0 .. MaxCalls
      BY ConstantsAssumption DEF Init
    <3>2. completed \in BOOLEAN /\ calm \in BOOLEAN /\ notification \in Notifications
      BY Zenon DEF Init, Notifications
    <3> QED
      BY <3>1, <3>2 DEF Init, ScalarInv
  <2>3. PcInv /\ NotifInv /\ StructInv
    <3>1. \A i \in DOMAIN stack : FALSE
      BY <2>1
    <3>2. PcInv /\ NotifInv
      BY <3>1 DEF PcInv, NotifInv
    <3>3. StructInv
      BY ONLY <3>1 DEF StructInv
    <3> QED
      BY <3>2, <3>3
  <2>4. ErrorsInv
    BY <2>1 DEF Init, ErrorsInv, IsException
  <2>5. EndpointInv /\ FailInv
    BY <2>1 DEF Init, EndpointInv, FailInv, Recorded, NoException, Exception
  <2>6. DoneInv /\ FinallyInv
    BY <2>1 DEF Init, DoneInv, FinallyInv
  <2>7. CalmInv
    BY <2>1 DEF Init, CalmInv, Innermost
  <2>8. CompletionInv
    BY <2>1 DEF Init, CompletionInv
  <2> QED
    BY <2>2, <2>3, <2>4, <2>5, <2>6, <2>7, <2>8, InitHolds DEF CallInv
<1>2. IInv /\ CallInv /\ [Next]_vars => (IInv /\ CallInv)'
  BY StepHolds, ScalarStep, PcStep, NotifStep, ErrorsStep, EndpointStep, StructStep,
     FailStep, DoneStep, CalmStep, CompletionStep, FinallyStep
  DEF CallInv
<1> QED
  BY <1>1, <1>2, PTL DEF Spec

-----------------------------------------------------------------------------
(* The theorems.                                                            *)

\* No event is raised twice in a request, wherever and however often
\* application code ends it.
THEOREM EventsAreRaisedOnce == Spec => []EachEventOnce
<1>1. IInv => EachEventOnce
  <2> SUFFICES ASSUME IInv, NEW e \in SingleEvents PROVE count[e] <= 1
    BY DEF EachEventOnce
  <2>1. CASE e \in PipelineEvents
    BY <2>1, EventKinds DEF IInv, RaisedInv
  <2>2. CASE e \in EndEvents
    BY <2>2, EndEventNames DEF IInv, EndInv, EndOK
  <2>3. CASE e = "PreSendRequestHeaders"
    BY <2>3 DEF IInv, HeadersInv
  <2> QED
    BY <2>1, <2>2, <2>3, EventKinds
<1>2. IInv /\ [Next]_vars => IInv'
  BY StepHolds
<1> QED
  BY <1>1, <1>2, InitHolds, PTL DEF Spec

\* After the end of a request the middleware raises no event of the pipeline.
THEOREM EndIsFinal == Spec => NothingAfterEnd
<1>1. IInv /\ [Next]_vars => [isEnded => \A e \in PipelineEvents : count'[e] = count[e]]_vars
  BY StepHolds
<1>2. IInv /\ [Next]_vars => IInv'
  BY StepHolds
<1> QED
  BY <1>1, <1>2, InitHolds, PTL DEF Spec, NothingAfterEnd

\* A request whose session was discarded ends with an exception, and none leaves
\* its session unsettled.
THEOREM SessionsAreSettled == Spec => []DiscardedIsReported
<1>1. IInv => DiscardedIsReported
  BY PipelinePositions DEF IInv, SessionInv, DiscardedIsReported
<1>2. IInv /\ [Next]_vars => IInv'
  BY StepHolds
<1> QED
  BY <1>1, <1>2, InitHolds, PTL DEF Spec

\* No handler of a pre-send event has another one raised inside it, although it
\* may flush and start the response that it is called from.
THEOREM PreSendEventsAreApart == Spec => []PreSendEventsDoNotNest
<1>1. Init => SendInv
  BY EmptySeq, LenProperties DEF Init, SendInv, SendOK
<1>2. IInv /\ SendInv => PreSendEventsDoNotNest
  <2> SUFFICES ASSUME IInv, SendInv, NEW i \in DOMAIN stack, NEW j \in DOMAIN stack,
                      SendFrame(stack[i]), SendFrame(stack[j])
               PROVE  i = j
    BY DEF PreSendEventsDoNotNest, SendFrame
  <2>1. i \in Nat /\ j \in Nat
    BY LenProperties DEF IInv, Types
  <2> QED
    BY <2>1 DEF SendInv, SendOK, Inert
<1>3. IInv /\ SendInv /\ [Next]_vars => IInv' /\ SendInv'
  BY StepHolds, SendStep
<1> QED
  BY <1>1, <1>2, <1>3, InitHolds, PTL DEF Spec

\* The variables of a request keep their types: the calls under way are those
\* of the code, and only exceptions of the application are recorded.
THEOREM TypesHold == Spec => []TypeOK
<1>1. IInv /\ CallInv => TypeOK
  <2> SUFFICES ASSUME IInv, CallInv PROVE TypeOK
    OBVIOUS
  <2>1. \A i \in DOMAIN stack :
          stack[i].proc \in Procs /\ stack[i].event \in Events \cup {"none"} /\ stack[i].pc \in 0 .. 5
    <3>1. \A i \in DOMAIN stack : stack[i] \in Frames
      BY ElementOfSeq, LenProperties DEF IInv, Types
    <3> QED
      BY <3>1 DEF CallInv, PcInv, Frames
  <2>2. \A i \in DOMAIN errors : errors[i].kind \in ExceptionKinds \ {"none"}
    <3>1. \A i \in DOMAIN errors : errors[i] \in Simple
      BY ElementOfSeq, LenProperties DEF CallInv, ErrorsInv
    <3> QED
      BY <3>1 DEF Simple, ExceptionKinds
  <2>3. exn.kind \in ExceptionKinds /\ failure.kind \in ExceptionKinds
    <3>1. ASSUME NEW e, IsException(e) PROVE e.kind \in ExceptionKinds
      BY <3>1 DEF IsException, Simple, NoException, Exception, ExceptionKinds
    <3> QED
      BY <3>1 DEF CallInv, ErrorsInv
  <2> QED
    BY <2>1, <2>2, <2>3, PipelinePositions
    DEF TypeOK, CallInv, ScalarInv, IInv, Types, Notifications
<1> QED
  BY <1>1, CallInvHolds, PTL

\* An exception is recorded once only.
THEOREM ErrorsAreRecordedOnce == Spec => []RecordedOnce
<1>1. CallInv => RecordedOnce
  <2> SUFFICES ASSUME CallInv PROVE RecordedOnce
    OBVIOUS
  <2>1. \A i \in DOMAIN errors : errors[i] \in Simple
    BY ElementOfSeq, LenProperties DEF CallInv, ErrorsInv
  <2> QED
    BY <2>1 DEF RecordedOnce, CallInv, ErrorsInv, Simple
<1> QED
  BY <1>1, CallInvHolds, PTL

\* A request for which a handler threw, or that broke an IHttpHandler off, fails
\* unless its errors were cleared.
THEOREM FailuresAreReported == Spec => []FailuresSurface
<1>1. IInv /\ CallInv => FailuresSurface
  <2> SUFFICES ASSUME IInv, CallInv, step = Done,
                      \E i \in DOMAIN errors : errors[i].kind \in {"thrown", "requestEnd"}
               PROVE  failure # NoException
    BY DEF FailuresSurface
  <2>1. exn = NoException /\ stack = <<>>
    BY PipelinePositions DEF CallInv, DoneInv
  <2>2. DOMAIN stack = {}
    BY <2>1, EmptySeq, LenProperties
  <2> QED
    BY <2>1, <2>2 DEF CallInv, FailInv, Recorded
<1> QED
  BY <1>1, CallInvHolds, PTL

\* The handlers of an event see it as the current notification, whatever events
\* were raised from inside them, until one of them ends the request.
THEOREM NotificationsAreCurrent == Spec => []NotificationIsCurrent
<1>1. IInv /\ CallInv => NotificationIsCurrent
  <2> SUFFICES ASSUME IInv, CallInv, stack # <<>>, Top.proc = "Raise",
                      Top.event \notin UnnotifiedEvents, ~isEnded
               PROVE  notification = Top.event
    BY DEF NotificationIsCurrent, UserCode, Running
  <2>1. 1 \in DOMAIN stack /\ stack[1] = Top
    BY PopFrame, LenProperties DEF IInv, Types, Top
  <2> QED
    BY <2>1 DEF CallInv, NotifInv
<1> QED
  BY <1>1, CallInvHolds, PTL

\* A request that succeeds was completed after its last three events, and a
\* buffered one with a plain endpoint has them raised even if it fails, for any
\* number of calls from any event.
THEOREM RequestsAreEnded == Spec => []EndEventsRaised
<1>1. IInv /\ CallInv => EndEventsRaised
  <2> SUFFICES ASSUME IInv, CallInv, step = Done, calm,
                      failure = NoException \/ (buffered /\ endpoint = "delegate")
               PROVE  /\ \A e \in EndEvents : count[e] = 1
                      /\ failure = NoException => completed
    BY DEF EndEventsRaised
  <2>1. exn = NoException /\ stack = <<>>
    BY PipelinePositions DEF CallInv, DoneInv
  <2>2. ~Ongoing
    BY <2>1, EmptySeq, LenProperties DEF Ongoing
  <2>3. isEnded
    BY PipelinePositions DEF CallInv, FinallyInv
  <2>4. AllRaised /\ (failure = NoException => completed)
    BY <2>1, <2>2, <2>3 DEF CallInv, CompletionInv, Through, Lost, Doomed
  <2> QED
    BY <2>4, EndEventNames DEF AllRaised
<1> QED
  BY <1>1, CallInvHolds, PTL
=============================================================================
