------------------------- MODULE PipelineFork_proofs -------------------------
(***************************************************************************)
(* What the forks of a request keep, whatever the stages and the           *)
(* configuration are.                                                      *)
(*                                                                         *)
(* One pipeline runs at a time: the pipelines that are under way form a    *)
(* chain of waits that begins with the request, and the last one of it     *)
(* runs.  The middlewares run on time: the fold over the configuration     *)
(* gives each to the stage of the marker behind it, and the log holds what *)
(* the forks that were started have entered, in the order of the           *)
(* configuration.  They are left in the reverse of that order: the stack   *)
(* holds the forks in the order they were started in, and its enumeration  *)
(* leaves one after the other.                                             *)
(***************************************************************************)
EXTENDS PipelineFork, WellFoundedInduction, SequenceTheorems, TLAPS

\* What the proof needs of the types; the log and the stages are left open.
\* A stage waits for an authentication only, which waits for nothing.
Shape ==
    /\ DOMAIN status = Pipelines
    /\ status[Main] \in {"running", "completing", "ended"}
    /\ \A f \in Forks : status[f] \in {"none", "in", "out", "joined", "ended", "faulted"}
    /\ waitsFor \in [Pipelines -> Forks \cup {Nobody}]
    /\ \A s \in Stages : waitsFor[s] \in {Auth, Nobody}
    /\ waitsFor[Auth] = Nobody

\* A fork that is waited for was started, and its join wakes one pipeline.
WaitsAreFounded ==
    \A p \in Pipelines : waitsFor[p] \in Forks => status[waitsFor[p]] # "none"

OneIsWoken ==
    \A p, q \in Pipelines :
        waitsFor[p] = waitsFor[q] /\ waitsFor[p] \in Forks /\ p # q
            => status[waitsFor[p]] # "in"

\* A fork that waits is under way, and a fork that is under way is waited for.
WaitingIsLive ==
    \A f \in Forks : waitsFor[f] # Nobody => status[f] \in {"in", "out"}

LiveIsAwaited ==
    \A f \in Forks : status[f] \in {"in", "out"} => \E p \in Pipelines : waitsFor[p] = f

\* The forks on the stack were started, the stages to come were not.
Started ==
    /\ event \in Nat /\ visited \in Nat
    /\ forks \in Seq(Forks)
    /\ \A i \in DOMAIN forks : status[forks[i]] # "none"
    /\ \A s \in Stages : s >= event => status[s] = "none"

Chain ==
    /\ Shape
    /\ WaitsAreFounded
    /\ OneIsWoken
    /\ WaitingIsLive
    /\ LiveIsAwaited
    /\ OnePipelineRuns

IInv == Chain /\ Started

LEMMA Names ==
    /\ Nobody \notin Forks
    /\ Main \in Pipelines /\ Main \notin Forks
    /\ Forks \subseteq Pipelines
    /\ Stages \subseteq Forks /\ Stages \subseteq Nat
    /\ Auth \in Forks /\ Auth \notin Stages
    /\ Forks = Stages \cup {Auth}
    /\ Pipelines = Forks \cup {Main}
  BY ConstantsAssumption, SMT DEF Nobody, Forks, Main, Pipelines, Stages, Auth

LEMMA InitHolds == Init => IInv
  <1> SUFFICES ASSUME Init PROVE IInv
    OBVIOUS
  <1>1. Shape /\ WaitsAreFounded /\ OneIsWoken /\ WaitingIsLive /\ LiveIsAwaited
    BY Names DEF Init, Shape, WaitsAreFounded, OneIsWoken, WaitingIsLive, LiveIsAwaited
  <1>2. OnePipelineRuns
    BY Names DEF Init, OnePipelineRuns, Active
  <1>3. Started
    BY Names DEF Init, Started
  <1> QED BY <1>1, <1>2, <1>3 DEF IInv, Chain

\* Starting a fork that was not started before.
LEMMA ForkKeeps ==
    ASSUME IInv, NEW p \in Pipelines, NEW f \in Forks,
           p = Main \/ (p \in Stages /\ f = Auth),
           Active(p), status[f] = "none", Fork(p, f)
    PROVE  Chain'
  <1>1. p # f
    BY DEF Active
  <1>2. Shape'
    BY Names DEF IInv, Chain, Shape, Fork
  <1>3. \A q \in Pipelines : waitsFor[q] # f
    BY DEF IInv, Chain, WaitsAreFounded
  <1>4. WaitsAreFounded' /\ OneIsWoken'
    BY <1>1, <1>3, Names DEF IInv, Chain, Shape, WaitsAreFounded, OneIsWoken, Fork
  <1>5. WaitingIsLive'
    BY <1>1, Names DEF IInv, Chain, Shape, WaitingIsLive, Active, Fork
  <1>6. LiveIsAwaited'
    BY <1>1, Names DEF IInv, Chain, Shape, LiveIsAwaited, Active, Fork
  <1>7. OnePipelineRuns'
    BY <1>1, Names DEF IInv, Chain, Shape, OnePipelineRuns, Active, Fork
  <1> QED BY <1>2, <1>4, <1>5, <1>6, <1>7 DEF Chain

\* A pipeline that runs goes on, stops or fails; none is woken.
LEMMA MoveKeeps ==
    ASSUME IInv, NEW p \in Pipelines, NEW s, Active(p),
           s \in IF p = Main THEN {"completing", "ended"} ELSE {"out", "ended", "faulted"},
           status' = [status EXCEPT ![p] = s], UNCHANGED waitsFor
    PROVE  Chain'
  <1>1. Shape' /\ WaitsAreFounded' /\ OneIsWoken'
    BY Names DEF IInv, Chain, Shape, WaitsAreFounded, OneIsWoken
  <1>2. WaitingIsLive' /\ LiveIsAwaited'
    BY Names DEF IInv, Chain, Shape, WaitingIsLive, LiveIsAwaited, Active
  <1>3. OnePipelineRuns'
    BY Names DEF IInv, Chain, Shape, OnePipelineRuns, Active
  <1> QED BY <1>1, <1>2, <1>3 DEF Chain

LEMMA JoinKeeps ==
    ASSUME IInv, NEW f \in Forks, Join(f)
    PROVE  Chain'
  <1>1. CASE Head(forks) = f
    <2>1. /\ status' = [status EXCEPT ![f] = "joined"]
          /\ waitsFor' = [p \in Pipelines |-> IF waitsFor[p] = f THEN Nobody ELSE waitsFor[p]]
          /\ status[f] = "in" /\ Active(f)
      BY <1>1 DEF Join
    <2>2. Shape'
      BY <2>1, Names DEF IInv, Chain, Shape
    <2>3. WaitsAreFounded' /\ OneIsWoken'
      BY <2>1, Names DEF IInv, Chain, Shape, WaitsAreFounded, OneIsWoken
    <2>4. WaitingIsLive' /\ LiveIsAwaited'
      BY <2>1, Names DEF IInv, Chain, Shape, WaitingIsLive, LiveIsAwaited, Active
    <2>5. OnePipelineRuns'
      <3> SUFFICES ASSUME NEW p \in Pipelines, NEW q \in Pipelines, Active(p)', Active(q)'
                   PROVE  p = q
        BY DEF OnePipelineRuns
      <3>1. p # f /\ q # f
        BY <2>1, Names DEF Active, IInv, Chain, Shape
      <3>2. ~Active(p) /\ ~Active(q)
        BY <2>1, <3>1, Names DEF IInv, Chain, OnePipelineRuns
      <3>3. waitsFor[p] = f /\ waitsFor[q] = f
        BY <2>1, <3>1, <3>2 DEF Active, IInv, Chain, Shape
      <3> QED BY <2>1, <3>3 DEF IInv, Chain, OneIsWoken
    <2> QED BY <2>2, <2>3, <2>4, <2>5 DEF Chain
  <1>2. CASE Head(forks) # f
    BY <1>2, MoveKeeps, Names DEF Join
  <1> QED BY <1>1, <1>2

LEMMA ForkStepKeeps ==
    ASSUME IInv, NEW f \in Forks, ForkStep(f)
    PROVE  IInv'
  <1> USE Names
  <1>1. ASSUME UNCHANGED <<status, waitsFor>> PROVE Chain'
    BY <1>1 DEF IInv, Chain, Shape, WaitsAreFounded, OneIsWoken, WaitingIsLive,
                LiveIsAwaited, OnePipelineRuns, Active
  <1>2. Chain'
    <2>1. CASE Enter(f)
      BY <2>1, <1>1 DEF Enter
    <2>2. CASE Join(f)
      BY <2>2, JoinKeeps
    <2>3. CASE ShortCircuit(f)
      BY <2>3, MoveKeeps DEF ShortCircuit
    <2>4. CASE MiddlewareThrows(f)
      BY <2>4, MoveKeeps DEF MiddlewareThrows
    <2>5. CASE Leave(f)
      BY <2>5, <1>1 DEF Leave
    <2>6. CASE EndTask(f)
      BY <2>6, MoveKeeps DEF EndTask
    <2> QED BY <2>1, <2>2, <2>3, <2>4, <2>5, <2>6 DEF ForkStep
  <1>3. status[f] \in {"in", "out"} /\ UNCHANGED <<event, visited, forks>>
    BY DEF ForkStep, Enter, Join, ShortCircuit, MiddlewareThrows, Leave, EndTask, Active,
           IInv, Chain, Shape
  <1>4. /\ status'[f] # "none"
        /\ \A p \in Pipelines : p # f => status'[p] = status[p]
    <2>1. \/ status' = status
          \/ \E s \in {"out", "joined", "ended", "faulted"} : status' = [status EXCEPT ![f] = s]
      <3>1. Enter(f) \/ Leave(f) => status' = status
        BY DEF Enter, Leave
      <3>2. Join(f) => \E s \in {"joined", "faulted"} : status' = [status EXCEPT ![f] = s]
        BY DEF Join
      <3>3. ShortCircuit(f) \/ MiddlewareThrows(f) \/ EndTask(f) =>
                \E s \in {"out", "faulted", "ended"} : status' = [status EXCEPT ![f] = s]
        BY DEF ShortCircuit, MiddlewareThrows, EndTask
      <3> QED BY <3>1, <3>2, <3>3 DEF ForkStep
    <2> QED BY <1>3, <2>1 DEF IInv, Chain, Shape
  <1>5. Started'
    <2>1. \A p \in Pipelines : status[p] # "none" => status'[p] # "none"
      BY <1>4
    <2>2. \A i \in DOMAIN forks : forks[i] \in Pipelines
      BY DEF IInv, Started
    <2>3. \A s \in Stages : status[s] = "none" => status'[s] = "none"
      BY <1>3, <1>4
    <2> QED BY <1>3, <2>1, <2>2, <2>3 DEF IInv, Started
  <1> QED BY <1>2, <1>5 DEF IInv

LEMMA RaiseEventKeeps ==
    ASSUME IInv, RaiseEvent
    PROVE  IInv'
  <1> USE Names
  <1>1. event \in Stages /\ event' = event + 1 /\ status[event] = "none" /\ Active(Main)
    BY DEF RaiseEvent, IInv, Started
  <1>2. CASE event \in DOMAIN StageEntries
    <2>1. Fork(Main, event)
      BY <1>2 DEF RaiseEvent
    <2>2. Chain'
      BY <1>1, <2>1, ForkKeeps
    <2>3. Started'
      BY <1>1, <2>1 DEF IInv, Chain, Shape, Started, Fork
    <2> QED BY <2>2, <2>3 DEF IInv
  <1>3. CASE event \notin DOMAIN StageEntries
    BY <1>1, <1>3 DEF RaiseEvent, IInv, Chain, Shape, WaitsAreFounded, OneIsWoken,
                      WaitingIsLive, LiveIsAwaited, OnePipelineRuns, Active, Started
  <1> QED BY <1>2, <1>3

LEMMA AuthenticateKeeps ==
    ASSUME IInv, NEW p \in Stages \cup {Main}, Authenticate(p)
    PROVE  IInv'
  <1> USE Names
  <1>1. Fork(p, Auth) /\ status[Auth] = "none" /\ Active(p) /\ UNCHANGED event
    BY DEF Authenticate
  <1>2. Chain'
    BY <1>1, ForkKeeps
  <1>3. Started'
    BY <1>1 DEF IInv, Chain, Shape, Started, Fork
  <1> QED BY <1>2, <1>3 DEF IInv

LEMMA ResumeKeeps ==
    ASSUME IInv, Resume
    PROVE  IInv'
  <1> USE Names
  <1> DEFINE f == forks[visited + 1]
  <1>1. /\ visited + 1 \in DOMAIN forks
        /\ f \in Forks
        /\ Active(Main) /\ status[Main] = "completing"
        /\ status' = [status EXCEPT ![f] = "out"]
        /\ waitsFor' = [waitsFor EXCEPT ![Main] = f]
        /\ visited' = visited + 1
        /\ UNCHANGED <<event, forks>>
    BY DEF Resume, ResumeNext, Completing, IInv, Started
  <1> HIDE DEF f
  <1>2. Shape'
    BY <1>1 DEF IInv, Chain, Shape
  <1>3. WaitsAreFounded' /\ OneIsWoken'
    BY <1>1 DEF IInv, Chain, Shape, WaitsAreFounded, OneIsWoken
  <1>4. WaitingIsLive' /\ LiveIsAwaited'
    BY <1>1 DEF IInv, Chain, Shape, WaitingIsLive, LiveIsAwaited, Active
  <1>5. OnePipelineRuns'
    BY <1>1 DEF IInv, Chain, Shape, OnePipelineRuns, Active
  <1>6. Started'
    BY <1>1 DEF IInv, Chain, Shape, Started, f
  <1> QED BY <1>2, <1>3, <1>4, <1>5, <1>6 DEF IInv, Chain

\* While the request waits for a fork that is over, no other pipeline runs.
LEMMA AwaitedKeeps ==
    ASSUME IInv, Awaited
    PROVE  IInv'
  <1> USE Names
  <1>1. \A q \in Pipelines : ~Active(q)
    <2> SUFFICES ASSUME NEW q \in Pipelines, Active(q) PROVE FALSE
      OBVIOUS
    <2>1. q \in Forks /\ status[q] \in {"in", "out"} /\ waitsFor[q] = Nobody
      BY DEF Awaited, Active, IInv, Chain, Shape
    <2>2. PICK r \in Pipelines : waitsFor[r] = q
      BY <2>1 DEF IInv, Chain, LiveIsAwaited
    <2>3. r # Main
      BY <2>1, <2>2 DEF Awaited
    <2>4. r \in Stages /\ q = Auth
      BY <2>1, <2>2, <2>3 DEF IInv, Chain, Shape
    <2>5. PICK w \in Pipelines : waitsFor[w] = r
      BY <2>2, <2>1, <2>4 DEF IInv, Chain, WaitingIsLive, LiveIsAwaited
    <2>6. w = Main
      BY <2>4, <2>5 DEF IInv, Chain, Shape
    <2>7. status[r] \in {"in", "out"}
      BY <2>1, <2>2, <2>4 DEF IInv, Chain, WaitingIsLive
    <2> QED BY <2>5, <2>6, <2>7 DEF Awaited
  <1>2. /\ waitsFor' = [waitsFor EXCEPT ![Main] = Nobody]
        /\ status' = status \/ status' = [status EXCEPT ![Main] = "ended"]
        /\ status[waitsFor[Main]] \in {"ended", "faulted"}
        /\ waitsFor[Main] \in Forks
        /\ UNCHANGED <<event, visited, forks>>
    BY DEF Awaited, IInv, Chain, Shape
  <1>3. Shape' /\ WaitsAreFounded' /\ OneIsWoken'
    BY <1>2 DEF IInv, Chain, Shape, WaitsAreFounded, OneIsWoken
  <1>4. WaitingIsLive' /\ LiveIsAwaited'
    BY <1>2 DEF IInv, Chain, Shape, WaitingIsLive, LiveIsAwaited
  <1>5. \A q \in Forks : ~Active(q)'
    BY <1>1, <1>2 DEF IInv, Chain, Shape, Active
  <1>6. OnePipelineRuns'
    BY <1>5 DEF OnePipelineRuns
  <1>7. Started'
    BY <1>2 DEF IInv, Chain, Shape, Started
  <1> QED BY <1>3, <1>4, <1>6, <1>7 DEF IInv, Chain

LEMMA NextKeeps == IInv /\ [Next]_vars => IInv'
  <1> USE Names
  <1> SUFFICES ASSUME IInv, [Next]_vars PROVE IInv'
    OBVIOUS
  <1>1. CASE RaiseEvent
    BY <1>1, RaiseEventKeeps
  <1>2. CASE CompleteResponse
    <2>1. Chain'
      BY <1>2, MoveKeeps DEF CompleteResponse
    <2> QED BY <1>2, <2>1 DEF CompleteResponse, IInv, Chain, Shape, Started
  <1>3. CASE Resume
    BY <1>3, ResumeKeeps
  <1>4. CASE Awaited
    BY <1>4, AwaitedKeeps
  <1>5. CASE EnumerationThrows
    <2>1. Chain'
      BY <1>5, MoveKeeps DEF EnumerationThrows, Completing
    <2> QED BY <1>5, <2>1 DEF EnumerationThrows, IInv, Chain, Shape, Started
  <1>6. CASE FinishCompletion
    <2>1. Chain'
      BY <1>6, MoveKeeps DEF FinishCompletion, Completing
    <2> QED BY <1>6, <2>1 DEF FinishCompletion, IInv, Chain, Shape, Started
  <1>7. CASE \E p \in Stages \cup {Main} : Authenticate(p)
    BY <1>7, AuthenticateKeeps
  <1>8. CASE \E f \in Forks : ForkStep(f)
    BY <1>8, ForkStepKeeps
  <1>9. CASE UNCHANGED vars
    BY <1>9 DEF vars, IInv, Chain, Shape, WaitsAreFounded, OneIsWoken, WaitingIsLive,
                LiveIsAwaited, OnePipelineRuns, Active, Started
  <1> QED BY <1>1, <1>2, <1>3, <1>4, <1>5, <1>6, <1>7, <1>8, <1>9 DEF Next, MainStep, Over

\* Whatever the stages, the markers and the middlewares of the application
\* are, no two pipelines of a request run at once: the fork that was started
\* last runs, and the request and the forks that called it wait for it, until
\* CompleteAsync resumes one fork after the other.
THEOREM OnePipelineAtATime == Spec => []OnePipelineRuns
  <1>1. IInv => OnePipelineRuns
    BY DEF IInv, Chain
  <1> QED BY <1>1, InitHolds, NextKeeps, PTL DEF Spec

-----------------------------------------------------------------------------
(* Induction over the naturals, stated of sets: the provers cannot          *)
(* instantiate the theorems of the library that are stated of predicates.   *)

LEMMA LeastElement ==
  ASSUME NEW T \in SUBSET Nat, T # {}
  PROVE  \E x \in T : \A y \in T : x <= y
  <1> DEFINE R == OpToRel(<, Nat)
  <1>1. IsWellFoundedOn(R, Nat)
    BY NatLessThanWellFounded
  <1>2. R = {ss \in Nat \X Nat : ss[1] < ss[2]}
    BY DEF OpToRel
  <1> HIDE DEF R
  <1>3. PICK x \in T : \A y \in T : ~ (<<y, x>> \in R)
    BY <1>1, WFMin
  <1>4. ASSUME NEW y \in T PROVE x <= y
    <2>1. <<y, x>> \notin R /\ y \in Nat /\ x \in Nat
      BY <1>3
    <2> QED
      BY <1>2, <2>1
  <1> QED
    BY <1>4

LEMMA SetInduction ==
  ASSUME NEW T \in SUBSET Nat, 0 \in T, \A n \in T : n + 1 \in T
  PROVE  T = Nat
  <1> SUFFICES ASSUME Nat \ T # {} PROVE FALSE
    OBVIOUS
  <1>1. Nat \ T \in SUBSET Nat
    OBVIOUS
  <1>2. PICK x \in Nat \ T : \A y \in Nat \ T : x <= y
    BY <1>1, LeastElement
  <1>3. x # 0 /\ x - 1 \in Nat
    BY <1>2
  <1>4. x - 1 \in T
    BY <1>2, <1>3
  <1> QED
    BY <1>2, <1>3, <1>4

-----------------------------------------------------------------------------
(* The fold over the configuration computes what it says, from the last     *)
(* entry to the first.                                                      *)

Nothing == [next |-> <<>>, stage |-> LastStage, entry |-> <<>>]

First(s) == CHOOSE x \in s : \A y \in s : x <= y

LEMMA FirstIs ==
  ASSUME NEW s \in SUBSET Nat, s # {}
  PROVE  First(s) \in s /\ \A y \in s : First(s) <= y
  <1>1. \E x \in s : \A y \in s : x <= y
    BY LeastElement
  <1> QED
    BY <1>1 DEF First

LEMMA Fold ==
  ASSUME NEW n \in Nat, app \in [1 .. n -> Entries]
  PROVE  \E b : /\ b[n + 1] = Nothing
                /\ \A k \in 1 .. n : b[k] = AddEntry(k, b[k + 1])
                /\ StageEntries = Closed(b[1])
  <1> DEFINE D == 1 .. n
             id == [i \in DOMAIN app |-> i]
             Body(g, s) == IF s = {} THEN Nothing ELSE AddEntry(id[First(s)], g[s \ {First(s)}])
             Computes(g, m) == \A s \in SUBSET (m .. n) : g[s] = Body(g, s)
             T == {k \in Nat : k <= n => \E g : Computes(g, n - k + 1)}
  <1>1. 0 \in T
    <2> DEFINE g == [s \in {{}} |-> Nothing]
    <2>1. \A s \in SUBSET (n - 0 + 1 .. n) : s = {}
      OBVIOUS
    <2>2. Computes(g, n - 0 + 1)
      BY <2>1
    <2> HIDE DEF Computes
    <2> QED
      BY <2>2
  <1>2. ASSUME NEW k \in T PROVE k + 1 \in T
    <2> SUFFICES ASSUME k + 1 <= n
                 PROVE  \E g : Computes(g, n - (k + 1) + 1)
      <3> HIDE DEF Computes
      <3> QED
        OBVIOUS
    <2>1. PICK g : Computes(g, n - k + 1)
      <3> HIDE DEF Computes
      <3> QED
        BY <1>2
    <2> DEFINE h == [s \in SUBSET (n - (k + 1) + 1 .. n) |-> Body(g, s)]
    <2>2. ASSUME NEW s \in SUBSET (n - (k + 1) + 1 .. n), s # {}
          PROVE  g[s \ {First(s)}] = h[s \ {First(s)}]
      <3>1. s \in SUBSET Nat
        OBVIOUS
      <3>2. First(s) \in s /\ \A y \in s : First(s) <= y
        BY <2>2, <3>1, FirstIs
      <3>3. s \ {First(s)} \in SUBSET (n - k + 1 .. n)
        <4>1. First(s) \in n - (k + 1) + 1 .. n
          BY <3>2
        <4>2. ASSUME NEW x \in s, x # First(s) PROVE x \in n - k + 1 .. n
          <5>1. x \in n - (k + 1) + 1 .. n /\ First(s) <= x
            BY <3>2
          <5> QED
            BY <4>1, <4>2, <5>1
        <4> QED
          BY <4>2
      <3>4. s \ {First(s)} \in SUBSET (n - (k + 1) + 1 .. n)
        OBVIOUS
      <3> HIDE DEF Body
      <3> QED
        BY <2>1, <3>3, <3>4
    <2>3. ASSUME NEW s \in SUBSET (n - (k + 1) + 1 .. n)
          PROVE  h[s] = Body(h, s)
      <3>1. h[s] = Body(g, s)
        OBVIOUS
      <3>2. CASE s = {}
        BY <3>1, <3>2
      <3>3. CASE s # {}
        <4>1. g[s \ {First(s)}] = h[s \ {First(s)}]
          BY <2>2, <3>3
        <4> HIDE DEF h
        <4> QED
          BY <3>1, <4>1
      <3> QED
        BY <3>2, <3>3
    <2> HIDE DEF h, Body
    <2> QED
      BY <2>3
  <1>3. n \in T
    <2> HIDE DEF T
    <2>1. T \in SUBSET Nat
      BY DEF T
    <2> QED
      BY <1>1, <1>2, <2>1, SetInduction
  <1>4. PICK g : \A s \in SUBSET D : g[s] = Body(g, s)
    <2>1. n - n + 1 = 1 /\ n <= n
      OBVIOUS
    <2>2. \E g : Computes(g, 1)
      <3> HIDE DEF Computes
      <3> QED
        BY <1>3, <2>1
    <2> QED
      BY <2>2
  <1> DEFINE h == [s \in SUBSET D |-> g[s]]
  <1>5. h = [s \in SUBSET D |-> Body(h, s)]
    <2>1. ASSUME NEW s \in SUBSET D PROVE g[s] = Body(h, s)
      <3>1. g[s \ {First(s)}] = h[s \ {First(s)}]
        OBVIOUS
      <3> HIDE DEF h
      <3> QED
        BY <1>4, <3>1
    <2> HIDE DEF Body
    <2> QED
      BY <2>1
  <1> DEFINE iter == CHOOSE it : it = [s \in SUBSET D |-> Body(it, s)]
  <1>6. iter = [s \in SUBSET D |-> Body(iter, s)]
    <2> HIDE DEF h, Body
    <2> QED
      BY <1>5
  <1>7. DOMAIN id = D
    OBVIOUS
  <1>8. StageEntries = Closed(iter[D])
    BY <1>7, Zenon DEF StageEntries, FoldRight, MapThenFoldSet, Min, First, Nothing
  <1> HIDE DEF iter
  <1> DEFINE b == [k \in 1 .. n + 1 |-> iter[k .. n]]
  <1>9. b[n + 1] = Nothing
    <2>1. n + 1 .. n = {} /\ n + 1 \in 1 .. n + 1
      OBVIOUS
    <2>2. iter[{}] = Nothing
      BY <1>6
    <2> QED
      BY <2>1, <2>2
  <1>10. ASSUME NEW k \in 1 .. n PROVE b[k] = AddEntry(k, b[k + 1])
    <2>1. /\ (k .. n) \subseteq D /\ (k .. n) \subseteq Nat
          /\ k \in k .. n
      OBVIOUS
    <2>2. First(k .. n) = k
      <3>1. First(k .. n) \in k .. n /\ \A y \in k .. n : First(k .. n) <= y
        BY <2>1, FirstIs
      <3> QED
        BY <3>1
    <2>3. (k .. n) \ {k} = k + 1 .. n
      OBVIOUS
    <2>4. iter[k .. n] = AddEntry(id[k], iter[k + 1 .. n])
      BY <1>6, <2>1, <2>2, <2>3
    <2>5. id[k] = k
      OBVIOUS
    <2>6. b[k] = iter[k .. n] /\ b[k + 1] = iter[k + 1 .. n]
      OBVIOUS
    <2> QED
      BY <2>4, <2>5, <2>6
  <1>11. b[1] = iter[D]
    OBVIOUS
  <1> HIDE DEF b
  <1> QED
    BY <1>8, <1>9, <1>10, <1>11

-----------------------------------------------------------------------------
(* The stages of the application: what the fold builds for each.            *)

\* The stages whose markers are at place k or behind.
Marks(k) == {app[i] : i \in {j \in DOMAIN app : j >= k}} \cap Stages

IsLowest(s, M) == s \in M \cup {LastStage} /\ \A t \in M : s <= t

LEMMA StageOfIsLowest ==
  ASSUME NEW m
  PROVE  /\ StageOf(m) \in Stages /\ IsLowest(StageOf(m), {app[i] : i \in {j \in DOMAIN app : j > m}} \cap Stages)
         /\ \A s : IsLowest(s, {app[i] : i \in {j \in DOMAIN app : j > m}} \cap Stages) => s = StageOf(m)
  <1> DEFINE M == {app[i] : i \in {j \in DOMAIN app : j > m}} \cap Stages
  <1>1. M \in SUBSET Nat /\ M \subseteq Stages /\ LastStage \in Stages /\ \A s \in Stages : s \in Nat /\ s <= LastStage
    BY ConstantsAssumption DEF Stages
  <1>2. StageOf(m) = CHOOSE s \in M \cup {LastStage} : \A t \in M : s <= t
    BY DEF StageOf
  <1> HIDE DEF M
  <1>3. \E s \in M \cup {LastStage} : \A t \in M : s <= t
    BY <1>1, LeastElement
  <1>4. StageOf(m) \in M \cup {LastStage} /\ \A t \in M : StageOf(m) <= t
    BY <1>2, <1>3
  <1>5. ASSUME NEW s, IsLowest(s, M) PROVE s = StageOf(m)
    <2>1. s \in M \cup {LastStage} /\ \A t \in M : s <= t
      BY <1>5 DEF IsLowest
    <2>2. s \in Nat /\ StageOf(m) \in Nat /\ s <= LastStage /\ StageOf(m) <= LastStage /\ LastStage \in Nat
      BY <1>1, <1>4, <2>1
    <2>3. s <= StageOf(m) /\ StageOf(m) <= s
      BY <1>4, <2>1, <2>2
    <2> QED
      BY <2>2, <2>3
  <1>6. StageOf(m) \in Stages /\ IsLowest(StageOf(m), M) /\ \A s : IsLowest(s, M) => s = StageOf(m)
    BY <1>1, <1>4, <1>5 DEF IsLowest
  <1> QED
    BY <1>6 DEF M

\* s lists the elements of S in their order.
Lists(s, S) ==
    /\ s \in Seq(Nat)
    /\ \A i, j \in 1 .. Len(s) : i < j => s[i] < s[j]
    /\ \A x : x \in S <=> \E i \in 1 .. Len(s) : s[i] = x

\* The middlewares of stage t at place k or behind.
UsesOf(t, k) == {i \in DOMAIN app : i >= k /\ app[i] = Use /\ StageOf(i) = t}

Built(b, k) ==
    /\ b = [next |-> b.next, stage |-> b.stage, entry |-> b.entry]
    /\ b.stage \in Stages /\ IsLowest(b.stage, Marks(k))
    /\ Lists(b.next, UsesOf(b.stage, k))
    /\ \A t \in DOMAIN b.entry : t \in Stages /\ t > b.stage /\ Lists(b.entry[t], UsesOf(t, k))
    /\ \A i \in DOMAIN app : i >= k /\ app[i] = Use => StageOf(i) \in DOMAIN b.entry \cup {b.stage}

LEMMA ListsPrepend ==
  ASSUME NEW s, NEW S \in SUBSET Nat, Lists(s, S), NEW x \in Nat, \A y \in S : x < y
  PROVE  Lists(<<x>> \o s, S \cup {x})
  <1> DEFINE r == <<x>> \o s
  <1>1. s \in Seq(Nat) /\ \A i \in 1 .. Len(s) : s[i] \in S
    BY DEF Lists
  <1>2. r \in Seq(Nat) /\ Len(r) = Len(s) + 1
    BY <1>1
  <1>3. r[1] = x /\ \A i \in 1 .. Len(s) : r[i + 1] = s[i]
    BY <1>1
  <1> HIDE DEF r
  <1>4. \A i \in 1 .. Len(r) : i = 1 \/ (i - 1 \in 1 .. Len(s) /\ r[i] = s[i - 1])
    <2> SUFFICES ASSUME NEW i \in 1 .. Len(r), i # 1 PROVE i - 1 \in 1 .. Len(s) /\ r[i] = s[i - 1]
      OBVIOUS
    <2>1. i - 1 \in 1 .. Len(s)
      BY <1>1, <1>2
    <2>2. (i - 1) + 1 = i
      OBVIOUS
    <2> QED
      BY <1>3, <2>1, <2>2
  <1>5. ASSUME NEW i \in 1 .. Len(r), NEW j \in 1 .. Len(r), i < j PROVE r[i] < r[j]
    <2>1. j # 1 /\ j - 1 \in 1 .. Len(s) /\ r[j] = s[j - 1]
      BY <1>4, <1>5
    <2>2. CASE i = 1
      BY <1>1, <1>3, <2>1, <2>2
    <2>3. CASE i # 1
      <3>1. i - 1 \in 1 .. Len(s) /\ r[i] = s[i - 1] /\ i - 1 < j - 1
        BY <1>4, <1>5, <2>3
      <3> QED
        BY <2>1, <3>1 DEF Lists
    <2> QED
      BY <2>2, <2>3
  <1>6. ASSUME NEW y PROVE y \in S \cup {x} <=> \E i \in 1 .. Len(r) : r[i] = y
    <2>1. ASSUME y \in S PROVE \E i \in 1 .. Len(r) : r[i] = y
      <3>1. PICK i \in 1 .. Len(s) : s[i] = y
        BY <2>1 DEF Lists
      <3>2. i + 1 \in 1 .. Len(r) /\ r[i + 1] = y
        BY <1>1, <1>2, <1>3, <3>1
      <3> QED
        BY <3>2
    <2>2. 1 \in 1 .. Len(r)
      BY <1>1, <1>2
    <2>3. ASSUME NEW i \in 1 .. Len(r), r[i] = y PROVE y \in S \cup {x}
      BY <1>1, <1>3, <1>4, <2>3
    <2> QED
      BY <1>3, <2>1, <2>2, <2>3
  <1> QED
    BY <1>2, <1>5, <1>6 DEF Lists, r

LEMMA Building ==
  ASSUME NEW n \in Nat, app \in [1 .. n -> Entries], NEW k \in 1 .. n, NEW b, Built(b, k + 1)
  PROVE  Built(AddEntry(k, b), k)
  <1> DEFINE c == AddEntry(k, b)
  <1>0. /\ Use = 0 /\ LastStage \in Stages /\ Stages \subseteq Nat /\ Use \notin Stages /\ Unknown \in Nat
        /\ \A s \in Stages : s <= LastStage /\ s < Unknown
        /\ \A i \in DOMAIN app : app[i] \in {Use, Unknown} \cup Stages
    BY ConstantsAssumption DEF Use, Unknown, Stages, Entries
  <1>1. /\ b = [next |-> b.next, stage |-> b.stage, entry |-> b.entry]
        /\ b.stage \in Stages /\ IsLowest(b.stage, Marks(k + 1))
        /\ Lists(b.next, UsesOf(b.stage, k + 1))
        /\ \A t \in DOMAIN b.entry : t \in Stages /\ t > b.stage /\ Lists(b.entry[t], UsesOf(t, k + 1))
        /\ \A i \in DOMAIN app : i >= k + 1 /\ app[i] = Use => StageOf(i) \in DOMAIN b.entry \cup {b.stage}
    BY DEF Built
  <1>2. k \in DOMAIN app /\ \A i \in DOMAIN app : i \in Nat /\ (i >= k <=> i = k \/ i >= k + 1) /\ (i >= k + 1 <=> i > k)
    OBVIOUS
  <1>3. Marks(k) = Marks(k + 1) \cup ({app[k]} \cap Stages)
    BY <1>2 DEF Marks
  <1>4. \A t : UsesOf(t, k) = UsesOf(t, k + 1) \cup {i \in {k} : app[k] = Use /\ StageOf(k) = t}
    BY <1>2 DEF UsesOf
  <1>5. CASE app[k] = Use
    <2>1. StageOf(k) = b.stage
      <3>1. Marks(k + 1) = {app[i] : i \in {j \in DOMAIN app : j > k}} \cap Stages
        BY <1>2 DEF Marks
      <3> QED
        BY <1>1, <3>1, StageOfIsLowest
    <2>2. c = [next |-> <<k>> \o b.next, stage |-> b.stage, entry |-> b.entry]
      <3>1. c = [b EXCEPT !.next = <<k>> \o b.next]
        BY <1>5 DEF AddEntry
      <3>2. \A x, y, z, w : [[next |-> x, stage |-> y, entry |-> z] EXCEPT !.next = w]
                                = [next |-> w, stage |-> y, entry |-> z]
        OBVIOUS
      <3> DEFINE w == <<k>> \o b.next
      <3> HIDE DEF w
      <3>3. c = [b EXCEPT !.next = w]
        BY <3>1 DEF w
      <3>4. c = [next |-> w, stage |-> b.stage, entry |-> b.entry]
        <4> HIDE DEF c
        <4> QED
          BY <1>1, <3>2, <3>3
      <3> QED
        BY <3>4 DEF w
    <2>3. Marks(k) = Marks(k + 1)
      BY <1>0, <1>3, <1>5
    <2>4. UsesOf(b.stage, k) = UsesOf(b.stage, k + 1) \cup {k} /\ \A t : t # b.stage => UsesOf(t, k) = UsesOf(t, k + 1)
      BY <1>4, <1>5, <2>1
    <2>5. Lists(<<k>> \o b.next, UsesOf(b.stage, k))
      <3>1. UsesOf(b.stage, k + 1) \in SUBSET Nat /\ \A y \in UsesOf(b.stage, k + 1) : k < y
        BY <1>2 DEF UsesOf
      <3> QED
        BY <1>1, <2>4, <3>1, ListsPrepend
    <2>6. ASSUME NEW t \in DOMAIN b.entry PROVE t \in Stages /\ t > b.stage /\ Lists(b.entry[t], UsesOf(t, k))
      BY <1>0, <1>1, <2>4
    <2>7. \A i \in DOMAIN app : i >= k /\ app[i] = Use => StageOf(i) \in DOMAIN b.entry \cup {b.stage}
      BY <1>1, <1>2, <2>1
    <2> HIDE DEF c
    <2> QED
      BY <1>1, <2>2, <2>3, <2>5, <2>6, <2>7 DEF Built, c
  <1>6. CASE app[k] # Use /\ app[k] < b.stage
    <2>1. c = [next |-> <<>>, stage |-> app[k], entry |-> Closed(b)]
      BY <1>6 DEF AddEntry
    <2>2. app[k] \in Stages
      <3>1. app[k] \in {Use, Unknown} \cup Stages
        BY <1>0, <1>2
      <3>2. b.stage \in Nat /\ b.stage < Unknown
        BY <1>0, <1>1
      <3>3. app[k] # Unknown
        BY <1>0, <1>6, <3>2
      <3> QED
        BY <1>6, <3>1, <3>3
    <2>3. IsLowest(app[k], Marks(k))
      BY <1>0, <1>1, <1>3, <1>6, <2>2 DEF IsLowest, Marks
    <2>4. \A t : UsesOf(t, k) = UsesOf(t, k + 1)
      BY <1>4, <1>6
    <2>5. Lists(<<>>, UsesOf(app[k], k))
      <3>1. ASSUME NEW i \in DOMAIN app, i >= k + 1, app[i] = Use PROVE StageOf(i) # app[k]
        BY <1>0, <1>1, <1>6, <2>2, <3>1
      <3>2. UsesOf(app[k], k) = {}
        BY <2>4, <3>1 DEF UsesOf
      <3> QED
        BY <3>2 DEF Lists
    <2>6. DOMAIN Closed(b) = {b.stage} \cup DOMAIN b.entry
      BY DEF Closed
    <2>7. ASSUME NEW t \in DOMAIN Closed(b) PROVE t \in Stages /\ t > app[k] /\ Lists(Closed(b)[t], UsesOf(t, k))
      <3>1. CASE t = b.stage
        BY <1>0, <1>1, <1>6, <2>4, <3>1 DEF Closed
      <3>2. CASE t # b.stage
        <4>1. t \in DOMAIN b.entry /\ Closed(b)[t] = b.entry[t]
          BY <2>6, <2>7, <3>2 DEF Closed
        <4>2. t \in Stages /\ t > b.stage
          BY <1>1, <4>1
        <4> QED
          BY <1>0, <1>1, <1>6, <2>2, <2>4, <4>1, <4>2
      <3> QED
        BY <3>1, <3>2
    <2>8. \A i \in DOMAIN app : i >= k /\ app[i] = Use => StageOf(i) \in DOMAIN Closed(b) \cup {app[k]}
      BY <1>1, <1>2, <1>6, <2>6
    <2> HIDE DEF c
    <2> QED
      BY <2>1, <2>2, <2>3, <2>5, <2>7, <2>8 DEF Built, c
  <1>7. CASE app[k] # Use /\ ~(app[k] < b.stage)
    <2>1. c = b
      BY <1>7 DEF AddEntry
    <2>2. IsLowest(b.stage, Marks(k))
      BY <1>0, <1>1, <1>3, <1>7 DEF IsLowest
    <2>3. \A t : UsesOf(t, k) = UsesOf(t, k + 1)
      BY <1>4, <1>7
    <2>4. \A i \in DOMAIN app : i >= k /\ app[i] = Use => StageOf(i) \in DOMAIN b.entry \cup {b.stage}
      BY <1>1, <1>2, <1>7
    <2> HIDE DEF c
    <2> QED
      BY <1>1, <2>1, <2>2, <2>3, <2>4 DEF Built, c
  <1> QED
    BY <1>5, <1>6, <1>7

\* What the stages of the application are, for every configuration: each lists
\* its middlewares, and every middleware belongs to one.
LEMMA Entry ==
  ASSUME NEW n \in Nat, app \in [1 .. n -> Entries]
  PROVE  /\ DOMAIN StageEntries \subseteq Stages
         /\ \A t \in DOMAIN StageEntries : Lists(StageEntries[t], {i \in DOMAIN app : app[i] = Use /\ StageOf(i) = t})
         /\ \A i \in DOMAIN app : app[i] = Use => StageOf(i) \in DOMAIN StageEntries
  <1>1. PICK b : /\ b[n + 1] = Nothing
                 /\ \A k \in 1 .. n : b[k] = AddEntry(k, b[k + 1])
                 /\ StageEntries = Closed(b[1])
    BY Fold
  <1> DEFINE T == {k \in Nat : k <= n => Built(b[n + 1 - k], n + 1 - k)}
  <1>2. 0 \in T
    <2>1. Nothing.next = <<>> /\ Nothing.stage = LastStage /\ Nothing.entry = <<>> /\ DOMAIN Nothing.entry = {}
      BY DEF Nothing
    <2>2. \A i \in DOMAIN app : ~(i >= n + 1)
      OBVIOUS
    <2>3. Marks(n + 1) = {} /\ UsesOf(LastStage, n + 1) = {}
      BY <2>2 DEF Marks, UsesOf
    <2>4. LastStage \in Stages /\ IsLowest(LastStage, {}) /\ Lists(<<>>, {})
      BY ConstantsAssumption DEF Stages, IsLowest, Lists
    <2>5. Built(Nothing, n + 1)
      <3>1. Nothing = [next |-> Nothing.next, stage |-> Nothing.stage, entry |-> Nothing.entry]
        BY DEF Nothing
      <3> QED
        BY <2>1, <2>2, <2>3, <2>4, <3>1 DEF Built
    <2>6. n + 1 - 0 = n + 1
      OBVIOUS
    <2> QED
      BY <1>1, <2>5, <2>6
  <1>3. ASSUME NEW k \in T PROVE k + 1 \in T
    <2> SUFFICES ASSUME k + 1 <= n PROVE Built(b[n + 1 - (k + 1)], n + 1 - (k + 1))
      OBVIOUS
    <2> DEFINE m == n - k
    <2>1. m \in 1 .. n /\ n + 1 - (k + 1) = m /\ n + 1 - k = m + 1
      OBVIOUS
    <2>2. Built(b[m + 1], m + 1)
      BY <1>3, <2>1
    <2>3. b[m] = AddEntry(m, b[m + 1])
      BY <1>1, <2>1
    <2> HIDE DEF m
    <2>4. Built(b[m], m)
      BY <2>1, <2>2, <2>3, Building
    <2> QED
      BY <2>1, <2>4
  <1>4. Built(b[1], 1)
    <2>1. T = Nat
      <3>1. T \in SUBSET Nat
        OBVIOUS
      <3> HIDE DEF T
      <3> QED
        BY <1>2, <1>3, <3>1, SetInduction
    <2>2. n + 1 - n = 1 /\ n <= n
      OBVIOUS
    <2>3. Built(b[n + 1 - n], n + 1 - n)
      BY <2>1, <2>2
    <2> QED
      BY <2>2, <2>3
  <1> DEFINE c == b[1]
  <1>5. StageEntries = Closed(c) /\ Built(c, 1)
    BY <1>1, <1>4
  <1> HIDE DEF c
  <1>6. \A t : UsesOf(t, 1) = {i \in DOMAIN app : app[i] = Use /\ StageOf(i) = t}
    BY DEF UsesOf
  <1>7. DOMAIN StageEntries = {c.stage} \cup DOMAIN c.entry
    BY <1>5 DEF Closed
  <1>8. DOMAIN StageEntries \subseteq Stages
    BY <1>5, <1>7 DEF Built
  <1>9. ASSUME NEW t \in DOMAIN StageEntries PROVE Lists(StageEntries[t], UsesOf(t, 1))
    <2>1. CASE t = c.stage
      BY <1>5, <2>1 DEF Closed, Built
    <2>2. CASE t # c.stage
      <3>1. t \in DOMAIN c.entry /\ StageEntries[t] = c.entry[t]
        BY <1>5, <1>7, <1>9, <2>2 DEF Closed
      <3> QED
        BY <1>5, <3>1 DEF Built
    <2> QED
      BY <2>1, <2>2
  <1>10. \A i \in DOMAIN app : app[i] = Use => StageOf(i) \in DOMAIN StageEntries
    BY <1>5, <1>7 DEF Built
  <1> QED
    BY <1>6, <1>8, <1>9, <1>10

\* The stages do not mix: the middlewares of an earlier stage come first.
LEMMA StagesAscend ==
  ASSUME NEW n \in Nat, app \in [1 .. n -> Entries], NEW i \in DOMAIN app, NEW j \in DOMAIN app,
         StageOf(i) < StageOf(j)
  PROVE  i < j
  <1> SUFFICES ASSUME j <= i PROVE FALSE
    OBVIOUS
  <1> DEFINE M(m) == {app[l] : l \in {l \in DOMAIN app : l > m}} \cap Stages
  <1>1. M(i) \subseteq M(j)
    <2>1. \A l \in DOMAIN app : l > i => l > j
      OBVIOUS
    <2> QED
      BY <2>1
  <1>2. /\ StageOf(i) \in Stages /\ StageOf(j) \in Stages
        /\ IsLowest(StageOf(i), M(i)) /\ IsLowest(StageOf(j), M(j))
    BY StageOfIsLowest
  <1>3. Stages \subseteq Nat /\ \A s \in Stages : s <= LastStage /\ LastStage \in Nat
    BY ConstantsAssumption DEF Stages
  <1> DEFINE a == StageOf(i)
             b == StageOf(j)
  <1>4. /\ a \in M(i) \cup {LastStage} /\ \A t \in M(j) : b <= t
        /\ a \in Stages /\ b \in Stages
    BY <1>2 DEF IsLowest
  <1>5. a < b
    OBVIOUS
  <1> HIDE DEF M, a, b
  <1>6. b <= a
    BY <1>1, <1>3, <1>4
  <1> QED
    BY <1>3, <1>4, <1>5, <1>6

-----------------------------------------------------------------------------
(* The middlewares of the forks.                                            *)

Pipes == [f \in Forks |-> Pipeline(f)]

\* The forks that the application may start.
Known == {Auth} \cup DOMAIN StageEntries

\* A middleware has one place, those of a stage are in the order of the
\* configuration, and those of an earlier stage are before those of a later
\* one.
Places ==
    /\ DOMAIN StageEntries \subseteq Stages
    /\ Pipes[Auth] = <<0>>
    /\ \A f \in Known : Pipes[f] \in Seq(Nat)
    /\ \A f \in DOMAIN StageEntries : \A i \in 1 .. Len(Pipes[f]) :
          /\ Pipes[f][i] \in DOMAIN app /\ Pipes[f][i] # 0
          /\ app[Pipes[f][i]] = Use /\ StageOf(Pipes[f][i]) = f
    /\ \A f, g \in Known : \A i \in 1 .. Len(Pipes[f]) : \A j \in 1 .. Len(Pipes[g]) :
          Pipes[f][i] = Pipes[g][j] => f = g /\ i = j
    /\ \A f, g \in DOMAIN StageEntries : \A i \in 1 .. Len(Pipes[f]) : \A j \in 1 .. Len(Pipes[g]) :
          f < g \/ (f = g /\ i < j) => Pipes[f][i] < Pipes[g][j]
    /\ \A m \in DOMAIN app : app[m] = Use =>
          /\ StageOf(m) \in DOMAIN StageEntries
          /\ \E i \in 1 .. Len(Pipes[StageOf(m)]) : Pipes[StageOf(m)][i] = m

LEMMA PlacesHold ==
  ASSUME NEW n \in Nat, app \in [1 .. n -> Entries]
  PROVE  Places
  <1> DEFINE D == DOMAIN StageEntries
             U(t) == {i \in DOMAIN app : app[i] = Use /\ StageOf(i) = t}
  <1>1. D \subseteq Stages /\ \A t \in D : Lists(StageEntries[t], U(t))
    BY Entry
  <1>2. \A m \in DOMAIN app : app[m] = Use => StageOf(m) \in D
    BY Entry
  <1>3. /\ Auth = 0 /\ D \subseteq Nat /\ D \subseteq Forks /\ Auth \notin D /\ Auth \in Forks
        /\ DOMAIN app = 1 .. n
    BY <1>1, Names DEF Auth
  <1>4. Pipes[Auth] = <<0>> /\ \A t \in D : Pipes[t] = StageEntries[t]
    BY <1>3 DEF Pipes, Pipeline
  <1>5. \A i \in DOMAIN app : \A j \in DOMAIN app : StageOf(i) < StageOf(j) => i < j
    BY StagesAscend
  <1>6. Known = {Auth} \cup D
    BY DEF Known
  <1>7. \A t : \A m \in U(t) : m \in DOMAIN app /\ m # 0 /\ m \in Nat /\ app[m] = Use /\ StageOf(m) = t
    BY <1>3
  <1>8. \A m \in DOMAIN app : app[m] = Use => m \in U(StageOf(m))
    OBVIOUS
  <1> HIDE DEF U, D
  <1>9. \A t \in D : Pipes[t] \in Seq(Nat) /\ \A i \in 1 .. Len(Pipes[t]) : Pipes[t][i] \in U(t)
    BY <1>1, <1>4 DEF Lists
  <1>10. \A t \in D : \A i, j \in 1 .. Len(Pipes[t]) : i < j => Pipes[t][i] < Pipes[t][j]
    BY <1>1, <1>4 DEF Lists
  <1>11. \A t \in D : \A m \in U(t) : \E i \in 1 .. Len(Pipes[t]) : Pipes[t][i] = m
    BY <1>1, <1>4 DEF Lists
  <1>12. \A f \in Known : Pipes[f] \in Seq(Nat)
    <2>1. <<0>> \in Seq(Nat)
      OBVIOUS
    <2> QED
      BY <1>4, <1>6, <1>9, <2>1, Zenon
  <1>13. ASSUME NEW f \in D, NEW g \in D, NEW i \in 1 .. Len(Pipes[f]), NEW j \in 1 .. Len(Pipes[g]),
                f < g \/ (f = g /\ i < j)
         PROVE  Pipes[f][i] < Pipes[g][j]
    <2>1. Pipes[f][i] \in U(f) /\ Pipes[g][j] \in U(g)
      BY <1>9
    <2>2. CASE f < g
      BY <1>5, <1>7, <2>1, <2>2
    <2>3. CASE f = g /\ i < j
      BY <1>10, <2>3
    <2> QED
      BY <1>13, <2>2, <2>3
  <1>14. ASSUME NEW f \in Known, NEW g \in Known, NEW i \in 1 .. Len(Pipes[f]), NEW j \in 1 .. Len(Pipes[g]),
                Pipes[f][i] = Pipes[g][j]
         PROVE  f = g /\ i = j
    <2>1. CASE f = Auth /\ g = Auth
      <3>1. \A k \in 1 .. Len(<<0>>) : k = 1
        OBVIOUS
      <3> QED
        BY <1>4, <2>1, <3>1, Zenon
    <2>2. CASE f = Auth /\ g # Auth
      <3>1. Pipes[f][i] = 0 /\ g \in D
        BY <1>4, <1>6, <2>2
      <3>2. Pipes[g][j] # 0
        BY <1>7, <1>9, <3>1
      <3> QED
        BY <1>14, <3>1, <3>2
    <2>3. CASE f # Auth /\ g = Auth
      <3>1. Pipes[g][j] = 0 /\ f \in D
        BY <1>4, <1>6, <2>3
      <3>2. Pipes[f][i] # 0
        BY <1>7, <1>9, <3>1
      <3> QED
        BY <1>14, <3>1, <3>2
    <2>4. CASE f # Auth /\ g # Auth
      <3>1. f \in D /\ g \in D
        BY <1>6, <2>4
      <3>2. Pipes[f][i] \in U(f) /\ Pipes[g][j] \in U(g)
        BY <1>9, <3>1
      <3>3. f = g
        BY <1>7, <1>14, <3>2
      <3>4. i \in Nat /\ j \in Nat /\ Pipes[f][i] \in Nat
        BY <1>7, <3>2
      <3>5. ~(i < j) /\ ~(j < i)
        BY <1>10, <1>14, <3>1, <3>3, <3>4
      <3> QED
        BY <3>3, <3>4, <3>5
    <2> QED
      BY <2>1, <2>2, <2>3, <2>4
  <1>15. ASSUME NEW f \in D, NEW i \in 1 .. Len(Pipes[f])
         PROVE  /\ Pipes[f][i] \in DOMAIN app /\ Pipes[f][i] # 0
                /\ app[Pipes[f][i]] = Use /\ StageOf(Pipes[f][i]) = f
    BY <1>7, <1>9
  <1>16. ASSUME NEW m \in DOMAIN app, app[m] = Use
         PROVE  /\ StageOf(m) \in D
                /\ \E i \in 1 .. Len(Pipes[StageOf(m)]) : Pipes[StageOf(m)][i] = m
    BY <1>2, <1>8, <1>11, <1>16
  <1>17. /\ D \subseteq Stages
         /\ \A f \in D : \A i \in 1 .. Len(Pipes[f]) :
               /\ Pipes[f][i] \in DOMAIN app /\ Pipes[f][i] # 0
               /\ app[Pipes[f][i]] = Use /\ StageOf(Pipes[f][i]) = f
    BY <1>1, <1>15
  <1>18. \A f, g \in D : \A i \in 1 .. Len(Pipes[f]) : \A j \in 1 .. Len(Pipes[g]) :
               f < g \/ (f = g /\ i < j) => Pipes[f][i] < Pipes[g][j]
    BY <1>13
  <1>19. \A f, g \in Known : \A i \in 1 .. Len(Pipes[f]) : \A j \in 1 .. Len(Pipes[g]) :
               Pipes[f][i] = Pipes[g][j] => f = g /\ i = j
    BY <1>14
  <1>20. \A m \in DOMAIN app : app[m] = Use =>
            /\ StageOf(m) \in D
            /\ \E i \in 1 .. Len(Pipes[StageOf(m)]) : Pipes[StageOf(m)][i] = m
    BY <1>16
  <1> QED
    BY <1>4, <1>12, <1>17, <1>18, <1>19, <1>20, Zenon DEF Places, D

\* The configuration is fixed.
LEMMA PipesStay ==
  ASSUME app' = app
  PROVE  Pipes' = Pipes /\ StageEntries' = StageEntries
  <1>1. StageEntries' = StageEntries
    BY DEF StageEntries, FoldRight, MapThenFoldSet, AddEntry, Closed
  <1>2. Pipes' = Pipes
    BY <1>1 DEF Pipes, Pipeline
  <1> QED
    BY <1>1, <1>2

-----------------------------------------------------------------------------
(* The log.  What the forks that were started have entered and left is what *)
(* the log holds, each once and in the order of the configuration.          *)

Logged == {log[k] : k \in DOMAIN log}

Typed ==
    /\ \E n \in Nat : app \in [1 .. n -> Entries]
    /\ log \in Seq([dir : {"in", "out"}, mw : Nat])
    /\ at \in [Forks -> Nat]
    /\ size \in Nat

\* The stages that were started are those of the application that are behind.
StagesBehind == \A s \in Stages : status[s] # "none" <=> s < event /\ s \in DOMAIN StageEntries

LogIsOfForks ==
    \A e \in Logged : \E f \in Forks :
        status[f] # "none" /\ \E i \in 1 .. Len(Pipes[f]) : e.mw = Pipes[f][i]

PlacesAreLogged ==
    \A f \in Forks :
        /\ status[f] \in {"none", "ended"} => at[f] = 0
        /\ status[f] # "none" => at[f] <= Len(Pipes[f])
        /\ status[f] = "joined" => at[f] = Len(Pipes[f])
        /\ status[f] # "none" => \A i \in 1 .. Len(Pipes[f]) :
              /\ i <= at[f] => In(Pipes[f][i]) \in Logged /\ Out(Pipes[f][i]) \notin Logged
              /\ i > at[f] => (In(Pipes[f][i]) \in Logged <=> Out(Pipes[f][i]) \in Logged)
              /\ i > at[f] /\ status[f] = "in" => In(Pipes[f][i]) \notin Logged

LoggedOnce == \A j, k \in DOMAIN log : log[j] = log[k] => j = k

InBeforeOut == \A k \in DOMAIN log : log[k].dir = "out" => \E j \in DOMAIN log : j < k /\ log[j] = In(log[k].mw)

Ascending ==
    \A j, k \in DOMAIN log :
        log[j].dir = "in" /\ log[k].dir = "in" /\ log[j].mw # 0 /\ log[k].mw # 0 /\ j < k => log[j].mw < log[k].mw

\* While a stage is on its way in, no later one was started.
InTurn == \A f, g \in Stages : f < g /\ status[f] = "in" => status[g] = "none"

\* While the pipeline of the request runs, a fork that has not joined is
\* waited for, and a stage by the request.
Running ==
    status[Main] = "running" =>
        /\ \A f \in Stages : status[f] \in {"none", "joined"} \/ waitsFor[Main] = f
        /\ status[Auth] \in {"none", "joined"} \/ \E p \in Pipelines : waitsFor[p] = Auth

AllEntered ==
    status[Main] = "completing" =>
        \A f \in Stages : status[f] # "none" => \A i \in 1 .. Len(Pipes[f]) : In(Pipes[f][i]) \in Logged

LogInv ==
    /\ Typed
    /\ StagesBehind
    /\ LogIsOfForks
    /\ PlacesAreLogged
    /\ LoggedOnce
    /\ InBeforeOut
    /\ Ascending
    /\ InTurn
    /\ Running
    /\ AllEntered

LEMMA PlacesOfTyped == Typed => Places
  BY PlacesHold DEF Typed

LEMMA OnePlace ==
  ASSUME Places, NEW f \in Known, NEW g \in Known,
         NEW i \in 1 .. Len(Pipes[f]), NEW j \in 1 .. Len(Pipes[g]), Pipes[f][i] = Pipes[g][j]
  PROVE  f = g /\ i = j
  BY DEF Places

LEMMA LogTyped ==
  ASSUME Typed
  PROVE  \A k \in DOMAIN log : log[k] \in [dir : {"in", "out"}, mw : Nat] /\ k \in Nat
  <1>1. log \in Seq([dir : {"in", "out"}, mw : Nat])
    BY DEF Typed
  <1> DEFINE S == [dir : {"in", "out"}, mw : Nat]
  <1>2. log \in Seq(S)
    BY <1>1
  <1> HIDE DEF S
  <1>3. \A k \in DOMAIN log : log[k] \in S /\ k \in Nat
    BY <1>2
  <1> QED
    BY <1>3 DEF S

LEMMA InOut ==
  /\ \A m, l : In(m) = In(l) => m = l
  /\ \A m, l : Out(m) = Out(l) => m = l
  /\ \A m, l : In(m) # Out(l)
  /\ \A m : In(m).dir = "in" /\ In(m).mw = m /\ Out(m).dir = "out" /\ Out(m).mw = m
  /\ \A m \in Nat : In(m) \in [dir : {"in", "out"}, mw : Nat] /\ Out(m) \in [dir : {"in", "out"}, mw : Nat]
  /\ \A e \in [dir : {"in", "out"}, mw : Nat] : e.mw \in Nat /\ (e = In(e.mw) \/ e = Out(e.mw))
  <1>1. \A m : In(m).dir = "in" /\ In(m).mw = m /\ Out(m).dir = "out" /\ Out(m).mw = m
    BY DEF In, Out
  <1>2. \A m \in Nat : In(m) \in [dir : {"in", "out"}, mw : Nat] /\ Out(m) \in [dir : {"in", "out"}, mw : Nat]
    BY DEF In, Out
  <1>3. \A e \in [dir : {"in", "out"}, mw : Nat] : e.mw \in Nat /\ (e = In(e.mw) \/ e = Out(e.mw))
    BY DEF In, Out
  <1>4. "in" # "out"
    OBVIOUS
  <1>5. ASSUME NEW m, NEW l PROVE (In(m) = In(l) => m = l) /\ (Out(m) = Out(l) => m = l) /\ In(m) # Out(l)
    <2>1. In(m).mw = m /\ In(l).mw = l /\ Out(m).mw = m /\ Out(l).mw = l /\ In(m).dir = "in" /\ Out(l).dir = "out"
      BY <1>1
    <2> QED
      BY <1>4, <2>1, Zenon
  <1> QED
    BY <1>1, <1>2, <1>3, <1>5

\* One more step of a middleware.
LEMMA Appended ==
  ASSUME Typed, NEW e \in [dir : {"in", "out"}, mw : Nat], log' = Append(log, e)
  PROVE  /\ log' \in Seq([dir : {"in", "out"}, mw : Nat])
         /\ DOMAIN log = 1 .. Len(log) /\ Len(log) \in Nat
         /\ DOMAIN log' = DOMAIN log \cup {Len(log) + 1}
         /\ \A k \in DOMAIN log : log'[k] = log[k] /\ k \in Nat /\ k < Len(log) + 1
         /\ log'[Len(log) + 1] = e
         /\ Logged' = Logged \cup {e}
  <1>1. /\ log' \in Seq([dir : {"in", "out"}, mw : Nat])
        /\ DOMAIN log = 1 .. Len(log) /\ Len(log) \in Nat
        /\ DOMAIN log' = DOMAIN log \cup {Len(log) + 1}
        /\ \A k \in DOMAIN log : log'[k] = log[k] /\ k \in Nat /\ k < Len(log) + 1
        /\ log'[Len(log) + 1] = e
    BY DEF Typed
  <1>2. Logged' = Logged \cup {e}
    <2>1. ASSUME NEW x \in Logged' PROVE x \in Logged \cup {e}
      <3>1. PICK k \in DOMAIN log' : x = log'[k]
        BY <2>1 DEF Logged
      <3> QED
        BY <1>1, <3>1 DEF Logged
    <2>2. ASSUME NEW x \in Logged \cup {e} PROVE x \in Logged'
      <3>1. CASE x \in Logged
        <4>1. PICK k \in DOMAIN log : x = log[k]
          BY <3>1 DEF Logged
        <4>2. k \in DOMAIN log' /\ log'[k] = x
          BY <1>1, <4>1
        <4> QED
          BY <4>2 DEF Logged
      <3>2. CASE x = e
        <4>1. Len(log) + 1 \in DOMAIN log' /\ log'[Len(log) + 1] = x
          BY <1>1, <3>2
        <4> QED
          BY <4>1 DEF Logged
      <3> QED
        BY <3>1, <3>2
    <2> QED
      BY <2>1, <2>2
  <1> QED
    BY <1>1, <1>2

LEMMA InitLog == Init => LogInv
  <1> SUFFICES ASSUME Init PROVE LogInv
    OBVIOUS
  <1>1. Typed
    <2>1. \E n \in Nat : app \in [1 .. n -> Entries]
      BY ConstantsAssumption DEF Init
    <2> QED
      BY <2>1 DEF Init, Typed
  <1>2. DOMAIN log = {} /\ Logged = {}
    BY DEF Init, Logged
  <1>3. \A f \in Forks : status[f] = "none" /\ at[f] = 0
    BY Names DEF Init
  <1>4. status[Main] = "running" /\ event = 1
    BY Names DEF Init
  <1>5. LogIsOfForks /\ PlacesAreLogged /\ LoggedOnce /\ InBeforeOut /\ Ascending
    BY <1>2, <1>3 DEF LogIsOfForks, PlacesAreLogged, LoggedOnce, InBeforeOut, Ascending
  <1>6. InTurn /\ Running /\ AllEntered
    BY <1>3, <1>4, Names DEF InTurn, Running, AllEntered
  <1>7. StagesBehind
    BY <1>3, <1>4, Names DEF StagesBehind, Stages
  <1> QED
    BY <1>1, <1>5, <1>6, <1>7 DEF LogInv

\* Steps that start no fork and run no middleware.
LEMMA MoveLog ==
  ASSUME LogInv, UNCHANGED <<app, event, at, log>>, size' \in Nat,
         \A f \in Forks :
            /\ status'[f] = "none" <=> status[f] = "none"
            /\ status'[f] = "in" => status[f] = "in"
            /\ status'[f] = "ended" => at[f] = 0
            /\ status'[f] = "joined" => at[f] = Len(Pipes[f]),
         Running', AllEntered'
  PROVE  LogInv'
  <1>1. Pipes' = Pipes /\ StageEntries' = StageEntries /\ Logged' = Logged
    BY PipesStay DEF Logged
  <1>2. Typed'
    BY DEF LogInv, Typed
  <1>3. StagesBehind' /\ InTurn'
    BY <1>1, Names DEF LogInv, StagesBehind, InTurn
  <1>4. LogIsOfForks'
    BY <1>1 DEF LogInv, LogIsOfForks
  <1>5. PlacesAreLogged'
    BY <1>1 DEF LogInv, PlacesAreLogged
  <1>6. LoggedOnce' /\ InBeforeOut' /\ Ascending'
    BY DEF LogInv, LoggedOnce, InBeforeOut, Ascending
  <1> QED
    BY <1>2, <1>3, <1>4, <1>5, <1>6 DEF LogInv

\* While the request runs, no fork is under way.
LEMMA QuietForks ==
  ASSUME IInv, Active(Main)
  PROVE  /\ \A f \in Forks : status[f] \notin {"in", "out"}
         /\ \A f \in Forks : waitsFor[f] = Nobody
  <1>1. waitsFor[Main] = Nobody
    BY DEF Active
  <1>2. ASSUME NEW f \in Stages PROVE status[f] \notin {"in", "out"}
    <2> SUFFICES ASSUME status[f] \in {"in", "out"} PROVE FALSE
      OBVIOUS
    <2>1. PICK p \in Pipelines : waitsFor[p] = f
      BY Names DEF IInv, Chain, LiveIsAwaited
    <2>2. p = Main
      BY <2>1, Names DEF IInv, Chain, Shape
    <2> QED
      BY <1>1, <2>1, <2>2, Names
  <1>3. \A f \in Stages : waitsFor[f] = Nobody
    BY <1>2, Names DEF IInv, Chain, WaitingIsLive
  <1>4. \A p \in Pipelines : waitsFor[p] = Nobody
    BY <1>1, <1>3, Names DEF IInv, Chain, Shape
  <1>5. status[Auth] \notin {"in", "out"}
    BY <1>4, Names DEF IInv, Chain, LiveIsAwaited
  <1> QED
    BY <1>2, <1>4, <1>5, Names

LEMMA JoinedForks ==
  ASSUME IInv, LogInv, Active(Main), status[Main] = "running"
  PROVE  \A f \in Forks : status[f] \in {"none", "joined"}
  <1>1. \A p \in Pipelines : waitsFor[p] = Nobody
    BY QuietForks, Names DEF Active
  <1>2. \A f \in Stages : status[f] \in {"none", "joined"}
    BY <1>1, Names DEF LogInv, Running
  <1>3. status[Auth] \in {"none", "joined"}
    BY <1>1, Names DEF LogInv, Running
  <1> QED
    BY <1>2, <1>3, Names

\* A fork that is started has nothing in the log.
LEMMA ForkLog ==
  ASSUME IInv, LogInv, NEW p \in Stages \cup {Main}, NEW f \in Known,
         status[f] = "none", Active(p), Fork(p, f),
         \/ p = Main /\ status[Main] = "running" /\ f = event /\ f \in Stages /\ event' = event + 1
         \/ f = Auth /\ event' = event
  PROVE  LogInv'
  <1>1. Places /\ Pipes' = Pipes /\ StageEntries' = StageEntries /\ Logged' = Logged
    BY PlacesOfTyped, PipesStay DEF LogInv, Logged, Fork
  <1>2. /\ UNCHANGED <<app, at, size, log>>
        /\ f \in Forks /\ p \in Pipelines /\ p # f /\ Main # f
        /\ DOMAIN status = Pipelines /\ DOMAIN waitsFor = Pipelines
        /\ status'[f] = "in" /\ \A g \in Pipelines : g # f => status'[g] = status[g]
        /\ waitsFor'[p] = f /\ \A q \in Pipelines : q # p => waitsFor'[q] = waitsFor[q]
    BY <1>1, Names DEF Fork, Active, IInv, Chain, Shape, Places, Known
  <1>3. Typed' /\ LoggedOnce' /\ InBeforeOut' /\ Ascending'
    BY <1>2 DEF LogInv, Typed, LoggedOnce, InBeforeOut, Ascending
  <1>4. StagesBehind'
    BY <1>1, <1>2, Names DEF LogInv, StagesBehind, Known, Places, IInv, Started
  <1>5. LogIsOfForks'
    <2> SUFFICES ASSUME NEW e \in Logged
                 PROVE  \E g \in Forks : status'[g] # "none" /\ \E i \in 1 .. Len(Pipes[g]) : e.mw = Pipes[g][i]
      BY <1>1 DEF LogIsOfForks
    <2>1. PICK g \in Forks : status[g] # "none" /\ \E i \in 1 .. Len(Pipes[g]) : e.mw = Pipes[g][i]
      BY DEF LogInv, LogIsOfForks
    <2>2. status'[g] # "none"
      BY <1>2, <2>1, Names
    <2> QED
      BY <2>1, <2>2
  <1>6. PlacesAreLogged'
    <2>1. \A i \in 1 .. Len(Pipes[f]) : In(Pipes[f][i]) \notin Logged /\ Out(Pipes[f][i]) \notin Logged
      <3> SUFFICES ASSUME NEW i \in 1 .. Len(Pipes[f]), NEW e \in Logged, e.mw = Pipes[f][i]
                   PROVE  FALSE
        BY InOut
      <3>0. PICK g \in Forks : status[g] # "none" /\ \E j \in 1 .. Len(Pipes[g]) : e.mw = Pipes[g][j]
        BY DEF LogInv, LogIsOfForks
      <3>1. PICK j \in 1 .. Len(Pipes[g]) : status[g] # "none" /\ e.mw = Pipes[g][j]
        BY <3>0
      <3>2. g \in Known
        BY <3>1, Names DEF LogInv, StagesBehind, Known
      <3>3. f = g
        BY <1>1, <3>1, <3>2 DEF Places
      <3> QED
        BY <3>1, <3>3
    <2>2. at[f] = 0 /\ Len(Pipes[f]) \in Nat
      BY <1>1, <1>2 DEF LogInv, PlacesAreLogged, Places
    <2>3. ASSUME NEW g \in Forks, g # f
          PROVE  status'[g] = status[g]
      BY <1>2, <2>3, Names
    <2>4. \A i \in 1 .. Len(Pipes[f]) : ~(i <= 0) /\ i > 0
      BY <2>2
    <2>5. at' = at /\ Pipes' = Pipes /\ Logged' = Logged /\ status'[f] = "in"
      BY <1>1, <1>2
    <2>6. ASSUME NEW g \in Forks
          PROVE /\ status'[g] \in {"none", "ended"} => at'[g] = 0
                /\ status'[g] # "none" => at'[g] <= Len(Pipes'[g])
                /\ status'[g] = "joined" => at'[g] = Len(Pipes'[g])
                /\ status'[g] # "none" => \A i \in 1 .. Len(Pipes'[g]) :
                      /\ i <= at'[g] => In(Pipes'[g][i]) \in Logged' /\ Out(Pipes'[g][i]) \notin Logged'
                      /\ i > at'[g] => (In(Pipes'[g][i]) \in Logged' <=> Out(Pipes'[g][i]) \in Logged')
                      /\ i > at'[g] /\ status'[g] = "in" => In(Pipes'[g][i]) \notin Logged'
      <3>1. CASE g = f
        BY <2>1, <2>2, <2>4, <2>5, <3>1
      <3>2. CASE g # f
        BY <2>3, <2>5, <3>2 DEF LogInv, PlacesAreLogged
      <3> QED
        BY <3>1, <3>2
    <2> QED
      BY <2>6 DEF PlacesAreLogged, In, Out
  <1>7. InTurn'
    <2> SUFFICES ASSUME NEW g \in Stages, NEW h \in Stages, g < h, status'[g] = "in"
                 PROVE  status'[h] = "none"
      BY DEF InTurn
    <2>1. CASE g = f
      <3>1. g = event /\ h >= event /\ h # f
        BY <2>1, Names DEF IInv, Started
      <3> QED
        BY <1>2, <3>1, Names DEF IInv, Started
    <2>2. CASE g # f
      <3>1. status[g] = "in"
        BY <1>2, <2>2, Names
      <3>2. p # Main
        BY <3>1, QuietForks, Names
      <3>3. h # f
        BY <3>2, Names
      <3> QED
        BY <1>2, <3>1, <3>3, Names DEF LogInv, InTurn
    <2> QED
      BY <2>1, <2>2
  <1>8. Running'
    <2> SUFFICES ASSUME status[Main] = "running"
                 PROVE /\ \A g \in Stages : status'[g] \in {"none", "joined"} \/ waitsFor'[Main] = g
                       /\ status'[Auth] \in {"none", "joined"} \/ \E q \in Pipelines : waitsFor'[q] = Auth
      BY <1>2, Names DEF Running
    <2>1. CASE p = Main
      <3>1. \A g \in Forks : status[g] \in {"none", "joined"}
        BY <2>1, JoinedForks
      <3> QED
        BY <1>2, <2>1, <3>1, Names
    <2>2. CASE p # Main
      <3>1. f = Auth
        BY <2>2
      <3>2. \A g \in Stages : status'[g] = status[g]
        BY <1>2, <3>1, Names
      <3>3. waitsFor'[Main] = waitsFor[Main]
        BY <1>2, <2>2, Names
      <3>4. \A g \in Stages : status[g] \in {"none", "joined"} \/ waitsFor[Main] = g
        BY DEF LogInv, Running
      <3> QED
        BY <1>2, <3>1, <3>2, <3>3, <3>4
    <2> QED
      BY <2>1, <2>2
  <1>9. AllEntered'
    <2> SUFFICES ASSUME status[Main] = "completing", NEW g \in Stages, status'[g] # "none"
                 PROVE \A i \in 1 .. Len(Pipes[g]) : In(Pipes[g][i]) \in Logged
      BY <1>1, <1>2, Names DEF AllEntered, In
    <2>1. g # f
      BY Names
    <2> QED
      BY <1>2, <2>1, Names DEF LogInv, AllEntered
  <1> QED
    BY <1>3, <1>4, <1>5, <1>6, <1>7, <1>8, <1>9 DEF LogInv

\* A fork that is under way belongs to the application.
LEMMA StartedIsKnown ==
  ASSUME LogInv, NEW f \in Forks, status[f] # "none"
  PROVE  f \in Known /\ Pipes[f] \in Seq(Nat) /\ Len(Pipes[f]) \in Nat /\ Pipeline(f) = Pipes[f]
  <1>1. f \in Known
    BY Names DEF LogInv, StagesBehind, Known
  <1> QED
    BY <1>1, PlacesOfTyped DEF LogInv, Places, Pipes

LEMMA EnterLog ==
  ASSUME IInv, LogInv, NEW f \in Forks, Enter(f)
  PROVE  LogInv'
  <1> DEFINE n == at[f] + 1
             m == Pipes[f][n]
  <1>1. Places /\ Pipes' = Pipes /\ StageEntries' = StageEntries
    BY PlacesOfTyped, PipesStay DEF LogInv, Enter
  <1>2. /\ UNCHANGED <<app, event, status, waitsFor, size>>
        /\ status[f] = "in" /\ at' = [at EXCEPT ![f] = at[f] + 1]
        /\ f \in Known /\ Pipes[f] \in Seq(Nat) /\ Len(Pipes[f]) \in Nat
        /\ n \in 1 .. Len(Pipes[f]) /\ at[f] \in Nat /\ m \in Nat
        /\ log' = Append(log, In(m))
    <2>1. /\ UNCHANGED <<app, event, status, waitsFor, size>>
          /\ status[f] = "in" /\ at' = [at EXCEPT ![f] = at[f] + 1]
          /\ at[f] < Len(Pipeline(f))
          /\ log' = Append(log, [dir |-> "in", mw |-> Pipeline(f)[at[f] + 1]])
      BY DEF Enter
    <2>2. /\ f \in Known /\ Pipes[f] \in Seq(Nat) /\ Len(Pipes[f]) \in Nat
          /\ Pipeline(f) = Pipes[f]
      BY <2>1, StartedIsKnown
    <2>3. at[f] \in Nat
      BY DEF LogInv, Typed
    <2>4. n \in 1 .. Len(Pipes[f]) /\ m \in Nat
      BY <2>1, <2>2, <2>3
    <2> QED
      BY <2>1, <2>2, <2>3, <2>4 DEF In
  <1> HIDE DEF m
  <1>3. In(m) \in [dir : {"in", "out"}, mw : Nat] /\ In(m).mw = m /\ In(m).dir = "in"
    BY <1>2, InOut
  <1> DEFINE last == Len(log) + 1
  <1>4. /\ log' \in Seq([dir : {"in", "out"}, mw : Nat])
        /\ DOMAIN log' = DOMAIN log \cup {last} /\ Len(log) \in Nat
        /\ \A k \in DOMAIN log : log'[k] = log[k] /\ k \in Nat /\ k < last
        /\ log'[last] = In(m)
        /\ Logged' = Logged \cup {In(m)}
    BY <1>2, <1>3, Appended DEF LogInv
  <1> HIDE DEF last, n
  <1>5. n \in Nat /\ n = at[f] + 1 /\ m = Pipes[f][n] /\ last \in Nat
    BY <1>2, <1>4 DEF n, m, last
  <1>6. \A g \in Forks : status[g] # "none" => g \in Known
    BY StartedIsKnown
  <1>7. Typed'
    <2>1. \E l \in Nat : app' \in [1 .. l -> Entries]
      BY <1>2, Zenon DEF LogInv, Typed
    <2>2. at' \in [Forks -> Nat] /\ size' \in Nat
      BY <1>2 DEF LogInv, Typed
    <2> QED
      BY <1>4, <2>1, <2>2 DEF Typed
  <1>8. StagesBehind' /\ InTurn' /\ Running'
    BY <1>1, <1>2 DEF LogInv, StagesBehind, InTurn, Running
  <1>9. LogIsOfForks'
    <2> SUFFICES ASSUME NEW e \in Logged \cup {In(m)}
                 PROVE  \E g \in Forks : status[g] # "none" /\ \E i \in 1 .. Len(Pipes[g]) : e.mw = Pipes[g][i]
      BY <1>1, <1>2, <1>4, Zenon DEF LogIsOfForks
    <2>1. CASE e \in Logged
      BY <2>1, Zenon DEF LogInv, LogIsOfForks
    <2>2. CASE e = In(m)
      BY <1>2, <1>3, <1>5, <2>2
    <2> QED
      BY <2>1, <2>2
  <1>10. In(m) \notin Logged
    <2>1. n > at[f]
      BY <1>2, <1>5
    <2> QED
      BY <1>2, <1>5, <2>1 DEF LogInv, PlacesAreLogged
  <1>11. LoggedOnce'
    BY <1>4, <1>10 DEF LogInv, LoggedOnce, Logged
  <1>12. InBeforeOut'
    <2> SUFFICES ASSUME NEW k \in DOMAIN log', log'[k].dir = "out"
                 PROVE  \E j \in DOMAIN log' : j < k /\ log'[j] = In(log'[k].mw)
      BY DEF InBeforeOut, In
    <2>1. k \in DOMAIN log /\ log'[k] = log[k]
      BY <1>3, <1>4
    <2>2. PICK j \in DOMAIN log : j < k /\ log[j] = In(log[k].mw)
      BY <2>1 DEF LogInv, InBeforeOut
    <2> QED
      BY <1>4, <2>1, <2>2
  <1>13. Ascending'
    <2>1. ASSUME NEW k \in DOMAIN log, log[k].dir = "in", log[k].mw # 0, m # 0
          PROVE  log[k].mw < m
      <3>1. log[k] \in Logged /\ log[k] = In(log[k].mw)
        <4>1. log[k] \in [dir : {"in", "out"}, mw : Nat]
          BY LogTyped DEF LogInv
        <4>2. log[k] = In(log[k].mw) \/ log[k] = Out(log[k].mw)
          BY <4>1, InOut
        <4>3. log[k] # Out(log[k].mw)
          <5>1. Out(log[k].mw).dir = "out"
            BY InOut, Zenon
          <5> QED
            BY <2>1, <5>1
        <4> QED
          BY <4>2, <4>3 DEF Logged
      <3>0. PICK g \in Forks : status[g] # "none" /\ \E i \in 1 .. Len(Pipes[g]) : log[k].mw = Pipes[g][i]
        BY <3>1 DEF LogInv, LogIsOfForks
      <3>2. PICK i \in 1 .. Len(Pipes[g]) : status[g] # "none" /\ log[k].mw = Pipes[g][i]
        BY <3>0
      <3>3. g \in Known
        BY <1>6, <3>2
      <3>4. f \in DOMAIN StageEntries /\ g \in DOMAIN StageEntries /\ Stages \subseteq Nat
        <4>1. \A x \in 1 .. Len(<<0>>) : <<0>>[x] = 0
          OBVIOUS
        <4>2. f # Auth /\ g # Auth
          BY <1>1, <1>2, <1>5, <2>1, <3>2, <4>1 DEF Places
        <4> QED
          BY <1>2, <3>3, <4>2, Names DEF Known
      <3>5. f \in Stages /\ g \in Stages /\ f \in Nat /\ g \in Nat
        BY <1>1, <3>4 DEF Places
      <3>6. ~(f < g)
        BY <1>2, <3>2, <3>5 DEF LogInv, InTurn
      <3>7. CASE g < f
        BY <1>1, <1>2, <1>5, <3>2, <3>4, <3>7 DEF Places
      <3>8. CASE g = f
        <4>1. i <= at[f]
          <5>1. In(Pipes[f][i]) \in Logged
            BY <3>1, <3>2, <3>8
          <5>2. ~(i > at[f])
            BY <1>2, <3>2, <3>8, <5>1 DEF LogInv, PlacesAreLogged
          <5> QED
            BY <1>2, <3>2, <3>8, <5>2
        <4>2. i < n
          BY <1>2, <1>5, <4>1
        <4> QED
          BY <1>1, <1>2, <1>5, <3>2, <3>4, <3>8, <4>2 DEF Places
      <3> QED
        BY <3>5, <3>6, <3>7, <3>8
    <2> SUFFICES ASSUME NEW j \in DOMAIN log', NEW k \in DOMAIN log',
                        log'[j].dir = "in", log'[k].dir = "in", log'[j].mw # 0, log'[k].mw # 0, j < k
                 PROVE  log'[j].mw < log'[k].mw
      BY DEF Ascending
    <2>2. j \in DOMAIN log
      BY <1>4, <1>5
    <2>3. CASE k \in DOMAIN log
      BY <1>4, <2>2, <2>3 DEF LogInv, Ascending
    <2>4. CASE k = last
      BY <1>3, <1>4, <2>1, <2>2, <2>4
    <2> QED
      BY <1>4, <2>3, <2>4
  <1>14. AllEntered'
    BY <1>1, <1>2, <1>4 DEF LogInv, AllEntered, In
  <1>15. PlacesAreLogged'
    <2>1. ASSUME NEW g \in Forks, NEW i \in 1 .. Len(Pipes[g]), status[g] # "none"
          PROVE  /\ In(Pipes[g][i]) \in Logged' <=> In(Pipes[g][i]) \in Logged \/ (g = f /\ i = n)
                 /\ Out(Pipes[g][i]) \in Logged' <=> Out(Pipes[g][i]) \in Logged
      <3>1. In(Pipes[g][i]) = In(m) <=> g = f /\ i = n
        <4>1. Pipes[g][i] = Pipes[f][n] => g = f /\ i = n
          <5>1. f \in Known /\ g \in Known /\ n \in 1 .. Len(Pipes[f])
            BY <1>2, <1>6, <2>1
          <5> QED
            BY <1>1, <5>1, OnePlace
        <4> QED
          BY <1>5, <4>1, InOut
      <3>2. Out(Pipes[g][i]) # In(m)
        BY InOut
      <3> QED
        BY <1>4, <3>1, <3>2
    <2>2. at'[f] = n /\ \A g \in Forks : g # f => at'[g] = at[g]
      BY <1>2, <1>5 DEF LogInv, Typed
    <2>3. /\ n <= Len(Pipes[f])
          /\ \A i \in 1 .. Len(Pipes[f]) : (i <= n <=> i <= at[f] \/ i = n) /\ (i > n <=> i > at[f] /\ i # n)
      BY <1>2, <1>5 DEF n
    <2>4. Out(m) \notin Logged
      <3>1. n > at[f] /\ n \in 1 .. Len(Pipes[f])
        BY <1>2, <1>5 DEF n
      <3> QED
        BY <1>2, <1>5, <1>10, <3>1 DEF LogInv, PlacesAreLogged
    <2>5. ASSUME NEW g \in Forks
          PROVE /\ status'[g] \in {"none", "ended"} => at'[g] = 0
                /\ status'[g] # "none" => at'[g] <= Len(Pipes'[g])
                /\ status'[g] = "joined" => at'[g] = Len(Pipes'[g])
                /\ status'[g] # "none" => \A i \in 1 .. Len(Pipes'[g]) :
                      /\ i <= at'[g] => In(Pipes'[g][i]) \in Logged' /\ Out(Pipes'[g][i]) \notin Logged'
                      /\ i > at'[g] => (In(Pipes'[g][i]) \in Logged' <=> Out(Pipes'[g][i]) \in Logged')
                      /\ i > at'[g] /\ status'[g] = "in" => In(Pipes'[g][i]) \notin Logged'
      <3>1. CASE g = f
        <4>1. \A i \in 1 .. Len(Pipes[f]) :
                /\ i <= at[f] => In(Pipes[f][i]) \in Logged /\ Out(Pipes[f][i]) \notin Logged
                /\ i > at[f] => In(Pipes[f][i]) \notin Logged /\ Out(Pipes[f][i]) \notin Logged
          BY <1>2 DEF LogInv, PlacesAreLogged
        <4>2. \A i \in 1 .. Len(Pipes[f]) :
                /\ i <= n => In(Pipes[f][i]) \in Logged' /\ Out(Pipes[f][i]) \notin Logged'
                /\ i > n => In(Pipes[f][i]) \notin Logged' /\ Out(Pipes[f][i]) \notin Logged'
          BY <1>2, <1>5, <2>1, <2>3, <2>4, <4>1
        <4> QED
          BY <1>1, <1>2, <2>2, <2>3, <3>1, <4>2
      <3>2. CASE g # f
        <4>1. \A i \in 1 .. Len(Pipes[g]) : status[g] # "none" =>
                /\ In(Pipes[g][i]) \in Logged' <=> In(Pipes[g][i]) \in Logged
                /\ Out(Pipes[g][i]) \in Logged' <=> Out(Pipes[g][i]) \in Logged
          BY <2>1, <3>2
        <4>2. at'[g] = at[g] /\ Pipes' = Pipes /\ status' = status
          BY <1>1, <1>2, <2>2, <3>2
        <4> QED
          BY <3>2, <4>1, <4>2 DEF LogInv, PlacesAreLogged
      <3> QED
        BY <3>1, <3>2
    <2> QED
      BY <2>5 DEF PlacesAreLogged, In, Out
  <1> QED
    BY <1>7, <1>8, <1>9, <1>11, <1>12, <1>13, <1>14, <1>15 DEF LogInv

LEMMA LeaveLog ==
  ASSUME IInv, LogInv, NEW f \in Forks, Leave(f)
  PROVE  LogInv'
  <1> DEFINE n == at[f]
             m == Pipes[f][n]
  <1>1. Places /\ Pipes' = Pipes /\ StageEntries' = StageEntries
    BY PlacesOfTyped, PipesStay DEF LogInv, Leave
  <1>2. /\ UNCHANGED <<app, event, status, waitsFor, size>>
        /\ status[f] = "out" /\ at' = [at EXCEPT ![f] = at[f] - 1]
        /\ f \in Known /\ Pipes[f] \in Seq(Nat) /\ Len(Pipes[f]) \in Nat
        /\ n \in 1 .. Len(Pipes[f]) /\ at[f] \in Nat /\ m \in Nat
        /\ log' = Append(log, Out(m))
    <2>1. /\ UNCHANGED <<app, event, status, waitsFor, size>>
          /\ status[f] = "out" /\ at' = [at EXCEPT ![f] = at[f] - 1]
          /\ at[f] > 0
          /\ log' = Append(log, [dir |-> "out", mw |-> Pipeline(f)[at[f]]])
      BY DEF Leave
    <2>2. /\ f \in Known /\ Pipes[f] \in Seq(Nat) /\ Len(Pipes[f]) \in Nat
          /\ Pipeline(f) = Pipes[f]
      BY <2>1, StartedIsKnown
    <2>3. at[f] \in Nat
      BY DEF LogInv, Typed
    <2>4. n \in 1 .. Len(Pipes[f]) /\ m \in Nat
      BY <2>1, <2>2, <2>3 DEF LogInv, PlacesAreLogged
    <2> QED
      BY <2>1, <2>2, <2>3, <2>4 DEF Out
  <1> HIDE DEF m
  <1>3. Out(m) \in [dir : {"in", "out"}, mw : Nat] /\ Out(m).mw = m /\ Out(m).dir = "out"
    BY <1>2, InOut
  <1> DEFINE last == Len(log) + 1
  <1>4. /\ log' \in Seq([dir : {"in", "out"}, mw : Nat])
        /\ DOMAIN log' = DOMAIN log \cup {last} /\ Len(log) \in Nat
        /\ \A k \in DOMAIN log : log'[k] = log[k] /\ k \in Nat /\ k < last
        /\ log'[last] = Out(m)
        /\ Logged' = Logged \cup {Out(m)}
    BY <1>2, <1>3, Appended DEF LogInv
  <1> HIDE DEF last, n
  <1>5. n \in Nat /\ n = at[f] /\ n >= 1 /\ m = Pipes[f][n] /\ last \in Nat
    BY <1>2, <1>4 DEF n, m, last
  <1>6. \A g \in Forks : status[g] # "none" => g \in Known
    BY StartedIsKnown
  <1>7. Typed'
    <2>1. \E l \in Nat : app' \in [1 .. l -> Entries]
      BY <1>2, Zenon DEF LogInv, Typed
    <2>2. at[f] - 1 \in Nat
      BY <1>5
    <2>3. at' \in [Forks -> Nat] /\ size' \in Nat
      BY <1>2, <2>2 DEF LogInv, Typed
    <2> QED
      BY <1>4, <2>1, <2>3 DEF Typed
  <1>8. StagesBehind' /\ InTurn' /\ Running'
    BY <1>1, <1>2 DEF LogInv, StagesBehind, InTurn, Running
  <1>9. LogIsOfForks'
    <2> SUFFICES ASSUME NEW e \in Logged \cup {Out(m)}
                 PROVE  \E g \in Forks : status[g] # "none" /\ \E i \in 1 .. Len(Pipes[g]) : e.mw = Pipes[g][i]
      BY <1>1, <1>2, <1>4, Zenon DEF LogIsOfForks
    <2>1. CASE e \in Logged
      BY <2>1, Zenon DEF LogInv, LogIsOfForks
    <2>2. CASE e = Out(m)
      BY <1>2, <1>3, <1>5, <2>2
    <2> QED
      BY <2>1, <2>2
  <1>10. Out(m) \notin Logged /\ In(m) \in Logged
    <2>1. n <= at[f]
      BY <1>2, <1>5
    <2> QED
      BY <1>2, <1>5, <2>1 DEF LogInv, PlacesAreLogged
  <1>11. LoggedOnce'
    BY <1>4, <1>10 DEF LogInv, LoggedOnce, Logged
  <1>12. InBeforeOut'
    <2> SUFFICES ASSUME NEW k \in DOMAIN log', log'[k].dir = "out"
                 PROVE  \E j \in DOMAIN log' : j < k /\ log'[j] = In(log'[k].mw)
      BY DEF InBeforeOut, In
    <2>1. CASE k \in DOMAIN log
      <3>1. log'[k] = log[k]
        BY <1>4, <2>1
      <3>2. PICK j \in DOMAIN log : j < k /\ log[j] = In(log[k].mw)
        BY <2>1, <3>1 DEF LogInv, InBeforeOut
      <3> QED
        BY <1>4, <3>1, <3>2
    <2>2. CASE k = last
      <3>1. log'[k].mw = m
        BY <1>3, <1>4, <2>2
      <3>2. PICK j \in DOMAIN log : log[j] = In(m)
        BY <1>10 DEF Logged
      <3> QED
        BY <1>4, <2>2, <3>1, <3>2
    <2> QED
      BY <1>4, <2>1, <2>2
  <1>13. Ascending'
    <2> SUFFICES ASSUME NEW j \in DOMAIN log', NEW k \in DOMAIN log',
                        log'[j].dir = "in", log'[k].dir = "in", log'[j].mw # 0, log'[k].mw # 0, j < k
                 PROVE  log'[j].mw < log'[k].mw
      BY DEF Ascending
    <2>1. j \in DOMAIN log /\ k \in DOMAIN log
      BY <1>3, <1>4
    <2> QED
      BY <1>4, <2>1 DEF LogInv, Ascending
  <1>14. AllEntered'
    BY <1>1, <1>2, <1>4 DEF LogInv, AllEntered, In
  <1>15. PlacesAreLogged'
    <2>1. ASSUME NEW g \in Forks, NEW i \in 1 .. Len(Pipes[g]), status[g] # "none"
          PROVE  /\ Out(Pipes[g][i]) \in Logged' <=> Out(Pipes[g][i]) \in Logged \/ (g = f /\ i = n)
                 /\ In(Pipes[g][i]) \in Logged' <=> In(Pipes[g][i]) \in Logged
      <3>1. Out(Pipes[g][i]) = Out(m) <=> g = f /\ i = n
        <4>1. Pipes[g][i] = Pipes[f][n] => g = f /\ i = n
          <5>1. f \in Known /\ g \in Known /\ n \in 1 .. Len(Pipes[f])
            BY <1>2, <1>6, <2>1
          <5> QED
            BY <1>1, <5>1, OnePlace
        <4> QED
          BY <1>5, <4>1, InOut
      <3>2. In(Pipes[g][i]) # Out(m)
        BY InOut
      <3> QED
        BY <1>4, <3>1, <3>2
    <2>2. at'[f] = n - 1 /\ \A g \in Forks : g # f => at'[g] = at[g]
      BY <1>2, <1>5 DEF LogInv, Typed
    <2>3. /\ n - 1 <= Len(Pipes[f]) /\ n - 1 \in Nat
          /\ \A i \in 1 .. Len(Pipes[f]) : (i <= n - 1 <=> i <= at[f] /\ i # n) /\ (i > n - 1 <=> i > at[f] \/ i = n)
      <3>1. n \in 1 .. Len(Pipes[f]) /\ Len(Pipes[f]) \in Nat /\ n \in Nat /\ at[f] = n
        BY <1>2, <1>5
      <3>2. n - 1 <= Len(Pipes[f]) /\ n - 1 \in Nat
        BY <3>1
      <3>3. \A i \in Nat : (i <= n - 1 <=> i <= n /\ i # n) /\ (i > n - 1 <=> i > n \/ i = n)
        BY <3>1
      <3>4. \A i \in 1 .. Len(Pipes[f]) : i \in Nat
        OBVIOUS
      <3> QED
        BY <3>1, <3>2, <3>3, <3>4
    <2>4. ASSUME NEW g \in Forks
          PROVE /\ status'[g] \in {"none", "ended"} => at'[g] = 0
                /\ status'[g] # "none" => at'[g] <= Len(Pipes'[g])
                /\ status'[g] = "joined" => at'[g] = Len(Pipes'[g])
                /\ status'[g] # "none" => \A i \in 1 .. Len(Pipes'[g]) :
                      /\ i <= at'[g] => In(Pipes'[g][i]) \in Logged' /\ Out(Pipes'[g][i]) \notin Logged'
                      /\ i > at'[g] => (In(Pipes'[g][i]) \in Logged' <=> Out(Pipes'[g][i]) \in Logged')
                      /\ i > at'[g] /\ status'[g] = "in" => In(Pipes'[g][i]) \notin Logged'
      <3>1. CASE g = f
        <4>1. \A i \in 1 .. Len(Pipes[f]) :
                /\ i <= at[f] => In(Pipes[f][i]) \in Logged /\ Out(Pipes[f][i]) \notin Logged
                /\ i > at[f] => (In(Pipes[f][i]) \in Logged <=> Out(Pipes[f][i]) \in Logged)
          BY <1>2 DEF LogInv, PlacesAreLogged
        <4>2. In(Pipes[f][n]) \in Logged
          BY <1>5, <1>10
        <4>3. \A i \in 1 .. Len(Pipes[f]) :
                /\ i <= n - 1 => In(Pipes[f][i]) \in Logged' /\ Out(Pipes[f][i]) \notin Logged'
                /\ i > n - 1 => (In(Pipes[f][i]) \in Logged' <=> Out(Pipes[f][i]) \in Logged')
          BY <1>2, <1>5, <2>1, <2>3, <4>1, <4>2
        <4> QED
          BY <1>1, <1>2, <2>2, <2>3, <3>1, <4>3
      <3>2. CASE g # f
        <4>1. \A i \in 1 .. Len(Pipes[g]) : status[g] # "none" =>
                /\ In(Pipes[g][i]) \in Logged' <=> In(Pipes[g][i]) \in Logged
                /\ Out(Pipes[g][i]) \in Logged' <=> Out(Pipes[g][i]) \in Logged
          BY <2>1, <3>2
        <4>2. at'[g] = at[g] /\ Pipes' = Pipes /\ status' = status
          BY <1>1, <1>2, <2>2, <3>2
        <4> QED
          BY <3>2, <4>1, <4>2 DEF LogInv, PlacesAreLogged
      <3> QED
        BY <3>1, <3>2
    <2> QED
      BY <2>4 DEF PlacesAreLogged, In, Out
  <1> QED
    BY <1>7, <1>8, <1>9, <1>11, <1>12, <1>13, <1>14, <1>15 DEF LogInv

\* A fork moves on: what is under way stays awaited, or has joined.
LEMMA ForkMoveLog ==
  ASSUME IInv, LogInv, NEW f \in Forks, status[f] \in {"in", "out"},
         \A g \in Pipelines : g # f => status'[g] = status[g],
         UNCHANGED <<app, event, at, log, size>>,
         \/ status'[f] \in {"out", "faulted"} /\ UNCHANGED waitsFor
         \/ status'[f] = "ended" /\ at[f] = 0 /\ UNCHANGED waitsFor
         \/ /\ status'[f] = "joined" /\ at[f] = Len(Pipes[f])
            /\ waitsFor' = [p \in Pipelines |-> IF waitsFor[p] = f THEN Nobody ELSE waitsFor[p]]
  PROVE  LogInv'
  <1>1. Pipes' = Pipes /\ StageEntries' = StageEntries /\ Logged' = Logged
    BY PipesStay DEF Logged
  <1>2. /\ DOMAIN status = Pipelines /\ f # Main
        /\ \A g \in Pipelines : g # f => status'[g] = status[g]
        /\ status'[f] \notin {"none", "in"}
    BY Names DEF IInv, Chain, Shape
  <1>3. \A g \in Forks :
              /\ status'[g] = "none" <=> status[g] = "none"
              /\ status'[g] = "in" => status[g] = "in"
              /\ status'[g] = "ended" => at[g] = 0
              /\ status'[g] = "joined" => at[g] = Len(Pipes[g])
    BY <1>2, Names DEF LogInv, PlacesAreLogged
  <1>4. Running'
    <2> SUFFICES ASSUME status[Main] = "running"
                 PROVE /\ \A g \in Stages : status'[g] \in {"none", "joined"} \/ waitsFor'[Main] = g
                       /\ status'[Auth] \in {"none", "joined"} \/ \E q \in Pipelines : waitsFor'[q] = Auth
      BY <1>2, Names DEF Running
    <2>1. \A g \in Stages : status[g] \in {"none", "joined"} \/ waitsFor[Main] = g
      BY DEF LogInv, Running
    <2>2. status[Auth] \in {"none", "joined"} \/ \E q \in Pipelines : waitsFor[q] = Auth
      BY DEF LogInv, Running
    <2>3. CASE UNCHANGED waitsFor
      BY <1>2, <2>1, <2>2, <2>3, Names
    <2>4. CASE /\ status'[f] = "joined"
               /\ waitsFor' = [p \in Pipelines |-> IF waitsFor[p] = f THEN Nobody ELSE waitsFor[p]]
      <3>1. ASSUME NEW g \in Forks, g # f
            PROVE  /\ status'[g] = status[g]
                   /\ \A q \in Pipelines : waitsFor[q] = g => waitsFor'[q] = g
        BY <1>2, <2>4, <3>1, Names
      <3> QED
        BY <1>2, <2>1, <2>2, <2>4, <3>1, Names
    <2> QED
      BY <2>3, <2>4
  <1>5. AllEntered'
    BY <1>1, <1>2, <1>3, Names DEF LogInv, AllEntered, In
  <1>6. size' \in Nat
    BY DEF LogInv, Typed
  <1> QED
    BY <1>3, <1>4, <1>5, <1>6, MoveLog

\* A step of the request itself.
LEMMA MainMoveLog ==
  ASSUME IInv, LogInv, UNCHANGED <<app, event, at, log>>, size' \in Nat,
         \A f \in Forks :
            /\ status'[f] = "none" <=> status[f] = "none"
            /\ status'[f] = "in" => status[f] = "in"
            /\ status'[f] = "ended" => status[f] = "ended"
            /\ status'[f] = "joined" => status[f] = "joined",
         status'[Main] # "running",
         status'[Main] = "completing" =>
            status[Main] = "completing" \/ (status[Main] = "running" /\ Active(Main))
  PROVE  LogInv'
  <1>1. Pipes' = Pipes /\ Logged' = Logged
    BY PipesStay DEF Logged
  <1>2. AllEntered'
    <2> SUFFICES ASSUME status'[Main] = "completing", NEW f \in Stages, status[f] # "none"
                 PROVE  \A i \in 1 .. Len(Pipes[f]) : In(Pipes[f][i]) \in Logged
      BY <1>1, Names DEF AllEntered, In
    <2>1. CASE status[Main] = "completing"
      BY <2>1 DEF LogInv, AllEntered
    <2>2. CASE status[Main] = "running" /\ Active(Main)
      <3>1. status[f] = "joined"
        BY <2>2, JoinedForks, Names
      <3>2. f \in Forks /\ at[f] = Len(Pipes[f]) /\ Len(Pipes[f]) \in Nat
        BY <3>1, StartedIsKnown, Names DEF LogInv, PlacesAreLogged
      <3>3. \A i \in 1 .. Len(Pipes[f]) : i <= at[f]
        BY <3>2
      <3> QED
        BY <3>1, <3>2, <3>3 DEF LogInv, PlacesAreLogged
    <2> QED
      BY <2>1, <2>2
  <1>3. Running'
    BY DEF Running
  <1>4. \A f \in Forks :
              /\ status'[f] = "none" <=> status[f] = "none"
              /\ status'[f] = "in" => status[f] = "in"
              /\ status'[f] = "ended" => at[f] = 0
              /\ status'[f] = "joined" => at[f] = Len(Pipes[f])
    BY DEF LogInv, PlacesAreLogged
  <1> QED
    BY <1>2, <1>3, <1>4, MoveLog

LEMMA ForkStepLog ==
  ASSUME IInv, LogInv, NEW f \in Forks, ForkStep(f)
  PROVE  LogInv'
  <1>0. /\ status[f] # "none" => Pipeline(f) = Pipes[f]
        /\ DOMAIN status = Pipelines /\ f \in Pipelines
    BY StartedIsKnown, Names DEF IInv, Chain, Shape
  <1>1. CASE Enter(f)
    BY <1>1, EnterLog
  <1>2. CASE Join(f)
    <2>1. /\ status[f] = "in" /\ at[f] = Len(Pipes[f]) /\ UNCHANGED <<app, event, at, log, size>>
          /\ \A g \in Pipelines : g # f => status'[g] = status[g]
      BY <1>0, <1>2 DEF Join
    <2>2. CASE Head(forks) = f
      <3>1. /\ status'[f] = "joined"
            /\ waitsFor' = [p \in Pipelines |-> IF waitsFor[p] = f THEN Nobody ELSE waitsFor[p]]
        BY <1>0, <1>2, <2>2 DEF Join
      <3> QED
        BY <2>1, <3>1, ForkMoveLog
    <2>3. CASE Head(forks) # f
      <3>1. status'[f] = "faulted" /\ UNCHANGED waitsFor
        BY <1>0, <1>2, <2>3 DEF Join
      <3> QED
        BY <2>1, <3>1, ForkMoveLog
    <2> QED
      BY <2>2, <2>3
  <1>3. CASE ShortCircuit(f) \/ MiddlewareThrows(f)
    <2>1. status[f] \in {"in", "out"}
      BY <1>3, Names DEF ShortCircuit, MiddlewareThrows, Active, IInv, Chain, Shape
    <2>2. /\ status'[f] \in {"out", "faulted"} /\ UNCHANGED waitsFor
          /\ \A g \in Pipelines : g # f => status'[g] = status[g]
          /\ UNCHANGED <<app, event, at, log, size>>
      BY <1>0, <1>3 DEF ShortCircuit, MiddlewareThrows
    <2> QED
      BY <2>1, <2>2, ForkMoveLog
  <1>4. CASE Leave(f)
    BY <1>4, LeaveLog
  <1>5. CASE EndTask(f)
    <2>1. /\ status[f] \in {"in", "out"} /\ at[f] = 0 /\ status'[f] = "ended" /\ UNCHANGED waitsFor
          /\ \A g \in Pipelines : g # f => status'[g] = status[g]
          /\ UNCHANGED <<app, event, at, log, size>>
      BY <1>0, <1>5 DEF EndTask
    <2> QED
      BY <2>1, ForkMoveLog
  <1> QED
    BY <1>1, <1>2, <1>3, <1>4, <1>5 DEF ForkStep

LEMMA RaiseEventLog ==
  ASSUME IInv, LogInv, RaiseEvent
  PROVE  LogInv'
  <1>1. /\ status[Main] = "running" /\ Active(Main) /\ event \in Stages /\ event' = event + 1
        /\ event \in Nat /\ status[event] = "none"
    BY Names DEF RaiseEvent, IInv, Started
  <1>2. CASE event \in DOMAIN StageEntries
    <2>1. Fork(Main, event) /\ event \in Known
      BY <1>2 DEF RaiseEvent, Known
    <2> QED
      BY <1>1, <2>1, ForkLog, Names
  <1>3. CASE event \notin DOMAIN StageEntries
    <2>1. UNCHANGED <<app, status, waitsFor, at, forks, visited, size, log>>
      BY <1>3 DEF RaiseEvent
    <2>2. Pipes' = Pipes /\ StageEntries' = StageEntries /\ Logged' = Logged
      BY <2>1, PipesStay DEF Logged
    <2>3. StagesBehind'
      BY <1>1, <1>3, <2>1, <2>2, Names DEF LogInv, StagesBehind
    <2>4. Typed' /\ LoggedOnce' /\ InBeforeOut' /\ Ascending'
      BY <2>1 DEF LogInv, Typed, LoggedOnce, InBeforeOut, Ascending
    <2>5. LogIsOfForks' /\ PlacesAreLogged'
      BY <2>1, <2>2 DEF LogInv, LogIsOfForks, PlacesAreLogged, In, Out
    <2>6. InTurn' /\ Running' /\ AllEntered'
      BY <2>1, <2>2 DEF LogInv, InTurn, Running, AllEntered, In
    <2> QED
      BY <2>3, <2>4, <2>5, <2>6 DEF LogInv
  <1> QED
    BY <1>2, <1>3

LEMMA MainStepLog ==
  ASSUME IInv, LogInv, MainStep
  PROVE  LogInv'
  <1>0. /\ DOMAIN status = Pipelines /\ size \in Nat /\ forks \in Seq(Forks) /\ visited \in Nat
        /\ waitsFor \in [Pipelines -> Forks \cup {Nobody}]
    BY DEF IInv, Chain, Shape, LogInv, Typed, Started
  <1>1. CASE RaiseEvent
    BY <1>1, RaiseEventLog
  <1>2. CASE CompleteResponse
    BY <1>0, <1>2, MainMoveLog, Names DEF CompleteResponse
  <1>3. CASE Resume
    <2> DEFINE f == forks[visited + 1]
    <2>1. /\ status' = [status EXCEPT ![f] = "out"] /\ UNCHANGED <<app, event, at, log, size>>
          /\ visited < size /\ Len(forks) = size /\ status[Main] = "completing"
      BY <1>3 DEF Resume, ResumeNext, Completing
    <2>2. f \in Forks /\ status[f] # "none" /\ f # Main
      BY <1>0, <2>1, Names DEF IInv, Started
    <2> HIDE DEF f
    <2> QED
      BY <1>0, <2>1, <2>2, MainMoveLog, Names
  <1>4. CASE Awaited
    <2>1. /\ status[Main] = "completing"
          /\ status' = status \/ status' = [status EXCEPT ![Main] = "ended"]
          /\ UNCHANGED <<app, event, at, log, size>>
      BY <1>4 DEF Awaited
    <2> QED
      BY <1>0, <2>1, MainMoveLog, Names
  <1>5. CASE EnumerationThrows
    BY <1>0, <1>5, MainMoveLog, Names DEF EnumerationThrows
  <1>6. CASE FinishCompletion
    BY <1>0, <1>6, MainMoveLog, Names DEF FinishCompletion
  <1> QED
    BY <1>1, <1>2, <1>3, <1>4, <1>5, <1>6 DEF MainStep

LEMMA LogNext == IInv /\ LogInv /\ [Next]_vars => LogInv'
  <1> SUFFICES ASSUME IInv, LogInv, [Next]_vars PROVE LogInv'
    OBVIOUS
  <1>1. CASE MainStep
    BY <1>1, MainStepLog
  <1>2. ASSUME NEW p \in Stages \cup {Main}, Authenticate(p) PROVE LogInv'
    <2>1. Auth \in Known /\ Fork(p, Auth) /\ Active(p) /\ status[Auth] = "none" /\ event' = event
      BY <1>2 DEF Authenticate, Known
    <2> QED
      BY <2>1, ForkLog
  <1>3. CASE \E f \in Forks : ForkStep(f)
    BY <1>3, ForkStepLog
  <1>4. CASE UNCHANGED vars
    <2>1. Pipes' = Pipes /\ StageEntries' = StageEntries /\ Logged' = Logged
      BY <1>4, PipesStay DEF vars, Logged
    <2>2. /\ UNCHANGED <<app, event, at, log, size, status, waitsFor>>
      BY <1>4 DEF vars
    <2>3. Running' /\ AllEntered' /\ size' \in Nat
      BY <2>1, <2>2 DEF LogInv, Typed, Running, AllEntered, In
    <2> QED
      BY <2>2, <2>3, MoveLog DEF LogInv, PlacesAreLogged
  <1> QED
    BY <1>1, <1>2, <1>3, <1>4 DEF Next, Over

LEMMA OnTime == IInv /\ LogInv => MiddlewareOnTime
  <1> SUFFICES ASSUME IInv, LogInv, status[Main] \in {"running", "completing"}, Active(Main)
               PROVE  LET Entered == {k \in DOMAIN log : log[k].dir = "in" /\ log[k].mw # 0} IN
                      /\ {log[k].mw : k \in Entered} = {i \in DOMAIN app : app[i] = Use /\ StageOf(i) < event}
                      /\ \A j, k \in Entered : j < k => log[j].mw < log[k].mw
    BY DEF MiddlewareOnTime
  <1> DEFINE Entered == {k \in DOMAIN log : log[k].dir = "in" /\ log[k].mw # 0}
  <1>0. Places
    BY PlacesOfTyped DEF LogInv
  <1>1. ASSUME NEW k \in Entered
        PROVE  /\ log[k].mw \in DOMAIN app /\ app[log[k].mw] = Use /\ StageOf(log[k].mw) < event
    <2>1. log[k] \in Logged /\ log[k].mw # 0
      BY DEF Logged
    <2>2. PICK f \in Forks : status[f] # "none" /\ \E i \in 1 .. Len(Pipes[f]) : log[k].mw = Pipes[f][i]
      BY <2>1 DEF LogInv, LogIsOfForks
    <2>3. PICK i \in 1 .. Len(Pipes[f]) : log[k].mw = Pipes[f][i]
      BY <2>2
    <2>4. f # Auth
      <3>1. \A x \in 1 .. Len(<<0>>) : <<0>>[x] = 0
        OBVIOUS
      <3> QED
        BY <1>0, <2>1, <2>3, <3>1 DEF Places
    <2>5. f \in Stages /\ f \in DOMAIN StageEntries /\ f < event
      BY <2>2, <2>4, Names DEF LogInv, StagesBehind
    <2> QED
      BY <1>0, <2>3, <2>5 DEF Places
  <1>2. ASSUME NEW m \in DOMAIN app, app[m] = Use, StageOf(m) < event
        PROVE  \E k \in Entered : log[k].mw = m
    <2> DEFINE f == StageOf(m)
    <2>1. f \in DOMAIN StageEntries /\ \E i \in 1 .. Len(Pipes[f]) : Pipes[f][i] = m
      BY <1>0, <1>2 DEF Places
    <2>2. PICK i \in 1 .. Len(Pipes[f]) : Pipes[f][i] = m
      BY <2>1
    <2>3. f \in Stages /\ f \in Forks /\ f < event /\ m # 0
      BY <1>0, <1>2, <2>1, <2>2, Names DEF Places
    <2> HIDE DEF f
    <2>4. status[f] # "none"
      BY <2>1, <2>3 DEF LogInv, StagesBehind
    <2>5. In(m) \in Logged
      <3>1. CASE status[Main] = "completing"
        BY <2>2, <2>3, <2>4, <3>1 DEF LogInv, AllEntered
      <3>2. CASE status[Main] = "running"
        <4>1. status[f] = "joined"
          BY <2>3, <2>4, <3>2, JoinedForks
        <4>2. at[f] = Len(Pipes[f]) /\ Len(Pipes[f]) \in Nat
          BY <2>3, <4>1, StartedIsKnown DEF LogInv, PlacesAreLogged
        <4>3. i <= at[f]
          BY <4>2
        <4> QED
          BY <2>2, <2>3, <2>4, <4>3 DEF LogInv, PlacesAreLogged
      <3> QED
        BY <3>1, <3>2
    <2>6. PICK k \in DOMAIN log : log[k] = In(m)
      BY <2>5 DEF Logged
    <2>7. log[k].dir = "in" /\ log[k].mw = m
      BY <2>6, InOut, Zenon
    <2> QED
      BY <2>3, <2>6, <2>7
  <1>3. \A j, k \in Entered : j < k => log[j].mw < log[k].mw
    BY DEF LogInv, Ascending
  <1> HIDE DEF Entered
  <1>4. {log[k].mw : k \in Entered} = {i \in DOMAIN app : app[i] = Use /\ StageOf(i) < event}
    BY <1>1, <1>2
  <1> QED
    BY <1>3, <1>4 DEF Entered

\* Whatever the OWIN configuration is, whenever the request runs, exactly the
\* middlewares of the stages whose events were raised have been entered, each
\* once and in the order they were configured in: the markers that
\* EnableIntegratedPipeline takes, and those that it ignores, lose no middleware
\* and move none behind its event.
THEOREM MiddlewareIsOnTime == Spec => []MiddlewareOnTime
  <1>1. Init => IInv /\ LogInv
    BY InitHolds, InitLog
  <1>2. IInv /\ LogInv /\ [Next]_vars => (IInv /\ LogInv)'
    BY NextKeeps, LogNext
  <1> QED
    BY <1>1, <1>2, OnTime, PTL DEF Spec

-----------------------------------------------------------------------------
(* The stack of the forks, and the order they are resumed in.               *)

\* The forks that were started are on the stack, the later stages further up.
StackOfForks ==
    /\ status[Main] # "ended" => \A f \in Forks : status[f] # "none" => \E i \in DOMAIN forks : forks[i] = f
    /\ \A i, j \in DOMAIN forks : i < j =>
          forks[i] # forks[j] /\ (forks[i] \in Stages /\ forks[j] \in Stages => forks[j] < forks[i])
    /\ status[Main] = "running" => visited = 0
    /\ status[Main] = "completing" => size <= Len(forks)

\* CompleteAsync has gone through the forks that it visited.
Enumerating == status[Main] = "completing" /\ Len(forks) = size

Enumeration ==
    Enumerating =>
        /\ visited <= size
        /\ waitsFor[Main] # Nobody => visited > 0 /\ waitsFor[Main] = forks[visited]
        /\ \A i \in DOMAIN forks :
              /\ i < visited => status[forks[i]] = "ended"
              /\ i = visited => /\ status[forks[i]] \in {"out", "ended", "faulted"}
                                /\ waitsFor[Main] = Nobody => status[forks[i]] = "ended"
              /\ i > visited => status[forks[i]] = "joined"

\* While a stage is on its way out, the later ones are over.
OutInTurn == \A f, g \in Stages : f < g /\ status[f] = "out" => status[g] \in {"none", "ended"}

\* Only the request forked, and the stack is as it left it.
Tidy ==
    \/ status[Main] = "running" /\ \A i \in DOMAIN forks : i > 1 => status[forks[i]] = "joined"
    \/ Enumerating

\* Then a fork entered its middlewares after those further down did.
EnteredByStack ==
    \A i, j \in DOMAIN forks : i < j =>
        \A m \in 1 .. Len(Pipes[forks[i]]) : \A n \in 1 .. Len(Pipes[forks[j]]) : \A k, l \in DOMAIN log :
            log[k] = In(Pipes[forks[i]][m]) /\ log[l] = In(Pipes[forks[j]][n]) => l < k

OfApplication == {k \in DOMAIN log : log[k].mw # 0}

Completed ==
    status[Main] = "ended" /\ forks = <<>> =>
        /\ \A f \in Forks : status[f] \in {"none", "ended"}
        /\ Nested(DOMAIN log)
        /\ \A j \in DOMAIN log : \E k \in DOMAIN log : log[k] = Out(log[j].mw)

NestInv ==
    /\ Nested(OfApplication)
    /\ Tidy => EnteredByStack /\ Nested(DOMAIN log)

StackInv ==
    /\ StackOfForks
    /\ Enumeration
    /\ OutInTurn
    /\ NestInv
    /\ Completed

LEMMA InitStack == Init => StackInv
  <1> SUFFICES ASSUME Init PROVE StackInv
    OBVIOUS
  <1>1. /\ forks = <<>> /\ log = <<>> /\ DOMAIN forks = {} /\ DOMAIN log = {} /\ visited = 0
        /\ status[Main] = "running" /\ \A f \in Forks : status[f] = "none"
    BY Names DEF Init
  <1>2. StackOfForks /\ Enumeration /\ OutInTurn
    BY <1>1, Names DEF StackOfForks, Enumeration, Enumerating, OutInTurn
  <1>3. NestInv /\ Completed
    BY <1>1 DEF NestInv, OfApplication, Nested, EnteredByStack, Completed
  <1> QED
    BY <1>2, <1>3 DEF StackInv

NestedIn(l, L) ==
    \A k \in L : l[k].dir = "out" =>
        \E i \in L :
            /\ i < k /\ l[i] = In(l[k].mw)
            /\ \A j \in L : i < j /\ j < k /\ l[j].dir = "in" =>
                   \E h \in L : j < h /\ h < k /\ l[h] = Out(l[j].mw)

LEMMA NestedLog == \A L : Nested(L) <=> NestedIn(log, L)
  BY DEF Nested, NestedIn

LEMMA NestedKept ==
  ASSUME NEW l, NEW r, NEW L, NestedIn(l, L), \A k \in L : r[k] = l[k]
  PROVE  NestedIn(r, L)
  <1> SUFFICES ASSUME NEW k \in L, r[k].dir = "out"
               PROVE  \E i \in L :
                        /\ i < k /\ r[i] = In(r[k].mw)
                        /\ \A j \in L : i < j /\ j < k /\ r[j].dir = "in" =>
                              \E h \in L : j < h /\ h < k /\ r[h] = Out(r[j].mw)
    BY DEF NestedIn
  <1>1. PICK i \in L :
            /\ i < k /\ l[i] = In(l[k].mw)
            /\ \A j \in L : i < j /\ j < k /\ l[j].dir = "in" =>
                   \E h \in L : j < h /\ h < k /\ l[h] = Out(l[j].mw)
    <2>1. l[k].dir = "out"
      OBVIOUS
    <2> QED
      BY <2>1 DEF NestedIn
  <1>2. r[i] = In(r[k].mw)
    BY <1>1
  <1>3. ASSUME NEW j \in L, i < j, j < k, r[j].dir = "in"
        PROVE  \E h \in L : j < h /\ h < k /\ r[h] = Out(r[j].mw)
    <2>1. r[j] = l[j]
      OBVIOUS
    <2>2. PICK h \in L : j < h /\ h < k /\ l[h] = Out(l[j].mw)
      BY <1>1, <1>3, <2>1
    <2> QED
      BY <2>1, <2>2
  <1> QED
    BY <1>1, <1>2, <1>3

\* A middleware that is entered opens a nest, one that is left closes its own.
LEMMA EnteredNests ==
  ASSUME NEW l, NEW L, NEW last, NestedIn(l, L), l[last].dir = "in",
         L \subseteq Nat, last \in Nat, \A k \in L : k < last
  PROVE  NestedIn(l, L \cup {last})
  <1> SUFFICES ASSUME NEW k \in L \cup {last}, l[k].dir = "out"
               PROVE  \E i \in L \cup {last} :
                        /\ i < k /\ l[i] = In(l[k].mw)
                        /\ \A j \in L \cup {last} : i < j /\ j < k /\ l[j].dir = "in" =>
                              \E h \in L \cup {last} : j < h /\ h < k /\ l[h] = Out(l[j].mw)
    BY DEF NestedIn
  <1>1. k \in L
    OBVIOUS
  <1>2. PICK i \in L :
            /\ i < k /\ l[i] = In(l[k].mw)
            /\ \A j \in L : i < j /\ j < k /\ l[j].dir = "in" =>
                   \E h \in L : j < h /\ h < k /\ l[h] = Out(l[j].mw)
    BY <1>1 DEF NestedIn
  <1>3. ASSUME NEW j \in L \cup {last}, i < j, j < k, l[j].dir = "in"
        PROVE  \E h \in L \cup {last} : j < h /\ h < k /\ l[h] = Out(l[j].mw)
    <2>1. j \in L
      BY <1>1, <1>3
    <2>2. PICK h \in L : j < h /\ h < k /\ l[h] = Out(l[j].mw)
      BY <1>2, <1>3, <2>1
    <2> QED
      BY <2>2
  <1> QED
    BY <1>2, <1>3

LEMMA LeftNests ==
  ASSUME NEW l, NEW L, NEW last, NestedIn(l, L), NEW m, l[last] = Out(m),
         L \subseteq Nat, last \in Nat, \A k \in L : k < last,
         NEW i \in L, l[i] = In(m),
         \A j \in L : i < j /\ l[j].dir = "in" => \E h \in L : j < h /\ l[h] = Out(l[j].mw)
  PROVE  NestedIn(l, L \cup {last})
  <1> SUFFICES ASSUME NEW k \in L \cup {last}, l[k].dir = "out"
               PROVE  \E x \in L \cup {last} :
                        /\ x < k /\ l[x] = In(l[k].mw)
                        /\ \A j \in L \cup {last} : x < j /\ j < k /\ l[j].dir = "in" =>
                              \E h \in L \cup {last} : j < h /\ h < k /\ l[h] = Out(l[j].mw)
    BY DEF NestedIn
  <1>0. Out(m).mw = m
    BY InOut, Zenon
  <1>1. CASE k \in L
    <2>1. PICK x \in L : /\ x < k /\ l[x] = In(l[k].mw)
                         /\ \A j \in L : x < j /\ j < k /\ l[j].dir = "in" =>
                               \E h \in L : j < h /\ h < k /\ l[h] = Out(l[j].mw)
      BY <1>1 DEF NestedIn
    <2>2. ASSUME NEW j \in L \cup {last}, x < j, j < k, l[j].dir = "in"
          PROVE  \E h \in L \cup {last} : j < h /\ h < k /\ l[h] = Out(l[j].mw)
      <3>1. j \in L
        BY <1>1, <2>2
      <3>2. PICK h \in L : j < h /\ h < k /\ l[h] = Out(l[j].mw)
        BY <2>1, <2>2, <3>1
      <3> QED
        BY <3>2
    <2> QED
      BY <2>1, <2>2
  <1>2. CASE k = last
    <2>1. i < k /\ l[i] = In(l[k].mw)
      BY <1>0, <1>2
    <2>2. ASSUME NEW j \in L \cup {last}, i < j, j < k, l[j].dir = "in"
          PROVE  \E h \in L \cup {last} : j < h /\ h < k /\ l[h] = Out(l[j].mw)
      <3>1. j \in L
        BY <1>2, <2>2
      <3>2. PICK h \in L : j < h /\ l[h] = Out(l[j].mw)
        BY <2>2, <3>1
      <3>3. h < k
        BY <1>2
      <3> QED
        BY <3>2, <3>3
    <2> QED
      BY <2>1, <2>2
  <1> QED
    BY <1>1, <1>2

\* What was left was left after it was entered.
LEMMA LeftLater ==
  ASSUME LogInv, NEW j \in DOMAIN log, log[j].dir = "in", Out(log[j].mw) \in Logged
  PROVE  \E h \in DOMAIN log : j < h /\ log[h] = Out(log[j].mw)
  <1>1. PICK h \in DOMAIN log : log[h] = Out(log[j].mw)
    BY DEF Logged
  <1>2. log[h].dir = "out" /\ log[h].mw = log[j].mw
    BY <1>1, InOut, Zenon
  <1>3. PICK i \in DOMAIN log : i < h /\ log[i] = In(log[j].mw)
    BY <1>2 DEF LogInv, InBeforeOut
  <1>4. log[j] = In(log[j].mw)
    <2>1. log[j] = In(log[j].mw) \/ log[j] = Out(log[j].mw)
      BY LogTyped, InOut DEF LogInv
    <2>2. Out(log[j].mw).dir = "out"
      BY InOut, Zenon
    <2> QED
      BY <2>1, <2>2
  <1>5. i = j
    BY <1>3, <1>4 DEF LogInv, LoggedOnce
  <1> QED
    BY <1>1, <1>3, <1>5

\* The middleware that was entered at place j of the log.
LEMMA EnteredBy ==
  ASSUME LogInv, NEW j \in DOMAIN log, log[j].dir = "in"
  PROVE  /\ log[j] = In(log[j].mw)
         /\ \E f \in Forks : /\ status[f] # "none" /\ f \in Known
                             /\ \E i \in 1 .. Len(Pipes[f]) : log[j].mw = Pipes[f][i]
  <1>1. log[j] = In(log[j].mw)
    <2>1. log[j] = In(log[j].mw) \/ log[j] = Out(log[j].mw)
      BY LogTyped, InOut DEF LogInv
    <2>2. Out(log[j].mw).dir = "out"
      BY InOut, Zenon
    <2> QED
      BY <2>1, <2>2
  <1>2. PICK f \in Forks : status[f] # "none" /\ \E i \in 1 .. Len(Pipes[f]) : log[j].mw = Pipes[f][i]
    BY DEF LogInv, LogIsOfForks, Logged
  <1>3. f \in Known
    BY <1>2, StartedIsKnown
  <1> QED
    BY <1>1, <1>2, <1>3

StackPart == StackOfForks /\ Enumeration /\ OutInTurn

\* While the stack is enumerated, the fork that was resumed last is the only
\* one that may be under way.
LEMMA UnderWay ==
  ASSUME IInv, StackInv, Enumerating, NEW f \in Forks, status[f] \in {"in", "out"}
  PROVE  visited \in DOMAIN forks /\ f = forks[visited] /\ status[f] = "out" /\ waitsFor[Main] = f
  <1>1. PICK i \in DOMAIN forks : forks[i] = f
    BY DEF StackInv, StackOfForks, Enumerating
  <1>2. i \in Nat /\ visited \in Nat
    BY DEF IInv, Started
  <1>3. i = visited
    BY <1>1, <1>2 DEF StackInv, Enumeration
  <1>4. status[f] = "out" /\ waitsFor[Main] # Nobody
    BY <1>1, <1>3 DEF StackInv, Enumeration
  <1> QED
    BY <1>1, <1>3, <1>4 DEF StackInv, Enumeration

LEMMA Pushed ==
  ASSUME NEW f \in Forks, NEW s \in Seq(Forks)
  PROVE  /\ <<f>> \o s \in Seq(Forks) /\ Len(<<f>> \o s) = Len(s) + 1 /\ Len(s) \in Nat
         /\ (<<f>> \o s)[1] = f
         /\ \A i \in DOMAIN s : i + 1 \in DOMAIN (<<f>> \o s) /\ (<<f>> \o s)[i + 1] = s[i]
         /\ \A i \in DOMAIN (<<f>> \o s) :
               i \in Nat /\ i >= 1 /\ (i # 1 => i - 1 \in DOMAIN s /\ (<<f>> \o s)[i] = s[i - 1])
  <1> DEFINE r == <<f>> \o s
  <1>1. r \in Seq(Forks) /\ Len(r) = Len(s) + 1 /\ Len(s) \in Nat /\ DOMAIN s = 1 .. Len(s) /\ DOMAIN r = 1 .. Len(r)
    OBVIOUS
  <1>2. r[1] = f /\ \A i \in DOMAIN s : r[i + 1] = s[i]
    OBVIOUS
  <1> HIDE DEF r
  <1>3. \A i \in DOMAIN s : i + 1 \in DOMAIN r
    BY <1>1
  <1>4. ASSUME NEW i \in DOMAIN r, i # 1 PROVE i - 1 \in DOMAIN s /\ r[i] = s[i - 1]
    <2>1. i - 1 \in DOMAIN s /\ (i - 1) + 1 = i
      BY <1>1, <1>4
    <2> QED
      BY <1>2, <2>1
  <1>5. \A i \in DOMAIN r : i \in Nat /\ i >= 1
    BY <1>1
  <1> QED
    BY <1>1, <1>2, <1>3, <1>4, <1>5 DEF r

LEMMA ForkStack ==
  ASSUME IInv, LogInv, StackInv, NEW p \in Stages \cup {Main}, NEW f \in Forks,
         status[f] = "none", Active(p), Fork(p, f),
         p = Main => status[Main] = "running",
         (p = Main /\ f = event) \/ f = Auth
  PROVE  StackPart' /\ (Tidy' => p = Main)
  <1>1. /\ forks \in Seq(Forks) /\ DOMAIN status = Pipelines /\ DOMAIN waitsFor = Pipelines
        /\ p \in Pipelines /\ p # f /\ Main # f /\ f \in Pipelines
        /\ UNCHANGED <<visited, size>> /\ size \in Nat /\ visited \in Nat /\ event \in Nat
        /\ status'[f] = "in" /\ \A g \in Pipelines : g # f => status'[g] = status[g]
        /\ forks' = <<f>> \o forks
    BY Names DEF Fork, Active, IInv, Chain, Shape, Started, LogInv, Typed
  <1>2. /\ forks' \in Seq(Forks) /\ Len(forks') = Len(forks) + 1 /\ Len(forks) \in Nat
        /\ forks'[1] = f
        /\ \A i \in DOMAIN forks : i + 1 \in DOMAIN forks' /\ forks'[i + 1] = forks[i]
        /\ \A i \in DOMAIN forks' : i \in Nat /\ i >= 1 /\ (i # 1 => i - 1 \in DOMAIN forks /\ forks'[i] = forks[i - 1])
        /\ 1 \in DOMAIN forks'
    <2>1. 1 \in DOMAIN forks'
      BY <1>1
    <2> QED
      BY <1>1, <2>1, Pushed
  <1>3. \A i \in DOMAIN forks : forks[i] \in Forks /\ status[forks[i]] # "none" /\ forks[i] # f
    BY DEF IInv, Started
  <1>4. StackOfForks'
    <2>1. ASSUME status'[Main] # "ended", NEW g \in Forks, status'[g] # "none"
          PROVE  \E i \in DOMAIN forks' : forks'[i] = g
      <3>1. CASE g = f
        BY <1>2, <3>1
      <3>2. CASE g # f
        <4>1. status[g] # "none" /\ status[Main] # "ended"
          BY <1>1, <2>1, <3>2, Names
        <4>2. PICK i \in DOMAIN forks : forks[i] = g
          BY <4>1 DEF StackInv, StackOfForks
        <4> QED
          BY <1>2, <4>2
      <3> QED
        BY <3>1, <3>2
    <2>2. ASSUME NEW i \in DOMAIN forks', NEW j \in DOMAIN forks', i < j
          PROVE  forks'[i] # forks'[j] /\ (forks'[i] \in Stages /\ forks'[j] \in Stages => forks'[j] < forks'[i])
      <3>1. j # 1 /\ j - 1 \in DOMAIN forks /\ forks'[j] = forks[j - 1]
        BY <1>2, <2>2
      <3>2. CASE i = 1
        <4>1. forks'[i] = f /\ forks'[j] # f
          BY <1>2, <1>3, <3>1, <3>2
        <4>2. ASSUME f \in Stages, forks[j - 1] \in Stages PROVE forks[j - 1] < f
          <5>1. f = event
            BY <4>2, Names
          <5>2. ~(forks[j - 1] >= event)
            BY <1>3, <3>1, <4>2 DEF IInv, Started
          <5> QED
            <6>1. forks[j - 1] \in Nat /\ event \in Nat
              BY <1>1, <4>2, Names
            <6> DEFINE x == forks[j - 1]
            <6>2. x \in Nat /\ ~(x >= event)
              BY <5>2, <6>1
            <6> HIDE DEF x
            <6>3. x < event
              BY <6>1, <6>2
            <6> QED
              BY <5>1, <6>3 DEF x
        <4> QED
          BY <3>1, <4>1, <4>2
      <3>3. CASE i # 1
        <4>1. i - 1 \in DOMAIN forks /\ forks'[i] = forks[i - 1] /\ i - 1 < j - 1
          BY <1>2, <2>2, <3>3
        <4> QED
          BY <3>1, <4>1 DEF StackInv, StackOfForks
      <3> QED
        BY <3>2, <3>3
    <2>3. status'[Main] = "running" => visited' = 0
      BY <1>1, Names DEF StackInv, StackOfForks
    <2>4. status'[Main] = "completing" => size' <= Len(forks')
      BY <1>1, <1>2, Names DEF StackInv, StackOfForks
    <2> QED
      BY <2>1, <2>2, <2>3, <2>4 DEF StackOfForks
  <1>5. ~Enumerating'
    BY <1>1, <1>2, Names DEF StackInv, StackOfForks, Enumerating
  <1>6. OutInTurn'
    <2> SUFFICES ASSUME NEW g \in Stages, NEW h \in Stages, g < h, status'[g] = "out"
                 PROVE  status'[h] \in {"none", "ended"}
      BY DEF OutInTurn
    <2>1. status[g] = "out"
      BY <1>1, Names
    <2>2. p # Main
      BY <2>1, QuietForks, Names
    <2>3. status'[h] = status[h]
      BY <1>1, <2>2, Names
    <2> QED
      BY <2>1, <2>3 DEF StackInv, OutInTurn
  <1>7. ASSUME Tidy', p # Main PROVE FALSE
    <2>1. status[Main] = "running" /\ \A i \in DOMAIN forks' : i > 1 => status'[forks'[i]] = "joined"
      BY <1>1, <1>5, <1>7, Names DEF Tidy
    <2>2. status[p] \in {"in", "out"} /\ p \in Forks
      BY <1>7, Names DEF Active, IInv, Chain, Shape
    <2>3. PICK i \in DOMAIN forks : forks[i] = p
      BY <2>1, <2>2 DEF StackInv, StackOfForks
    <2>4. i + 1 \in DOMAIN forks' /\ forks'[i + 1] = p /\ i + 1 > 1
      <3>1. i \in Nat /\ i >= 1
        BY <1>1
      <3> QED
        BY <1>2, <2>3, <3>1
    <2>5. status'[p] = status[p]
      BY <1>1
    <2> QED
      BY <2>1, <2>2, <2>4, <2>5
  <1> QED
    BY <1>4, <1>5, <1>6, <1>7 DEF StackPart, Enumeration

LEMMA ForkMoveStack ==
  ASSUME IInv, LogInv, StackInv, NEW f \in Forks,
         \A g \in Pipelines : g # f => status'[g] = status[g],
         UNCHANGED <<forks, visited, size>>,
         \/ /\ status[f] = "in" /\ status'[f] \in {"out", "faulted"}
         \/ /\ status[f] = "in" /\ status'[f] = "joined" /\ Head(forks) = f
         \/ /\ status[f] = "out" /\ status'[f] \in {"faulted", "ended"}
            /\ UNCHANGED waitsFor
  PROVE  StackPart' /\ (Tidy' => Tidy)
  <1>1. /\ forks \in Seq(Forks) /\ visited \in Nat /\ f \in Pipelines /\ Main # f
        /\ status'[Main] = status[Main]
        /\ \A i \in DOMAIN forks : forks[i] \in Forks /\ i \in Nat
    BY Names DEF IInv, Started
  <1>2. StackOfForks'
    <2>1. \A g \in Forks : status'[g] # "none" => status[g] # "none"
      BY Names
    <2> QED
      BY <1>1, <2>1 DEF StackInv, StackOfForks
  <1>3. Enumerating' <=> Enumerating
    BY <1>1 DEF Enumerating
  <1>4. Enumeration'
    <2> SUFFICES ASSUME Enumerating
                 PROVE  /\ visited <= size
                        /\ waitsFor'[Main] # Nobody => visited > 0 /\ waitsFor'[Main] = forks[visited]
                        /\ \A i \in DOMAIN forks :
                              /\ i < visited => status'[forks[i]] = "ended"
                              /\ i = visited => /\ status'[forks[i]] \in {"out", "ended", "faulted"}
                                                /\ waitsFor'[Main] = Nobody => status'[forks[i]] = "ended"
                              /\ i > visited => status'[forks[i]] = "joined"
      BY <1>3 DEF Enumeration
    <2>1. visited \in DOMAIN forks /\ f = forks[visited] /\ status[f] = "out" /\ waitsFor[Main] = f
      BY UnderWay
    <2>2. status'[f] \in {"faulted", "ended"} /\ UNCHANGED waitsFor
      BY <2>1
    <2>3. \A i \in DOMAIN forks : i # visited => forks[i] # f
      BY <1>1, <2>1 DEF StackInv, StackOfForks
    <2>4. \A i \in DOMAIN forks : i # visited => status'[forks[i]] = status[forks[i]]
      BY <1>1, <2>3, Names
    <2>5. waitsFor'[Main] = f /\ f # Nobody
      BY <2>1, <2>2, Names
    <2>6. visited <= size /\ \A i \in DOMAIN forks :
                              /\ i < visited => status[forks[i]] = "ended"
                              /\ i > visited => status[forks[i]] = "joined"
      BY DEF StackInv, Enumeration
    <2>7. visited > 0
      BY <1>1, <2>1
    <2> QED
      BY <1>1, <2>1, <2>2, <2>4, <2>5, <2>6, <2>7
  <1>5. OutInTurn'
    <2> SUFFICES ASSUME NEW g \in Stages, NEW h \in Stages, g < h, status'[g] = "out"
                 PROVE  status'[h] \in {"none", "ended"}
      BY DEF OutInTurn
    <2>1. CASE g = f
      <3>1. status[g] = "in" /\ h # f /\ h \in Pipelines
        BY <2>1, Names
      <3> QED
        BY <3>1 DEF LogInv, InTurn
    <2>2. CASE g # f
      <3>1. status[g] = "out"
        BY <2>2, Names
      <3>2. status[h] \in {"none", "ended"}
        BY <3>1 DEF StackInv, OutInTurn
      <3> QED
        BY <3>2, Names
    <2> QED
      BY <2>1, <2>2
  <1>6. ASSUME Tidy' PROVE Tidy
    <2>1. CASE Enumerating'
      BY <1>3, <2>1 DEF Tidy
    <2>2. CASE ~Enumerating'
      <3>1. status[Main] = "running" /\ \A i \in DOMAIN forks : i > 1 => status'[forks[i]] = "joined"
        BY <1>1, <1>6, <2>2 DEF Tidy
      <3>2. ASSUME NEW i \in DOMAIN forks, i > 1 PROVE status[forks[i]] = "joined"
        <4>1. CASE forks[i] = f
          <5>1. Head(forks) = f /\ status'[f] = "joined"
            BY <3>1, <3>2, <4>1
          <5>2. 1 \in DOMAIN forks /\ forks[1] = f
            BY <1>1, <5>1
          <5> QED
            BY <3>2, <4>1, <5>2 DEF StackInv, StackOfForks
        <4>2. CASE forks[i] # f
          BY <1>1, <3>1, <3>2, <4>2, Names
        <4> QED
          BY <4>1, <4>2
      <3> QED
        BY <3>1, <3>2 DEF Tidy
    <2> QED
      BY <2>1, <2>2
  <1> QED
    BY <1>2, <1>4, <1>5, <1>6 DEF StackPart

LEMMA CompleteStack ==
  ASSUME IInv, LogInv, StackInv, CompleteResponse
  PROVE  StackPart' /\ (Tidy' => Tidy)
  <1>1. /\ status[Main] = "running" /\ Active(Main) /\ waitsFor[Main] = Nobody
        /\ size' = Len(forks) /\ UNCHANGED <<waitsFor, forks, visited>>
        /\ status'[Main] = "completing" /\ \A f \in Forks : status'[f] = status[f]
    BY Names DEF CompleteResponse, Active, IInv, Chain, Shape
  <1>2. forks \in Seq(Forks) /\ \A i \in DOMAIN forks : forks[i] \in Forks /\ i \in Nat /\ i >= 1 /\ status[forks[i]] # "none"
    BY DEF IInv, Started
  <1>3. \A f \in Forks : status[f] \in {"none", "joined"}
    BY <1>1, JoinedForks
  <1>4. \A i \in DOMAIN forks : status[forks[i]] = "joined"
    BY <1>2, <1>3
  <1>5. Tidy
    BY <1>1, <1>4 DEF Tidy
  <1>6. visited = 0
    BY <1>1 DEF StackInv, StackOfForks
  <1>7. StackOfForks'
    BY <1>1, <1>2 DEF StackInv, StackOfForks
  <1>8. Enumeration'
    <2>1. \A i \in DOMAIN forks : i > visited /\ status'[forks[i]] = "joined" /\ ~(i < visited) /\ i # visited
      BY <1>1, <1>2, <1>4, <1>6
    <2>2. visited <= Len(forks)
      BY <1>2, <1>6
    <2> QED
      BY <1>1, <2>1, <2>2 DEF Enumeration
  <1>9. OutInTurn'
    BY <1>1, Names DEF StackInv, OutInTurn
  <1> QED
    BY <1>5, <1>7, <1>8, <1>9 DEF StackPart

LEMMA ResumeStack ==
  ASSUME IInv, LogInv, StackInv, Resume
  PROVE  StackPart' /\ (Tidy' => Tidy)
  <1> DEFINE next == visited + 1
             f == forks[next]
  <1>1. /\ Enumerating /\ Active(Main) /\ waitsFor[Main] = Nobody /\ visited < size
        /\ status' = [status EXCEPT ![f] = "out"]
        /\ waitsFor' = [waitsFor EXCEPT ![Main] = f]
        /\ visited' = next
        /\ UNCHANGED <<forks, size>>
    BY DEF Resume, ResumeNext, Completing, Enumerating, Active
  <1>2. /\ forks \in Seq(Forks) /\ visited \in Nat /\ DOMAIN status = Pipelines /\ DOMAIN waitsFor = Pipelines
        /\ Len(forks) = size /\ size \in Nat /\ status[Main] = "completing"
    BY <1>1 DEF IInv, Started, Chain, Shape, Enumerating
  <1>3. next \in DOMAIN forks /\ f \in Forks /\ next \in Nat /\ next > visited /\ next > 0 /\ next <= size
    BY <1>1, <1>2
  <1>4. \A i \in DOMAIN forks : forks[i] \in Forks /\ i \in Nat
    BY <1>2
  <1>5. \A i \in DOMAIN forks : i # next => forks[i] # f
    BY <1>3, <1>4 DEF StackInv, StackOfForks
  <1> HIDE DEF f
  <1>6. /\ status'[f] = "out" /\ \A g \in Pipelines : g # f => status'[g] = status[g]
        /\ f \in Pipelines /\ f # Main /\ f # Nobody
        /\ waitsFor'[Main] = f
    BY <1>1, <1>2, <1>3, Names
  <1>7. status[f] = "joined" /\ forks[next] = f
    BY <1>1, <1>3 DEF StackInv, Enumeration, f
  <1>8. StackOfForks'
    <2>1. \A g \in Forks : status'[g] # "none" => status[g] # "none"
      BY <1>6, <1>7, Names
    <2>2. status'[Main] = status[Main]
      BY <1>6, Names
    <2> QED
      BY <1>1, <1>2, <2>1, <2>2 DEF StackInv, StackOfForks
  <1>9. Enumeration'
    <2>1. ASSUME NEW i \in DOMAIN forks
          PROVE  /\ i < next => status'[forks[i]] = "ended"
                 /\ i = next => status'[forks[i]] = "out"
                 /\ i > next => status'[forks[i]] = "joined"
      <3>1. CASE i = next
        BY <1>3, <1>6, <1>7, <3>1
      <3>2. CASE i # next
        <4>1. status'[forks[i]] = status[forks[i]]
          BY <1>4, <1>5, <1>6, <3>2, Names
        <4>2. i \in Nat /\ (i < next => i <= visited) /\ (i > next => i > visited)
          BY <1>2, <1>4
        <4>3. i <= visited => status[forks[i]] = "ended"
          BY <1>1, <1>2, <4>2 DEF StackInv, Enumeration
        <4>4. i > visited => status[forks[i]] = "joined"
          BY <1>1 DEF StackInv, Enumeration
        <4> QED
          BY <3>2, <4>1, <4>2, <4>3, <4>4
      <3> QED
        BY <3>1, <3>2
    <2>2. visited' = next /\ forks' = forks /\ size' = size /\ waitsFor'[Main] = forks[next] /\ waitsFor'[Main] # Nobody
      BY <1>1, <1>6, <1>7
    <2>3. \A i \in DOMAIN forks : i \in Nat
      BY <1>4
    <2> HIDE DEF next
    <2> QED
      BY <1>3, <2>1, <2>2, <2>3 DEF Enumeration
  <1>10. OutInTurn'
    <2> SUFFICES ASSUME NEW g \in Stages, NEW h \in Stages, g < h, status'[g] = "out"
                 PROVE  status'[h] \in {"none", "ended"}
      BY DEF OutInTurn
    <2>1. g = f
      BY <1>1, <1>6, QuietForks, Names
    <2>2. h # f /\ status'[h] = status[h]
      BY <1>6, <2>1, Names
    <2>3. CASE status[h] = "none"
      BY <2>2, <2>3
    <2>4. CASE status[h] # "none"
      <3>1. PICK i \in DOMAIN forks : forks[i] = h
        BY <1>2, <2>4, Names DEF StackInv, StackOfForks
      <3>2. ~(next < i)
        BY <1>3, <1>7, <2>1, <3>1, Names DEF StackInv, StackOfForks
      <3>3. i # next /\ i \in Nat
        BY <1>4, <1>7, <2>2, <3>1
      <3>4. i < visited \/ i = visited
        BY <1>2, <3>2, <3>3
      <3>5. status[h] = "ended"
        BY <1>1, <3>1, <3>4 DEF StackInv, Enumeration
      <3> QED
        BY <2>2, <3>5
    <2> QED
      BY <2>3, <2>4
  <1> QED
    BY <1>1, <1>8, <1>9, <1>10 DEF StackPart, Tidy

LEMMA AwaitedStack ==
  ASSUME IInv, LogInv, StackInv, Awaited
  PROVE  StackPart' /\ (Tidy' => Tidy) /\ (status'[Main] = "ended" => forks' # <<>>)
  <1>1. /\ status[Main] = "completing" /\ waitsFor[Main] # Nobody
        /\ status[waitsFor[Main]] \in {"ended", "faulted"}
        /\ waitsFor'[Main] = Nobody
        /\ \/ status[waitsFor[Main]] = "ended" /\ status' = status
           \/ status' = [status EXCEPT ![Main] = "ended"]
        /\ UNCHANGED <<forks, visited, size>>
        /\ DOMAIN status = Pipelines /\ waitsFor[Main] \in Forks /\ forks \in Seq(Forks)
    BY Names DEF Awaited, IInv, Chain, Shape, Started
  <1>2. \A f \in Forks : status'[f] = status[f]
    BY <1>1, Names
  <1>3. \A i \in DOMAIN forks : forks[i] \in Forks
    BY <1>1
  <1>4. StackOfForks'
    <2>1. status'[Main] \in {"completing", "ended"}
      BY <1>1, Names
    <2> QED
      BY <1>1, <1>2, <2>1 DEF StackInv, StackOfForks
  <1>5. OutInTurn'
    BY <1>2, Names DEF StackInv, OutInTurn
  <1>6. CASE status[waitsFor[Main]] = "ended" /\ status' = status
    <2>1. Enumerating' <=> Enumerating
      BY <1>1, <1>6 DEF Enumerating
    <2>2. Enumeration'
      <3> SUFFICES ASSUME Enumerating
                   PROVE  /\ visited <= size
                          /\ \A i \in DOMAIN forks :
                                /\ i < visited => status[forks[i]] = "ended"
                                /\ i = visited => status[forks[i]] = "ended"
                                /\ i > visited => status[forks[i]] = "joined"
        BY <1>1, <1>6, <2>1 DEF Enumeration
      <3> QED
        BY <1>1, <1>6 DEF StackInv, Enumeration
    <2>3. Tidy' => Tidy
      BY <1>1, <1>6, <2>1 DEF Tidy
    <2> QED
      BY <1>1, <1>4, <1>5, <1>6, <2>2, <2>3 DEF StackPart
  <1>7. CASE status' = [status EXCEPT ![Main] = "ended"]
    <2>1. status'[Main] = "ended"
      BY <1>1, <1>7, Names
    <2>2. waitsFor[Main] \in Forks /\ status[waitsFor[Main]] # "none"
      BY <1>1
    <2>3. \E i \in DOMAIN forks : forks[i] = waitsFor[Main]
      BY <1>1, <2>2 DEF StackInv, StackOfForks
    <2>4. forks # <<>>
      BY <2>3
    <2> QED
      BY <1>1, <1>4, <1>5, <2>1, <2>4 DEF StackPart, Enumeration, Enumerating, Tidy
  <1> QED
    BY <1>1, <1>6, <1>7

\* The completion is over.
LEMMA OverStack ==
  ASSUME IInv, LogInv, StackInv, EnumerationThrows \/ FinishCompletion
  PROVE  /\ StackPart' /\ ~Tidy' /\ UNCHANGED <<app, log>>
         /\ EnumerationThrows => forks' # <<>>
  <1>1. /\ status'[Main] = "ended" /\ UNCHANGED <<app, log>>
        /\ \A f \in Forks : status'[f] = status[f]
        /\ status[Main] = "completing"
        /\ forks \in Seq(Forks)
        /\ forks' = forks \/ forks' = <<>>
    BY Names DEF EnumerationThrows, FinishCompletion, Completing, IInv, Chain, Shape, Started
  <1>2. OutInTurn'
    BY <1>1, Names DEF StackInv, OutInTurn
  <1>3. StackOfForks'
    <2>1. CASE forks' = forks
      BY <1>1, <2>1 DEF StackInv, StackOfForks
    <2>2. CASE forks' = <<>>
      <3>1. DOMAIN forks' = {}
        BY <2>2
      <3> QED
        BY <1>1, <3>1 DEF StackOfForks
    <2> QED
      BY <1>1, <2>1, <2>2
  <1>4. EnumerationThrows => forks' # <<>>
    BY <1>1 DEF EnumerationThrows, StackInv, StackOfForks, LogInv, Typed
  <1> QED
    BY <1>1, <1>2, <1>3, <1>4 DEF StackPart, Enumeration, Enumerating, Tidy

-----------------------------------------------------------------------------
(* The nests of the log.                                                    *)

LEMMA KeptNest ==
  ASSUME StackInv, UNCHANGED <<app, log, forks>>, Tidy' => Tidy
  PROVE  NestInv'
  <1>1. Pipes' = Pipes
    BY PipesStay
  <1>2. EnteredByStack' <=> EnteredByStack
    BY <1>1 DEF EnteredByStack, In
  <1>3. Nested(OfApplication)' /\ (Nested(DOMAIN log)' <=> Nested(DOMAIN log))
    <2>1. OfApplication' = OfApplication /\ DOMAIN log' = DOMAIN log
      BY DEF OfApplication
    <2>2. \A L : Nested(L)' <=> NestedIn(log', L)
      BY NestedLog DEF Nested, NestedIn, In, Out
    <2>3. Nested(OfApplication)' <=> NestedIn(log', OfApplication')
      BY DEF Nested, NestedIn, In, Out
    <2>4. Nested(DOMAIN log)' <=> NestedIn(log', DOMAIN log')
      BY DEF Nested, NestedIn, In, Out
    <2> QED
      BY <2>1, <2>3, <2>4, NestedLog DEF StackInv, NestInv
  <1> QED
    BY <1>2, <1>3 DEF StackInv, NestInv

LEMMA ForkNest ==
  ASSUME IInv, LogInv, StackInv, NEW p \in Stages \cup {Main}, NEW f \in Known,
         status[f] = "none", Active(p), Fork(p, f),
         p = Main => status[Main] = "running",
         Tidy' => p = Main
  PROVE  NestInv'
  <1>1. /\ Places /\ Pipes' = Pipes /\ UNCHANGED <<app, log>> /\ forks' = <<f>> \o forks
        /\ forks \in Seq(Forks) /\ f \in Forks
    BY PlacesOfTyped, PipesStay, Names DEF LogInv, Fork, IInv, Started, Places, Known
  <1>2. Nested(OfApplication)' /\ (Nested(DOMAIN log)' <=> Nested(DOMAIN log))
    <2>1. OfApplication' = OfApplication /\ DOMAIN log' = DOMAIN log
      BY <1>1 DEF OfApplication
    <2>2. Nested(OfApplication)' <=> NestedIn(log', OfApplication')
      BY DEF Nested, NestedIn, In, Out
    <2>3. Nested(DOMAIN log)' <=> NestedIn(log', DOMAIN log')
      BY DEF Nested, NestedIn, In, Out
    <2> QED
      BY <1>1, <2>1, <2>2, <2>3, NestedLog DEF StackInv, NestInv
  <1>3. ASSUME Tidy' PROVE EnteredByStack' /\ Nested(DOMAIN log)
    <2>1. status[Main] = "running" /\ Active(Main)
      BY <1>3
    <2>2. \A i \in DOMAIN forks : forks[i] \in Forks /\ status[forks[i]] = "joined"
      BY <1>1, <2>1, JoinedForks DEF IInv, Started
    <2>3. Tidy
      BY <2>1, <2>2 DEF Tidy
    <2>4. EnteredByStack /\ Nested(DOMAIN log)
      BY <2>3 DEF StackInv, NestInv
    <2>5. \A m \in 1 .. Len(Pipes[f]) : \A k \in DOMAIN log : log[k] # In(Pipes[f][m])
      <3> SUFFICES ASSUME NEW m \in 1 .. Len(Pipes[f]), NEW k \in DOMAIN log, log[k] = In(Pipes[f][m])
                   PROVE  FALSE
        OBVIOUS
      <3>1. log[k].dir = "in" /\ log[k].mw = Pipes[f][m]
        BY InOut, Zenon
      <3>2. PICK g \in Forks : /\ status[g] # "none" /\ g \in Known
                               /\ \E i \in 1 .. Len(Pipes[g]) : log[k].mw = Pipes[g][i]
        BY <3>1, EnteredBy
      <3>3. PICK i \in 1 .. Len(Pipes[g]) : log[k].mw = Pipes[g][i]
        BY <3>2
      <3>4. Pipes[f][m] = Pipes[g][i]
        BY <3>1, <3>3
      <3>5. f = g
        BY <1>1, <3>2, <3>4, OnePlace
      <3> QED
        BY <3>2, <3>5
    <2>6. /\ forks'[1] = f
          /\ \A i \in DOMAIN forks' : i \in Nat /\ i >= 1 /\ (i # 1 => i - 1 \in DOMAIN forks /\ forks'[i] = forks[i - 1])
      BY <1>1, Pushed
    <2>7. ASSUME NEW i \in DOMAIN forks', NEW j \in DOMAIN forks', i < j,
                 NEW m \in 1 .. Len(Pipes[forks'[i]]), NEW n \in 1 .. Len(Pipes[forks'[j]]),
                 NEW k \in DOMAIN log, NEW l \in DOMAIN log,
                 log[k] = In(Pipes[forks'[i]][m]), log[l] = In(Pipes[forks'[j]][n])
          PROVE  l < k
      <3>1. i # 1
        BY <2>5, <2>6, <2>7
      <3>2. i - 1 \in DOMAIN forks /\ forks'[i] = forks[i - 1]
        BY <2>6, <3>1
      <3>3. j # 1
        BY <2>6, <2>7, <3>1
      <3>4. j - 1 \in DOMAIN forks /\ forks'[j] = forks[j - 1]
        BY <2>6, <3>3
      <3>5. i - 1 < j - 1
        BY <2>6, <2>7
      <3> DEFINE a == i - 1
                 b == j - 1
      <3>6. a \in DOMAIN forks /\ b \in DOMAIN forks /\ a < b /\ forks'[i] = forks[a] /\ forks'[j] = forks[b]
        BY <3>2, <3>4, <3>5
      <3> HIDE DEF a, b
      <3> QED
        BY <2>4, <2>7, <3>6 DEF EnteredByStack
    <2>8. log' = log /\ Pipes' = Pipes
      BY <1>1
    <2>9. EnteredByStack'
      BY <2>7, <2>8 DEF EnteredByStack, In
    <2> QED
      BY <2>4, <2>9
  <1> QED
    BY <1>2, <1>3 DEF NestInv

LEMMA EnterIs ==
  ASSUME LogInv, NEW f \in Forks, Enter(f)
  PROVE  /\ \E n \in 1 .. Len(Pipes[f]) : Pipes[f][n] \in Nat /\ log' = Append(log, In(Pipes[f][n]))
         /\ f \in Known /\ status[f] = "in"
         /\ UNCHANGED <<app, event, status, waitsFor, forks, visited, size>>
  <1>1. /\ UNCHANGED <<app, event, status, waitsFor, forks, visited, size>>
        /\ status[f] = "in"
        /\ at[f] < Len(Pipeline(f))
        /\ log' = Append(log, [dir |-> "in", mw |-> Pipeline(f)[at[f] + 1]])
    BY DEF Enter
  <1>2. f \in Known /\ Pipes[f] \in Seq(Nat) /\ Len(Pipes[f]) \in Nat /\ Pipeline(f) = Pipes[f]
    BY <1>1, StartedIsKnown
  <1>3. at[f] \in Nat
    BY DEF LogInv, Typed
  <1>4. at[f] + 1 \in 1 .. Len(Pipes[f]) /\ Pipes[f][at[f] + 1] \in Nat
    BY <1>1, <1>2, <1>3
  <1>5. log' = Append(log, In(Pipes[f][at[f] + 1]))
    BY <1>1, <1>2 DEF In
  <1> QED
    BY <1>1, <1>2, <1>4, <1>5

LEMMA EnterNest ==
  ASSUME IInv, LogInv, StackInv, NEW f \in Forks, Enter(f)
  PROVE  NestInv'
  <1>1. PICK n \in 1 .. Len(Pipes[f]) : Pipes[f][n] \in Nat /\ log' = Append(log, In(Pipes[f][n]))
    BY EnterIs
  <1> DEFINE m == Pipes[f][n]
             last == Len(log) + 1
  <1>2. f \in Known /\ status[f] = "in" /\ UNCHANGED <<app, event, status, waitsFor, forks, visited, size>>
    BY EnterIs
  <1>3. Places /\ Pipes' = Pipes /\ Typed
    BY <1>2, PlacesOfTyped, PipesStay DEF LogInv
  <1>4. In(m) \in [dir : {"in", "out"}, mw : Nat] /\ In(m).mw = m /\ In(m).dir = "in" /\ m \in Nat
    BY <1>1, InOut
  <1>5. /\ DOMAIN log' = DOMAIN log \cup {last} /\ last \in Nat
        /\ \A k \in DOMAIN log : log'[k] = log[k] /\ k \in Nat /\ k < last
        /\ log'[last] = In(m)
    BY <1>1, <1>3, <1>4, Appended
  <1> HIDE DEF m, last
  <1>6. ASSUME NEW L, L \subseteq DOMAIN log, NestedIn(log, L)
        PROVE  NestedIn(log', L) /\ NestedIn(log', L \cup {last})
    <2>1. /\ L \subseteq Nat /\ \A k \in L : k < last /\ log'[k] = log[k]
      BY <1>5, <1>6
    <2>2. NestedIn(log', L)
      BY <1>6, <2>1, NestedKept
    <2>3. log'[last].dir = "in" /\ last \in Nat
      BY <1>4, <1>5
    <2> QED
      BY <2>1, <2>2, <2>3, EnteredNests
  <1>7. Nested(OfApplication)'
    <2>1. OfApplication' \in {OfApplication, OfApplication \cup {last}}
      BY <1>5 DEF OfApplication
    <2>2. NestedIn(log, OfApplication) /\ OfApplication \subseteq DOMAIN log
      BY NestedLog DEF StackInv, NestInv, OfApplication
    <2>3. NestedIn(log', OfApplication')
      BY <1>6, <2>1, <2>2
    <2> QED
      BY <2>3 DEF Nested, NestedIn, In, Out
  <1>8. ASSUME Tidy' PROVE EnteredByStack' /\ Nested(DOMAIN log)'
    <2>1. Tidy
      BY <1>2, <1>8 DEF Tidy, Enumerating
    <2>2. EnteredByStack /\ Nested(DOMAIN log)
      BY <2>1 DEF StackInv, NestInv
    <2>3. Nested(DOMAIN log)'
      <3>1. NestedIn(log', DOMAIN log \cup {last})
        BY <1>6, <2>2, NestedLog
      <3> QED
        BY <1>5, <3>1 DEF Nested, NestedIn, In, Out
    <2>4. forks \in Seq(Forks) /\ \A i \in DOMAIN forks : forks[i] \in Forks /\ status[forks[i]] # "none" /\ i \in Nat /\ i >= 1
      BY DEF IInv, Started
    <2>5. \A i \in DOMAIN forks : forks[i] = f => i = 1
      <3>1. ~Enumerating
        BY <1>2, UnderWay
      <3>2. \A i \in DOMAIN forks : i > 1 => status[forks[i]] = "joined"
        BY <2>1, <3>1 DEF Tidy
      <3> QED
        BY <1>2, <2>4, <3>2
    <2>6. ASSUME NEW i \in DOMAIN forks, NEW j \in DOMAIN forks, i < j,
                 NEW x \in 1 .. Len(Pipes[forks[i]]), NEW y \in 1 .. Len(Pipes[forks[j]]),
                 NEW k \in DOMAIN log', NEW l \in DOMAIN log',
                 log'[k] = In(Pipes[forks[i]][x]), log'[l] = In(Pipes[forks[j]][y])
          PROVE  l < k
      <3>1. l # last
        <4> SUFFICES ASSUME l = last PROVE FALSE
          OBVIOUS
        <4>1. In(m) = In(Pipes[forks[j]][y])
          BY <1>5, <2>6
        <4>2. Pipes[f][n] = Pipes[forks[j]][y]
          BY <4>1, InOut DEF m
        <4>3. forks[j] \in Known
          BY <2>4, StartedIsKnown
        <4>4. f = forks[j]
          BY <1>2, <1>3, <4>2, <4>3, OnePlace
        <4>5. j = 1
          BY <2>5, <4>4
        <4> QED
          BY <2>4, <2>6, <4>5
      <3>2. l \in DOMAIN log
        BY <1>5, <3>1
      <3>3. CASE k = last
        BY <1>5, <3>2, <3>3
      <3>4. CASE k \in DOMAIN log
        BY <1>5, <2>2, <2>6, <3>2, <3>4 DEF EnteredByStack
      <3> QED
        BY <1>5, <3>3, <3>4
    <2>7. EnteredByStack'
      BY <1>2, <1>3, <2>6 DEF EnteredByStack, In
    <2> QED
      BY <2>3, <2>7
  <1> QED
    BY <1>7, <1>8 DEF NestInv

LEMMA LeaveIs ==
  ASSUME LogInv, NEW f \in Forks, Leave(f)
  PROVE  /\ at[f] \in 1 .. Len(Pipes[f]) /\ Pipes[f][at[f]] \in Nat
         /\ log' = Append(log, Out(Pipes[f][at[f]]))
         /\ In(Pipes[f][at[f]]) \in Logged
         /\ f \in Known /\ status[f] = "out" /\ Active(f)
         /\ UNCHANGED <<app, event, status, waitsFor, forks, visited, size>>
  <1>1. /\ UNCHANGED <<app, event, status, waitsFor, forks, visited, size>>
        /\ status[f] = "out" /\ Active(f)
        /\ at[f] > 0
        /\ log' = Append(log, [dir |-> "out", mw |-> Pipeline(f)[at[f]]])
    BY DEF Leave
  <1>2. f \in Known /\ Pipes[f] \in Seq(Nat) /\ Len(Pipes[f]) \in Nat /\ Pipeline(f) = Pipes[f]
    BY <1>1, StartedIsKnown
  <1>3. at[f] \in Nat /\ at[f] <= Len(Pipes[f])
    BY <1>1 DEF LogInv, Typed, PlacesAreLogged
  <1>4. at[f] \in 1 .. Len(Pipes[f]) /\ at[f] <= at[f] /\ Pipes[f][at[f]] \in Nat
    BY <1>1, <1>2, <1>3
  <1>5. log' = Append(log, Out(Pipes[f][at[f]]))
    BY <1>1, <1>2 DEF Out
  <1>6. In(Pipes[f][at[f]]) \in Logged
    BY <1>1, <1>4 DEF LogInv, PlacesAreLogged
  <1> QED
    BY <1>1, <1>2, <1>4, <1>5, <1>6

\* A fork that is over has left what it has entered, and so has one that is on
\* its way out, further down its pipeline.
LEMMA IsLeft ==
  ASSUME LogInv, NEW g \in Forks, status[g] # "none",
         NEW i \in 1 .. Len(Pipes[g]), In(Pipes[g][i]) \in Logged,
         status[g] = "ended" \/ i > at[g]
  PROVE  Out(Pipes[g][i]) \in Logged
  <1>1. at[g] \in Nat /\ (status[g] = "ended" => at[g] = 0)
    BY DEF LogInv, Typed, PlacesAreLogged
  <1>2. i > at[g]
    BY <1>1
  <1> QED
    BY <1>2 DEF LogInv, PlacesAreLogged

LEMMA LeaveNest ==
  ASSUME IInv, LogInv, StackInv, NEW f \in Forks, Leave(f)
  PROVE  NestInv'
  <1> DEFINE n == at[f]
             m == Pipes[f][n]
             last == Len(log) + 1
  <1>1. /\ n \in 1 .. Len(Pipes[f]) /\ m \in Nat /\ n \in Nat
        /\ log' = Append(log, Out(m))
        /\ In(m) \in Logged
        /\ f \in Known /\ status[f] = "out"
        /\ UNCHANGED <<app, event, status, waitsFor, forks, visited, size>>
    BY LeaveIs
  <1>2. Places /\ Pipes' = Pipes /\ Typed
    BY <1>1, PlacesOfTyped, PipesStay DEF LogInv
  <1>3. Out(m) \in [dir : {"in", "out"}, mw : Nat] /\ Out(m).mw = m /\ In(m).mw = m /\ In(m).dir = "in"
    BY <1>1, InOut
  <1>4. /\ DOMAIN log' = DOMAIN log \cup {last} /\ last \in Nat
        /\ \A k \in DOMAIN log : log'[k] = log[k] /\ k \in Nat /\ k < last
        /\ log'[last] = Out(m)
    BY <1>1, <1>2, <1>3, Appended
  <1>5. n = at[f] /\ m = Pipes[f][n]
    OBVIOUS
  <1> HIDE DEF n, m, last
  <1>6. PICK i \in DOMAIN log : log[i] = In(m)
    BY <1>1 DEF Logged
  <1>7. ASSUME NEW j \in DOMAIN log, i < j, log[j].dir = "in"
        PROVE  log[j].mw # m
    <2>1. log[j] = In(log[j].mw)
      BY <1>7, EnteredBy
    <2>2. j # i /\ i \in Nat /\ j \in Nat
      BY <1>4, <1>7
    <2> QED
      BY <1>6, <2>1, <2>2 DEF LogInv, LoggedOnce
  <1>8. Stages \subseteq Nat /\ DOMAIN StageEntries \subseteq Stages /\ \A x \in 1 .. Len(<<0>>) : x = 1 /\ <<0>>[x] = 0
    BY <1>2, Names DEF Places
  \* A middleware of the application that was entered since was left.
  <1>9. ASSUME NEW j \in DOMAIN log, i < j, log[j].dir = "in", log[j].mw # 0, m # 0
        PROVE  Out(log[j].mw) \in Logged
    <2>1. PICK g \in Forks : /\ status[g] # "none" /\ g \in Known
                             /\ \E x \in 1 .. Len(Pipes[g]) : log[j].mw = Pipes[g][x]
      BY <1>9, EnteredBy
    <2>2. PICK x \in 1 .. Len(Pipes[g]) : log[j].mw = Pipes[g][x]
      BY <2>1
    <2>3. f # Auth /\ g # Auth
      BY <1>1, <1>2, <1>5, <1>8, <1>9, <2>2 DEF Places
    <2>4. f \in DOMAIN StageEntries /\ g \in DOMAIN StageEntries
      BY <1>1, <2>1, <2>3 DEF Known
    <2>5. f \in Stages /\ g \in Stages /\ f \in Nat /\ g \in Nat
      BY <1>8, <2>4
    <2>6. m < log[j].mw
      <3>1. log[i].dir = "in" /\ log[i].mw = m
        BY <1>3, <1>6
      <3> QED
        BY <1>9, <3>1 DEF LogInv, Ascending
    <2>7. log[j].mw \in Nat /\ In(Pipes[g][x]) \in Logged
      <3>1. log[j].mw \in Nat
        BY <1>2, LogTyped, InOut
      <3>2. log[j] = In(log[j].mw)
        BY <1>9, EnteredBy
      <3> QED
        BY <2>2, <3>1, <3>2 DEF Logged
    <2>8. ~(g < f)
      <3> SUFFICES ASSUME g < f PROVE FALSE
        OBVIOUS
      <3>1. Pipes[g][x] < Pipes[f][n]
        BY <1>1, <1>2, <2>4 DEF Places
      <3>2. Pipes[g][x] < m /\ Pipes[g][x] \in Nat /\ m < Pipes[g][x]
        BY <1>5, <2>2, <2>6, <2>7, <3>1
      <3> QED
        BY <1>1, <3>2
    <2>9. CASE g = f
      <3>1. ~(x < n)
        <4> SUFFICES ASSUME x < n PROVE FALSE
          OBVIOUS
        <4>1. Pipes[g][x] < Pipes[f][n]
          BY <1>1, <1>2, <2>4, <2>9 DEF Places
        <4>2. Pipes[g][x] < m /\ Pipes[g][x] \in Nat /\ m < Pipes[g][x]
          BY <1>5, <2>2, <2>6, <2>7, <4>1
        <4> QED
          BY <1>1, <4>2
      <3>2. x # n
        <4>1. log[j].mw # m
          BY <1>7, <1>9
        <4> QED
          BY <1>5, <2>2, <2>9, <4>1
      <3>3. x > at[g]
        BY <1>1, <1>5, <2>9, <3>1, <3>2
      <3> QED
        BY <2>1, <2>2, <2>7, <3>3, IsLeft
    <2>10. CASE f < g
      <3>1. status[g] = "ended"
        BY <1>1, <2>1, <2>5, <2>10 DEF StackInv, OutInTurn
      <3> QED
        BY <2>1, <2>2, <2>7, <3>1, IsLeft
    <2> QED
      BY <2>5, <2>8, <2>9, <2>10
  \* And so was the one of the authentication.
  <1>10. ASSUME Tidy, NEW j \in DOMAIN log, i < j, log[j].dir = "in"
         PROVE  Out(log[j].mw) \in Logged
    <2>1. PICK g \in Forks : /\ status[g] # "none" /\ g \in Known
                             /\ \E x \in 1 .. Len(Pipes[g]) : log[j].mw = Pipes[g][x]
      BY <1>10, EnteredBy
    <2>2. PICK x \in 1 .. Len(Pipes[g]) : log[j].mw = Pipes[g][x]
      BY <2>1
    <2>3. log[j] = In(Pipes[g][x]) /\ In(Pipes[g][x]) \in Logged
      <3>1. log[j] = In(log[j].mw)
        BY <1>10, EnteredBy
      <3> QED
        BY <2>2, <3>1 DEF Logged
    <2>4. CASE g = f
      <3>1. CASE f = Auth
        <4>1. x = 1 /\ n = 1
          BY <1>1, <1>2, <1>8, <2>4, <3>1 DEF Places
        <4>2. log[j].mw # m
          BY <1>7, <1>10
        <4> QED
          BY <1>5, <2>2, <2>4, <4>1, <4>2
      <3>2. CASE f # Auth
        <4>1. f \in DOMAIN StageEntries
          BY <1>1, <3>2 DEF Known
        <4>2. log[j].mw # 0 /\ m # 0
          BY <1>1, <1>2, <1>5, <2>2, <2>4, <4>1 DEF Places
        <4> QED
          BY <1>9, <1>10, <4>2
      <3> QED
        BY <3>1, <3>2
    <2>5. CASE g # f
      <3>0. forks \in Seq(Forks) /\ \A a \in DOMAIN forks : a \in Nat /\ a >= 1
        BY DEF IInv, Started
      <3>1. status[Main] # "ended"
        BY <1>10 DEF Tidy, Enumerating
      <3>2. PICK a \in DOMAIN forks : forks[a] = f
        BY <1>1, <3>1 DEF StackInv, StackOfForks
      <3>3. PICK b \in DOMAIN forks : forks[b] = g
        BY <2>1, <3>1 DEF StackInv, StackOfForks
      <3>4. ~(a < b)
        <4> SUFFICES ASSUME a < b PROVE FALSE
          OBVIOUS
        <4>1. EnteredByStack
          BY <1>10 DEF StackInv, NestInv
        <4>2. /\ log[i] = In(Pipes[forks[a]][n]) /\ n \in 1 .. Len(Pipes[forks[a]])
              /\ log[j] = In(Pipes[forks[b]][x]) /\ x \in 1 .. Len(Pipes[forks[b]])
          BY <1>1, <1>5, <1>6, <2>3, <3>2, <3>3
        <4>3. j < i
          BY <4>1, <4>2 DEF EnteredByStack
        <4> QED
          BY <1>4, <1>10, <4>3
      <3>5. b < a
        BY <2>5, <3>0, <3>2, <3>3, <3>4
      <3>6. status[g] = "ended"
        <4>1. CASE Enumerating
          <5>1. visited \in DOMAIN forks /\ forks[visited] = f
            BY <1>1, <4>1, UnderWay
          <5>2. ~(a < visited) /\ ~(visited < a)
            BY <3>2, <5>1 DEF StackInv, StackOfForks
          <5>3. b < visited
            BY <3>0, <3>5, <5>1, <5>2
          <5> QED
            BY <3>3, <4>1, <5>3 DEF StackInv, Enumeration
        <4>2. CASE ~Enumerating
          <5>1. \A c \in DOMAIN forks : c > 1 => status[forks[c]] = "joined"
            BY <1>10, <4>2 DEF Tidy
          <5>2. a > 1
            BY <3>0, <3>5
          <5> QED
            BY <1>1, <3>2, <5>1, <5>2
        <4> QED
          BY <4>1, <4>2
      <3> QED
        BY <2>1, <2>2, <2>3, <3>6, IsLeft
    <2> QED
      BY <2>4, <2>5
  <1>11. ASSUME NEW L, L \subseteq DOMAIN log, NestedIn(log, L), i \in L,
                \A j \in L : i < j /\ log[j].dir = "in" => \E h \in L : j < h /\ log[h] = Out(log[j].mw)
         PROVE  NestedIn(log', L \cup {last})
    <2>1. /\ L \subseteq Nat /\ last \in Nat /\ \A k \in L : k < last /\ log'[k] = log[k]
      BY <1>4, <1>11
    <2>2. NestedIn(log', L)
      BY <1>11, <2>1, NestedKept
    <2>3. log'[last] = Out(m) /\ log'[i] = In(m)
      BY <1>4, <1>6
    <2>4. ASSUME NEW j \in L, i < j, log'[j].dir = "in"
          PROVE  \E h \in L : j < h /\ log'[h] = Out(log'[j].mw)
      <3>1. log'[j] = log[j]
        BY <2>1
      <3>2. PICK h \in L : j < h /\ log[h] = Out(log[j].mw)
        BY <1>11, <2>4, <3>1
      <3> QED
        BY <2>1, <3>1, <3>2
    <2> QED
      BY <1>11, <2>1, <2>2, <2>3, <2>4, LeftNests
  <1>12. Nested(OfApplication)'
    <2>0. NestedIn(log, OfApplication) /\ OfApplication \subseteq DOMAIN log
      BY NestedLog DEF StackInv, NestInv, OfApplication
    <2>1. NestedIn(log', OfApplication')
      <3>1. CASE m = 0
        <4>1. OfApplication' = OfApplication
          BY <1>3, <1>4, <3>1 DEF OfApplication
        <4>2. \A k \in OfApplication : log'[k] = log[k]
          BY <1>4, <2>0
        <4> QED
          BY <2>0, <4>1, <4>2, NestedKept
      <3>2. CASE m # 0
        <4>1. OfApplication' = OfApplication \cup {last}
          BY <1>3, <1>4, <3>2 DEF OfApplication
        <4>2. i \in OfApplication
          BY <1>3, <1>6, <3>2 DEF OfApplication
        <4>3. ASSUME NEW j \in OfApplication, i < j, log[j].dir = "in"
              PROVE  \E h \in OfApplication : j < h /\ log[h] = Out(log[j].mw)
          <5>1. j \in DOMAIN log /\ log[j].mw # 0
            BY DEF OfApplication
          <5>2. Out(log[j].mw) \in Logged
            BY <1>9, <3>2, <4>3, <5>1
          <5>3. PICK h \in DOMAIN log : j < h /\ log[h] = Out(log[j].mw)
            BY <4>3, <5>1, <5>2, LeftLater
          <5>4. log[h].mw = log[j].mw
            BY <5>3, InOut, Zenon
          <5>5. h \in OfApplication
            BY <5>1, <5>4 DEF OfApplication
          <5> QED
            BY <5>3, <5>5
        <4> QED
          BY <1>11, <2>0, <4>1, <4>2, <4>3
      <3> QED
        BY <3>1, <3>2
    <2> QED
      BY <2>1 DEF Nested, NestedIn, In, Out
  <1>13. ASSUME Tidy' PROVE EnteredByStack' /\ Nested(DOMAIN log)'
    <2>1. Tidy
      BY <1>1, <1>13 DEF Tidy, Enumerating
    <2>2. EnteredByStack /\ NestedIn(log, DOMAIN log)
      BY <2>1, NestedLog DEF StackInv, NestInv
    <2>3. ASSUME NEW j \in DOMAIN log, i < j, log[j].dir = "in"
          PROVE  \E h \in DOMAIN log : j < h /\ log[h] = Out(log[j].mw)
      <3>1. Out(log[j].mw) \in Logged
        BY <1>10, <2>1, <2>3
      <3> QED
        BY <2>3, <3>1, LeftLater
    <2>4. NestedIn(log', DOMAIN log \cup {last})
      BY <1>11, <2>2, <2>3
    <2>5. Nested(DOMAIN log)'
      BY <1>4, <2>4 DEF Nested, NestedIn, In, Out
    <2>6. ASSUME NEW k \in DOMAIN log', NEW x, log'[k] = In(x)
          PROVE  k \in DOMAIN log /\ log[k] = In(x)
      BY <1>4, <2>6, InOut
    <2>7. ASSUME NEW a \in DOMAIN forks, NEW b \in DOMAIN forks, a < b,
                 NEW x \in 1 .. Len(Pipes[forks[a]]), NEW y \in 1 .. Len(Pipes[forks[b]]),
                 NEW k \in DOMAIN log', NEW l \in DOMAIN log',
                 log'[k] = In(Pipes[forks[a]][x]), log'[l] = In(Pipes[forks[b]][y])
          PROVE  l < k
      <3>1. /\ k \in DOMAIN log /\ log[k] = In(Pipes[forks[a]][x])
            /\ l \in DOMAIN log /\ log[l] = In(Pipes[forks[b]][y])
        BY <2>6, <2>7
      <3> QED
        BY <2>2, <2>7, <3>1 DEF EnteredByStack
    <2>8. EnteredByStack'
      BY <1>1, <1>2, <2>7 DEF EnteredByStack, In
    <2> QED
      BY <2>5, <2>8
  <1> QED
    BY <1>12, <1>13 DEF NestInv

-----------------------------------------------------------------------------
(* The end of a completion that does not fail.                              *)

LEMMA FinishCompletes ==
  ASSUME IInv, LogInv, StackInv, FinishCompletion
  PROVE  Completed'
  <1>1. /\ Enumerating /\ Tidy /\ waitsFor[Main] = Nobody /\ visited = size /\ Len(forks) = size
        /\ UNCHANGED <<app, log>> /\ \A f \in Forks : status'[f] = status[f]
        /\ status[Main] = "completing"
        /\ \A i \in DOMAIN forks : i \in Nat /\ i <= visited
    BY Names DEF FinishCompletion, Completing, Active, Enumerating, Tidy, IInv, Started, Chain, Shape
  <1>2. \A i \in DOMAIN forks : status[forks[i]] = "ended"
    <2> SUFFICES ASSUME NEW i \in DOMAIN forks PROVE status[forks[i]] = "ended"
      OBVIOUS
    <2>1. visited \in Nat
      BY DEF IInv, Started
    <2>2. i < visited \/ i = visited
      BY <1>1, <2>1
    <2> QED
      BY <1>1, <2>2 DEF StackInv, Enumeration
  <1>3. \A f \in Forks : status[f] \in {"none", "ended"}
    BY <1>1, <1>2 DEF StackInv, StackOfForks
  <1>4. Nested(DOMAIN log)
    BY <1>1 DEF StackInv, NestInv
  <1>5. ASSUME NEW j \in DOMAIN log
        PROVE  \E k \in DOMAIN log : log[k] = Out(log[j].mw)
    <2>1. log[j] \in Logged
      BY DEF Logged
    <2>2. PICK f \in Forks : status[f] # "none" /\ \E i \in 1 .. Len(Pipes[f]) : log[j].mw = Pipes[f][i]
      BY <2>1 DEF LogInv, LogIsOfForks
    <2>3. PICK i \in 1 .. Len(Pipes[f]) : log[j].mw = Pipes[f][i]
      BY <2>2
    <2>4. log[j] = In(log[j].mw) \/ log[j] = Out(log[j].mw)
      BY LogTyped, InOut DEF LogInv
    <2>5. status[f] = "ended"
      BY <1>3, <2>2
    <2>6. Out(log[j].mw) \in Logged
      BY <2>1, <2>2, <2>3, <2>4, <2>5, IsLeft
    <2> QED
      BY <2>6 DEF Logged
  <1>6. Nested(DOMAIN log)' <=> Nested(DOMAIN log)
    <2>1. log' = log
      BY <1>1
    <2> QED
      BY <2>1 DEF Nested, In, Out
  <1>7. \A j \in DOMAIN log' : \E k \in DOMAIN log' : log'[k] = Out(log'[j].mw)
    <2>1. log' = log
      BY <1>1
    <2> QED
      BY <1>5, <2>1
  <1> QED
    BY <1>1, <1>3, <1>4, <1>6, <1>7 DEF Completed, Out

\* Nothing happens after it.
LEMMA NothingMore ==
  ASSUME IInv, StackInv, [Next]_vars, status[Main] = "ended", forks = <<>>
  PROVE  UNCHANGED vars
  <1>1. \A f \in Forks : status[f] \in {"none", "ended"}
    BY DEF StackInv, Completed
  <1>2. \A p \in Pipelines : ~Active(p)
    BY <1>1, Names DEF Active
  <1>3. ~MainStep
    BY <1>2, Names DEF MainStep, RaiseEvent, CompleteResponse, Resume, ResumeNext, Completing, Awaited,
                       EnumerationThrows, FinishCompletion
  <1>4. \A p \in Stages \cup {Main} : ~Authenticate(p)
    BY <1>2, Names DEF Authenticate
  <1>5. \A f \in Forks : ~ForkStep(f)
    BY <1>2, Names DEF ForkStep, Enter, Join, ShortCircuit, MiddlewareThrows, Leave, EndTask
  <1> QED
    BY <1>3, <1>4, <1>5 DEF Next, Over

LEMMA SameStack ==
  ASSUME StackInv, UNCHANGED vars
  PROVE  StackInv'
  <1>1. UNCHANGED <<app, status, waitsFor, forks, visited, size, log>>
    BY DEF vars
  <1>2. StackOfForks' /\ Enumeration' /\ OutInTurn'
    BY <1>1 DEF StackInv, StackOfForks, Enumeration, Enumerating, OutInTurn
  <1>3. Tidy' => Tidy
    BY <1>1 DEF Tidy, Enumerating
  <1>4. NestInv'
    BY <1>1, <1>3, KeptNest
  <1>5. Completed'
    BY <1>1 DEF StackInv, Completed, Nested, In, Out
  <1> QED
    BY <1>2, <1>4, <1>5 DEF StackInv

\* Any other step does not end it.
LEMMA NotCompleted ==
  ASSUME IInv, LogInv, StackInv, [Next]_vars, ~FinishCompletion,
         ~(status[Main] = "ended" /\ forks = <<>>)
  PROVE  ~(status'[Main] = "ended" /\ forks' = <<>>)
  <1>0. DOMAIN status = Pipelines /\ forks \in Seq(Forks)
    BY DEF IInv, Chain, Shape, Started
  <1>1. ASSUME NEW p, NEW f \in Forks, Fork(p, f) PROVE forks' # <<>>
    <2>1. forks' = <<f>> \o forks
      BY <1>1 DEF Fork
    <2>2. Len(forks') = Len(forks) + 1 /\ Len(forks) \in Nat
      BY <1>0, <2>1, Pushed
    <2>3. Len(forks') # 0 /\ Len(<<>>) = 0
      BY <2>2
    <2> QED
      BY <2>3
  <1>2. CASE RaiseEvent
    <2>1. CASE event \in DOMAIN StageEntries
      <3>1. Fork(Main, event) /\ event \in Forks
        BY <1>2, <2>1, Names DEF RaiseEvent
      <3> QED
        BY <1>1, <3>1
    <2>2. CASE event \notin DOMAIN StageEntries
      BY <1>2, <2>2 DEF RaiseEvent
    <2> QED
      BY <2>1, <2>2
  <1>3. CASE CompleteResponse
    BY <1>0, <1>3, Names DEF CompleteResponse
  <1>4. CASE Resume
    <2>1. status' = [status EXCEPT ![forks[visited + 1]] = "out"] /\ status[Main] = "completing"
      BY <1>4 DEF Resume, ResumeNext, Completing
    <2>2. status'[Main] \in {"completing", "out"}
      BY <1>0, <2>1, Names
    <2> QED
      BY <2>2
  <1>5. CASE Awaited
    BY <1>5, AwaitedStack
  <1>6. CASE EnumerationThrows
    BY <1>6, OverStack
  <1>7. ASSUME NEW p \in Stages \cup {Main}, Authenticate(p) PROVE forks' # <<>>
    <2>1. Fork(p, Auth)
      BY <1>7 DEF Authenticate
    <2> QED
      BY <1>1, <2>1, Names
  <1>8. ASSUME NEW f \in Forks, ForkStep(f) PROVE status'[Main] = status[Main] /\ forks' = forks
    BY <1>0, <1>8, Names DEF ForkStep, Enter, Join, ShortCircuit, MiddlewareThrows, Leave, EndTask
  <1>9. CASE UNCHANGED vars
    BY <1>9 DEF vars
  <1> QED
    BY <1>2, <1>3, <1>4, <1>5, <1>6, <1>7, <1>8, <1>9 DEF Next, MainStep, Over

LEMMA CompletedNext ==
  ASSUME IInv, LogInv, StackInv, [Next]_vars
  PROVE  Completed'
  <1>1. CASE status[Main] = "ended" /\ forks = <<>>
    <2>1. StackInv'
      BY <1>1, NothingMore, SameStack
    <2> QED
      BY <2>1 DEF StackInv
  <1>2. CASE FinishCompletion
    BY <1>2, FinishCompletes
  <1>3. CASE ~FinishCompletion /\ ~(status[Main] = "ended" /\ forks = <<>>)
    <2>1. ~(status'[Main] = "ended" /\ forks' = <<>>)
      BY <1>3, NotCompleted
    <2> QED
      BY <2>1 DEF Completed
  <1> QED
    BY <1>1, <1>2, <1>3

LEMMA ForkStepStack ==
  ASSUME IInv, LogInv, StackInv, NEW f \in Forks, ForkStep(f)
  PROVE  StackPart' /\ NestInv'
  <1>0. DOMAIN status = Pipelines /\ f \in Pipelines
    BY Names DEF IInv, Chain, Shape
  <1>1. ASSUME UNCHANGED <<status, waitsFor, forks, visited, size>> PROVE StackPart'
    BY <1>1 DEF StackPart, StackInv, StackOfForks, Enumeration, Enumerating, OutInTurn
  <1>2. CASE Enter(f)
    <2>1. UNCHANGED <<status, waitsFor, forks, visited, size>>
      BY <1>2 DEF Enter
    <2> QED
      BY <1>1, <1>2, <2>1, EnterNest
  <1>3. CASE Leave(f)
    <2>1. UNCHANGED <<status, waitsFor, forks, visited, size>>
      BY <1>3 DEF Leave
    <2> QED
      BY <1>1, <1>3, <2>1, LeaveNest
  <1>4. ASSUME \A g \in Pipelines : g # f => status'[g] = status[g],
               UNCHANGED <<forks, visited, size>>, UNCHANGED <<app, log>>,
               \/ /\ status[f] = "in" /\ status'[f] \in {"out", "faulted"}
               \/ /\ status[f] = "in" /\ status'[f] = "joined" /\ Head(forks) = f
               \/ /\ status[f] = "out" /\ status'[f] \in {"faulted", "ended"}
                  /\ UNCHANGED waitsFor
        PROVE  StackPart' /\ NestInv'
    <2>1. StackPart' /\ (Tidy' => Tidy)
      BY <1>4, ForkMoveStack
    <2>2. UNCHANGED <<app, log, forks>>
      BY <1>4
    <2>3. NestInv'
      BY <2>1, <2>2, KeptNest
    <2> QED
      BY <2>1, <2>3
  <1>5. CASE Join(f)
    <2>1. /\ \A g \in Pipelines : g # f => status'[g] = status[g]
          /\ UNCHANGED <<forks, visited, size>> /\ UNCHANGED <<app, log>>
          /\ status[f] = "in"
      BY <1>0, <1>5 DEF Join
    <2>2. CASE Head(forks) = f
      <3>1. status'[f] = "joined"
        BY <1>0, <1>5, <2>2 DEF Join
      <3> QED
        BY <1>4, <2>1, <2>2, <3>1
    <2>3. CASE Head(forks) # f
      <3>1. status'[f] = "faulted"
        BY <1>0, <1>5, <2>3 DEF Join
      <3> QED
        BY <1>4, <2>1, <3>1
    <2> QED
      BY <2>2, <2>3
  <1>6. CASE ShortCircuit(f)
    <2>1. /\ \A g \in Pipelines : g # f => status'[g] = status[g]
          /\ UNCHANGED <<forks, visited, size>> /\ UNCHANGED <<app, log>>
          /\ status[f] = "in" /\ status'[f] = "out"
      BY <1>0, <1>6 DEF ShortCircuit
    <2> QED
      BY <1>4, <2>1
  <1>7. CASE MiddlewareThrows(f)
    <2>1. /\ \A g \in Pipelines : g # f => status'[g] = status[g]
          /\ UNCHANGED <<forks, visited, size>> /\ UNCHANGED <<app, log>> /\ UNCHANGED waitsFor
          /\ status[f] \in {"in", "out"} /\ status'[f] = "faulted"
      BY <1>0, <1>7, Names DEF MiddlewareThrows, Active, IInv, Chain, Shape
    <2> QED
      BY <1>4, <2>1
  <1>8. CASE EndTask(f)
    <2>1. /\ \A g \in Pipelines : g # f => status'[g] = status[g]
          /\ UNCHANGED <<forks, visited, size>> /\ UNCHANGED <<app, log>> /\ UNCHANGED waitsFor
          /\ status[f] = "out" /\ status'[f] = "ended"
      BY <1>0, <1>8 DEF EndTask
    <2> QED
      BY <1>4, <2>1
  <1> QED
    BY <1>2, <1>3, <1>5, <1>6, <1>7, <1>8 DEF ForkStep

LEMMA StackNext == IInv /\ LogInv /\ StackInv /\ [Next]_vars => StackInv'
  <1> SUFFICES ASSUME IInv, LogInv, StackInv, [Next]_vars PROVE StackInv'
    OBVIOUS
  <1>0. Completed'
    BY CompletedNext
  <1>1. ASSUME StackPart', NestInv' PROVE StackInv'
    BY <1>0, <1>1 DEF StackInv, StackPart
  <1>2. ASSUME StackPart', Tidy' => Tidy, UNCHANGED <<app, log, forks>> PROVE StackInv'
    BY <1>1, <1>2, KeptNest
  <1>3. CASE RaiseEvent
    <2>1. status[Main] = "running" /\ Active(Main) /\ event \in Stages
      BY <1>3 DEF RaiseEvent
    <2>2. CASE event \in DOMAIN StageEntries
      <3>1. Fork(Main, event) /\ event \in Known /\ event \in Forks /\ status[event] = "none"
        BY <1>3, <2>1, <2>2, Names DEF RaiseEvent, Known, IInv, Started
      <3>2. StackPart'
        BY <2>1, <3>1, ForkStack
      <3>3. NestInv'
        BY <2>1, <3>1, ForkNest
      <3> QED
        BY <1>1, <3>2, <3>3
    <2>3. CASE event \notin DOMAIN StageEntries
      <3>1. UNCHANGED <<app, status, waitsFor, at, forks, visited, size, log>>
        BY <1>3, <2>3 DEF RaiseEvent
      <3>2. StackPart' /\ (Tidy' => Tidy)
        BY <3>1 DEF StackPart, StackInv, StackOfForks, Enumeration, Enumerating, OutInTurn, Tidy
      <3> QED
        BY <1>2, <3>1, <3>2
    <2> QED
      BY <2>2, <2>3
  <1>4. CASE CompleteResponse
    <2>1. UNCHANGED <<app, log, forks>>
      BY <1>4 DEF CompleteResponse
    <2> QED
      BY <1>2, <1>4, <2>1, CompleteStack
  <1>5. CASE Resume
    <2>1. UNCHANGED <<app, log, forks>>
      BY <1>5 DEF Resume, ResumeNext
    <2> QED
      BY <1>2, <1>5, <2>1, ResumeStack
  <1>6. CASE Awaited
    <2>1. UNCHANGED <<app, log, forks>>
      BY <1>6 DEF Awaited
    <2> QED
      BY <1>2, <1>6, <2>1, AwaitedStack
  <1>7. CASE EnumerationThrows \/ FinishCompletion
    <2>1. StackPart' /\ ~Tidy' /\ UNCHANGED <<app, log>>
      BY <1>7, OverStack
    <2>2. Nested(OfApplication)'
      <3>1. log' = log
        BY <2>1
      <3>2. OfApplication' = OfApplication
        BY <3>1 DEF OfApplication
      <3> QED
        BY <3>1, <3>2 DEF StackInv, NestInv, Nested, In, Out
    <2> QED
      BY <1>1, <2>1, <2>2 DEF NestInv
  <1>8. ASSUME NEW p \in Stages \cup {Main}, Authenticate(p) PROVE StackInv'
    <2>1. /\ Auth \in Known /\ Auth \in Forks /\ Fork(p, Auth) /\ Active(p) /\ status[Auth] = "none"
          /\ p = Main => status[Main] = "running"
      BY <1>8, Names DEF Authenticate, Known
    <2>2. StackPart' /\ (Tidy' => p = Main)
      BY <2>1, ForkStack
    <2>3. NestInv'
      BY <2>1, <2>2, ForkNest
    <2> QED
      BY <1>1, <2>2, <2>3
  <1>9. CASE \E f \in Forks : ForkStep(f)
    BY <1>1, <1>9, ForkStepStack
  <1>10. CASE UNCHANGED vars
    BY <1>10, SameStack
  <1> QED
    BY <1>3, <1>4, <1>5, <1>6, <1>7, <1>8, <1>9, <1>10 DEF Next, MainStep, Over

LEMMA Reversed == LogInv /\ StackInv => CleanupInReverse
  <1> SUFFICES ASSUME LogInv, StackInv PROVE CleanupInReverse
    OBVIOUS
  <1>1. \A j, k \in DOMAIN log : log[j] = log[k] => j = k
    BY DEF LogInv, LoggedOnce
  <1>2. Nested({k \in DOMAIN log : log[k].mw # 0})
    BY DEF StackInv, NestInv, OfApplication
  <1>3. status[Main] = "ended" /\ forks = <<>> =>
            /\ Nested(DOMAIN log)
            /\ \A j \in DOMAIN log : \E k \in DOMAIN log : log[k] = Out(log[j].mw)
    BY DEF StackInv, Completed
  <1> QED
    BY <1>1, <1>2, <1>3, Zenon DEF CleanupInReverse

\* The middlewares of the application are left in the reverse of the order they
\* were entered in, across the forks, however they answer, throw or
\* authenticate; and when CompleteAsync comes to its end, each was left, the one
\* of the authentication in its turn.
THEOREM CleanupIsReversed == Spec => []CleanupInReverse
  <1>1. Init => IInv /\ LogInv /\ StackInv
    BY InitHolds, InitLog, InitStack
  <1>2. IInv /\ LogInv /\ StackInv /\ [Next]_vars => (IInv /\ LogInv /\ StackInv)'
    BY NextKeeps, LogNext, StackNext
  <1>3. IInv /\ LogInv /\ StackInv => CleanupInReverse
    BY Reversed
  <1> QED
    BY <1>1, <1>2, <1>3, PTL DEF Spec

==============================================================================
