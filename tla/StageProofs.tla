---------------------------- MODULE StageProofs -----------------------------
(***************************************************************************)
(* The service and the macOS renderer of StageSystem.tla, for every show,  *)
(* every limit of the event queue, every number of inputs and faults and   *)
(* every interleaving: SystemInv is an inductive invariant (SystemHolds),  *)
(* by it the two implement Coordinator (SystemImplementsCoordinator), and  *)
(* while the queue has room what the service believes of the renderer      *)
(* comes true (BeliefAlwaysReal), and STOP is confirmed in silence only    *)
(* (StoppedAlwaysSilent).                                                  *)
(***************************************************************************)
EXTENDS HandoverLemmas, FiniteSetTheorems

-----------------------------------------------------------------------------
(* Queues of steps and events. *)

\* what emitScene and escape put in the queue
Message == [kind : Renderer!EventKinds \cup {"escape"}, generation : Nat,
            transportRevision : Nat, sceneRevision : Nat, stageEnabled : BOOLEAN]

\* What Append and Tail do to a queue.
LEMMA Queues ==
  ASSUME NEW S, NEW q \in Seq(S)
  PROVE  /\ Len(q) \in Nat /\ DOMAIN q = 1 .. Len(q) /\ \A i \in DOMAIN q : q[i] \in S
         /\ \A e \in S : /\ Append(q, e) \in Seq(S) /\ Len(Append(q, e)) = Len(q) + 1
                         /\ DOMAIN Append(q, e) = 1 .. Len(q) + 1
                         /\ \A i \in 1 .. Len(q) : Append(q, e)[i] = q[i]
                         /\ Append(q, e)[Len(q) + 1] = e
         /\ q # <<>> => /\ Tail(q) \in Seq(S) /\ Len(Tail(q)) = Len(q) - 1 /\ Len(q) # 0
                        /\ DOMAIN Tail(q) = 1 .. Len(q) - 1
                        /\ \A i \in 1 .. Len(q) - 1 : Tail(q)[i] = q[i + 1]
                        /\ Head(q) = q[1] /\ Head(q) \in S
  OBVIOUS

\* The faults of a queue change by the one that joins or leaves it.
LEMMA FaultsCounted ==
  ASSUME NEW q \in Seq(Message)
  PROVE  /\ FaultsIn(q) \in Nat
         /\ \A e \in Message :
              FaultsIn(Append(q, e)) = FaultsIn(q) + (IF FromFault(e) THEN 1 ELSE 0)
         /\ q # <<>> => FaultsIn(q) = FaultsIn(Tail(q)) + (IF FromFault(Head(q)) THEN 1 ELSE 0)
  <1> DEFINE S == {i \in DOMAIN q : FromFault(q[i])}
  <1>1. Len(q) \in Nat /\ DOMAIN q = 1 .. Len(q) BY Queues
  <1>2. IsFiniteSet(1 .. Len(q)) BY <1>1, FS_Interval
  <1>3. IsFiniteSet(S) /\ Cardinality(S) \in Nat
    <2>1. S \subseteq 1 .. Len(q) BY <1>1
    <2>2. IsFiniteSet(S) BY <1>2, <2>1, FS_Subset
    <2> QED BY <2>2, FS_CardinalityType
  <1>4. FaultsIn(q) = Cardinality(S) BY DEF FaultsIn
  <1>5. ASSUME NEW e \in Message
        PROVE  FaultsIn(Append(q, e)) = FaultsIn(q) + (IF FromFault(e) THEN 1 ELSE 0)
    <2> DEFINE p == Append(q, e)
               T == {i \in DOMAIN p : FromFault(p[i])}
    <2>1. /\ DOMAIN p = 1 .. Len(q) + 1 /\ \A i \in 1 .. Len(q) : p[i] = q[i]
          /\ p[Len(q) + 1] = e
      BY Queues
    <2>2. FaultsIn(p) = Cardinality(T) BY DEF FaultsIn
    <2> HIDE DEF p
    <2>3. T = IF FromFault(e) THEN S \cup {Len(q) + 1} ELSE S BY <1>1, <2>1
    <2>4. Len(q) + 1 \notin S BY <1>1
    <2> HIDE DEF S, T
    <2>5. Cardinality(S \cup {Len(q) + 1}) = Cardinality(S) + 1
      BY <1>3, <2>4, FS_AddElement
    <2> QED BY <1>3, <1>4, <2>2, <2>3, <2>5 DEF p
  <1>6. ASSUME q # <<>>
        PROVE  FaultsIn(q) = FaultsIn(Tail(q)) + (IF FromFault(Head(q)) THEN 1 ELSE 0)
    <2> DEFINE p == Tail(q)
               T == {i \in DOMAIN p : FromFault(p[i])}
               U == S \ {1}
               f == [i \in T |-> i + 1]
    <2>1. /\ DOMAIN p = 1 .. Len(q) - 1 /\ \A i \in 1 .. Len(q) - 1 : p[i] = q[i + 1]
          /\ Head(q) = q[1] /\ Len(q) # 0
      BY <1>6, Queues
    <2>2. FaultsIn(p) = Cardinality(T) BY DEF FaultsIn
    <2> HIDE DEF p
    <2>3. f \in Bijection(T, U)
      <3>1. f \in [T -> U] BY <1>1, <2>1
      <3>2. \A a, b \in T : f[a] = f[b] => a = b BY <1>1, <2>1
      <3>3. \A b \in U : \E a \in T : f[a] = b
        <4> TAKE b \in U
        <4>1. b - 1 \in T /\ f[b - 1] = b BY <1>1, <2>1
        <4> QED BY <4>1
      <3> QED BY <3>1, <3>2, <3>3 DEF Bijection, Injection, Surjection, IsInjective
    <2>4. IsFiniteSet(U) BY <1>3, FS_Subset
    <2>5. ExistsBijection(T, U) BY <2>3 DEF ExistsBijection
    <2>6. Cardinality(T) = Cardinality(U)
      <3>1. IsFiniteSet(T)
        <4>1. T \subseteq 1 .. Len(q) BY <1>1, <2>1
        <4> QED BY <1>2, <4>1, FS_Subset
      <3> HIDE DEF T, U
      <3> QED BY <2>4, <2>5, <3>1, FS_Bijection
    <2>7. 1 \in S <=> FromFault(Head(q)) BY <1>1, <2>1
    <2> HIDE DEF S, T, f
    <2>8. 1 \in S => Cardinality(U) = Cardinality(S) - 1 BY <1>3, FS_RemoveElement
    <2>9. 1 \notin S => U = S OBVIOUS
    <2>10. Cardinality(U) \in Nat BY <2>4, FS_CardinalityType
    <2> HIDE DEF U
    <2>11. FaultsIn(q) = FaultsIn(p) + (IF FromFault(Head(q)) THEN 1 ELSE 0)
      <3>1. CASE 1 \in S BY <1>3, <1>4, <2>2, <2>6, <2>7, <2>8, <2>10, <3>1
      <3>2. CASE 1 \notin S BY <1>3, <1>4, <2>2, <2>6, <2>7, <2>9, <2>10, <3>2
      <3> QED BY <3>1, <3>2
    <2> QED BY <2>11 DEF p
  <1> QED BY <1>3, <1>4, <1>5, <1>6

\* a fault that is the very next step, and none after the next step
Ahead(q) == IF q # <<>> /\ q[1].do \in FaultSteps THEN 1 ELSE 0
Later(q) == \A i \in 2 .. Len(q) : q[i].do \notin FaultSteps

\* The steps that come before the rest of a task.
LEMMA StepsFirst ==
  ASSUME NEW S, NEW q \in Seq(S), q # <<>>, Later(q), NEW steps \in Seq(S), Later(steps)
  PROVE  LET all == steps \o Tail(q) IN
         all \in Seq(S) /\ Later(all) /\ Ahead(all) = Ahead(steps)
  <1> DEFINE all == steps \o Tail(q)
             m == Len(steps)
             n == Len(q)
  <1>1. /\ m \in Nat /\ n \in Nat \ {0} /\ DOMAIN steps = 1 .. m
        /\ Tail(q) \in Seq(S) /\ Len(Tail(q)) = n - 1
        /\ \A i \in 1 .. n - 1 : Tail(q)[i] = q[i + 1]
    BY Queues
  <1>2. /\ all \in Seq(S) /\ Len(all) = m + n - 1 /\ DOMAIN all = 1 .. m + n - 1
    BY <1>1
  <1>3. \A i \in 1 .. m : all[i] = steps[i] BY <1>1
  <1>4. \A i \in m + 1 .. m + n - 1 : all[i] = q[i - m + 1]
    BY <1>1
  <1>5. all = <<>> <=> m + n - 1 = 0 BY <1>2
  <1>6. steps = <<>> <=> m = 0 BY <1>1
  <1> HIDE DEF all, m, n
  <1>7. Later(all)
    <2> SUFFICES ASSUME NEW i \in 2 .. Len(all) PROVE all[i].do \notin FaultSteps
      BY DEF Later
    <2>1. CASE i <= m BY <1>1, <1>2, <1>3, <2>1 DEF Later, m
    <2>2. CASE ~(i <= m)
      <3>1. i - m + 1 \in 2 .. n /\ i \in m + 1 .. m + n - 1 BY <1>1, <1>2, <2>2
      <3> QED BY <1>4, <3>1 DEF Later, n
    <2> QED BY <2>1, <2>2
  <1>8. Ahead(all) = Ahead(steps)
    <2>1. CASE m = 0
      <3>1. Ahead(steps) = 0 BY <1>6, <2>1 DEF Ahead
      <3>2. CASE n = 1
        <4>1. all = <<>> BY <1>5, <2>1, <3>2
        <4> QED BY <3>1, <4>1 DEF Ahead
      <3>3. CASE n # 1
        <4>1. 1 \in m + 1 .. m + n - 1 /\ 1 - m + 1 = 2 /\ 2 \in 2 .. n BY <1>1, <2>1, <3>3
        <4>2. all[1] = q[2] BY <1>4, <4>1
        <4>3. q[2].do \notin FaultSteps BY <4>1 DEF Later, n
        <4> QED BY <3>1, <4>2, <4>3 DEF Ahead
      <3> QED BY <3>2, <3>3
    <2>2. CASE m # 0
      <3>1. all[1] = steps[1] BY <1>1, <1>3, <2>2
      <3>2. all # <<>> /\ steps # <<>> BY <1>1, <1>5, <1>6, <2>2
      <3> QED BY <3>1, <3>2 DEF Ahead
    <2> QED BY <2>1, <2>2
  <1> QED BY <1>2, <1>7, <1>8 DEF all

-----------------------------------------------------------------------------
(* The renderer's half of the invariant. *)

\* the type of the renderer's own state
Holder ==
  [applied : Renderer!Applied, attempted : Nat, escapedAt : Nat, endedID : Nat,
   stoppedPending : BOOLEAN, stageEnabled : BOOLEAN, foreground : Renderer!Player,
   background : Renderer!Background, tail : BOOLEAN, todo : Seq(Renderer!Task),
   faults : 0 .. MaxFaults]

\* RendererIsSound, of the renderer's state alone
Holding ==
  /\ renderer.applied.revision <= svc.scene.revision
  /\ renderer.applied.generation <= svc.scene.generation
  /\ renderer.applied.transportRevision <= svc.scene.transportRevision
  /\ renderer.foreground.id <= svc.scene.generation /\ Known(svc, renderer.foreground.id)
  /\ renderer.foreground.id = 0 => renderer.foreground = Renderer!NoPlayer
  /\ renderer.applied.revision = svc.scene.revision =>
       /\ renderer.stageEnabled => svc.scene.stage
       /\ renderer.stoppedPending => svc.scene.foregroundID = 0
       /\ renderer.foreground.id # 0 =>
            /\ renderer.foreground.id = svc.scene.foregroundID
            /\ renderer.foreground.paused = svc.scene.paused

\* the steps and events that may stand in the two queues
SoundTasks == {task \in Renderer!Task : TaskIsSound(task)}
SoundMessages == {e \in Message : EventIsSound(e)}

\* the renderer's half of SystemInv
Both == Renderer!TypeOK /\ RendererIsSound /\ FaultsAreCounted

\* The type and the soundness of the renderer, taken apart.
LEMMA Halves ==
  /\ Renderer!TypeOK <=>
       renderer \in Holder /\ events \in Seq(Message) /\ Len(events) <= EventLimit
  /\ RendererIsSound <=>
       /\ Holding
       /\ \A i \in DOMAIN renderer.todo : TaskIsSound(renderer.todo[i])
       /\ \A i \in DOMAIN events : EventIsSound(events[i])
  /\ FaultAhead = Ahead(renderer.todo)
  BY DEF Renderer!TypeOK, Holder, Message, RendererIsSound, Holding, FaultAhead, Ahead

\* A sequence is one of any set its elements are in.
LEMMA SeqOf ==
  ASSUME NEW S, NEW T, NEW q \in Seq(S), \A i \in DOMAIN q : q[i] \in T
  PROVE  q \in Seq(T)
  <1>1. q \in [1 .. Len(q) -> T] /\ Len(q) \in Nat OBVIOUS
  <1> QED BY <1>1

\* The elements of sound queues are sound.
LEMMA SoundQueues ==
  ASSUME Renderer!TypeOK, RendererIsSound
  PROVE  renderer.todo \in Seq(SoundTasks) /\ events \in Seq(SoundMessages)
  <1>1. renderer.todo \in Seq(Renderer!Task) /\ events \in Seq(Message)
    BY Halves DEF Holder
  <1>2. \A i \in DOMAIN renderer.todo : renderer.todo[i] \in SoundTasks
    <2> TAKE i \in DOMAIN renderer.todo
    <2>1. renderer.todo[i] \in Renderer!Task BY <1>1, Queues
    <2>2. TaskIsSound(renderer.todo[i]) BY Halves
    <2> QED BY <2>1, <2>2 DEF SoundTasks
  <1>3. \A i \in DOMAIN events : events[i] \in SoundMessages
    <2> TAKE i \in DOMAIN events
    <2>1. events[i] \in Message BY <1>1, Queues
    <2>2. EventIsSound(events[i]) BY Halves
    <2> QED BY <2>1, <2>2 DEF SoundMessages
  <1> QED BY <1>1, <1>2, <1>3, SeqOf

\* While a scene stays applied, sound queues and a sound player are enough.
LEMMA SoundAgain ==
  ASSUME renderer' \in Holder, svc' = svc, renderer'.applied = renderer.applied,
         renderer'.todo \in Seq(SoundTasks), events' \in Seq(SoundMessages), Holding'
  PROVE  RendererIsSound'
  <1>1. \A i \in DOMAIN renderer'.todo : TaskIsSound(renderer'.todo[i])
    <2> TAKE i \in DOMAIN renderer'.todo
    <2>1. renderer'.todo[i] \in SoundTasks BY Queues
    <2> QED BY <2>1 DEF SoundTasks
  <1>2. \A i \in DOMAIN events' : EventIsSound(events'[i])
    <2> TAKE i \in DOMAIN events'
    <2>1. events'[i] \in SoundMessages BY Queues
    <2> QED BY <2>1 DEF SoundMessages
  <1>3. \A i \in DOMAIN renderer'.todo : TaskIsSound(renderer.todo[i])'
    BY <1>1 DEF TaskIsSound, Fits, Known, Waits
  <1>4. \A i \in DOMAIN events' : EventIsSound(events[i])'
    BY <1>2 DEF EventIsSound, Fits, Known, Waits
  <1>5. (RendererIsSound <=>
         /\ Holding
         /\ \A i \in DOMAIN renderer.todo : TaskIsSound(renderer.todo[i])
         /\ \A i \in DOMAIN events : EventIsSound(events[i]))'
    BY Halves, PTL
  <1> QED BY <1>3, <1>4, <1>5

\* Nothing the renderer does to its player between two scenes says more of the scene.
LEMMA StillHolding ==
  ASSUME svc \in Service, svc.generation # 0, Renderer!TypeOK, Holding, svc' = svc,
         renderer' \in Holder,
         renderer'.applied = renderer.applied,
         renderer'.stageEnabled => renderer.stageEnabled,
         renderer'.stoppedPending => renderer.stoppedPending,
         \/ renderer'.foreground = Renderer!NoPlayer
         \/ renderer'.foreground = renderer.foreground
         \/ /\ renderer.foreground.id # 0
            /\ renderer'.foreground.id = renderer.foreground.id
            /\ renderer'.foreground.paused = renderer.foreground.paused
  PROVE  Holding'
  <1>1. /\ Known(svc, 0) /\ 0 <= svc.scene.generation
        /\ Renderer!NoPlayer.id = 0
    <2>1. svc.generation \in Nat BY DEF Service
    <2>2. svc.scene.generation \in Nat BY DEF Service, Scene
    <2> QED BY <2>1, <2>2 DEF Known, Waits, Service, Renderer!NoPlayer, Renderer!NewPlayer
  <1> QED BY <1>1 DEF Holding, Known, Waits

\* the fault a player keeps until it is reported
FaultOf(p) == IF p.failed THEN 1 ELSE 0

\* Faults may move from the player to the task and on to the queue, never grow in number.
LEMMA CountedAgain ==
  ASSUME svc \in Service, Renderer!TypeOK, FaultsAreCounted, svc' = svc, renderer' \in Holder,
         events' \in Seq(Message), Later(renderer'.todo), NEW d \in Nat,
         renderer'.faults = renderer.faults + d,
         FaultsIn(events') + Ahead(renderer'.todo) + FaultOf(renderer'.foreground)
           <= FaultsIn(events) + Ahead(renderer.todo) + FaultOf(renderer.foreground) + d
  PROVE  FaultsAreCounted'
  <1>1. events \in Seq(Message) /\ renderer \in Holder BY Halves
  <1>2. FaultsIn(events) \in Nat /\ FaultsIn(events') \in Nat BY <1>1, FaultsCounted
  <1>3. renderer.faults \in Nat /\ renderer'.faults \in Nat BY <1>1 DEF Holder
  <1>4. svc.now \in Nat BY DEF Service
  <1>5. /\ Unheard = FaultsIn(events) + Ahead(renderer.todo) + FaultOf(renderer.foreground)
        /\ Unheard' = FaultsIn(events') + Ahead(renderer'.todo) + FaultOf(renderer'.foreground)
    BY DEF Unheard, FaultAhead, FaultKept, Ahead, FaultOf, FaultsIn
  <1>6. Unheard \in Nat /\ Unheard' \in Nat BY <1>2, <1>5 DEF Ahead, FaultOf
  <1>7. Unheard' <= Unheard + d BY <1>5
  <1>8. Unheard <= renderer.faults /\ svc.now + Unheard <= MaxInputs + renderer.faults
    BY DEF FaultsAreCounted
  <1>9. Unheard' <= renderer'.faults /\ svc'.now + Unheard' <= MaxInputs + renderer'.faults
    <2>1. MaxInputs \in Nat BY ShowAssumption
    <2>2. svc'.now = svc.now OBVIOUS
    <2>3. \A f, g, u, v, n, m \in Nat :
            g = f + d /\ v <= u + d /\ u <= f /\ n + u <= m + f
              => v <= g /\ n + v <= m + g
      OBVIOUS
    <2> QED BY <1>3, <1>4, <1>6, <1>7, <1>8, <2>1, <2>2, <2>3
  <1> QED BY <1>9 DEF FaultsAreCounted, Later

\* what the renderer's steps are shown to keep, with the service's half
Good == svc \in Service /\ svc.generation # 0 /\ HandedOver(svc) /\ Both

\* What a step of the renderer has to show between two scenes.
LEMMA KeepsBoth ==
  ASSUME Good, svc' = svc, renderer' \in Holder,
         renderer'.applied = renderer.applied,
         renderer'.stageEnabled => renderer.stageEnabled,
         renderer'.stoppedPending => renderer.stoppedPending,
         \/ renderer'.foreground = Renderer!NoPlayer
         \/ renderer'.foreground = renderer.foreground
         \/ /\ renderer.foreground.id # 0
            /\ renderer'.foreground.id = renderer.foreground.id
            /\ renderer'.foreground.paused = renderer.foreground.paused,
         renderer'.todo \in Seq(SoundTasks), Later(renderer'.todo),
         events' \in Seq(SoundMessages), Len(events') <= EventLimit,
         NEW d \in Nat, renderer'.faults = renderer.faults + d,
         FaultsIn(events') + Ahead(renderer'.todo) + FaultOf(renderer'.foreground)
           <= FaultsIn(events) + Ahead(renderer.todo) + FaultOf(renderer.foreground) + d
  PROVE  Both'
  <1>1. Holding BY Halves DEF Good, Both
  <1>2. Holding' BY <1>1, StillHolding DEF Good, Both
  <1>3. RendererIsSound' BY <1>2, SoundAgain
  <1>4. events' \in Seq(Message)
    <2>1. \A i \in DOMAIN events' : events'[i] \in Message
      BY Queues DEF SoundMessages
    <2> QED BY <2>1, SeqOf
  <1>5. FaultsAreCounted' BY <1>4, CountedAgain DEF Good, Both
  <1>6. (Renderer!TypeOK <=>
           renderer \in Holder /\ events \in Seq(Message) /\ Len(events) <= EventLimit)'
    BY Halves, PTL
  <1> QED BY <1>3, <1>4, <1>5, <1>6 DEF Both

\* What the invariant says of the parts of the renderer.
LEMMA GoodFacts ==
  ASSUME Good
  PROVE  /\ renderer \in Holder /\ renderer.todo \in Seq(SoundTasks)
         /\ events \in Seq(SoundMessages) /\ events \in Seq(Message)
         /\ Len(events) <= EventLimit /\ Later(renderer.todo)
         /\ FaultsIn(events) \in Nat /\ Holding
         /\ svc.scene.generation \in Nat /\ svc.generation \in Nat /\ svc.scene \in Scene
         /\ renderer.foreground \in Renderer!Player
  <1>1. /\ renderer \in Holder /\ events \in Seq(Message) /\ Len(events) <= EventLimit
        /\ Holding
    BY Halves DEF Good, Both
  <1>2. renderer.todo \in Seq(SoundTasks) /\ events \in Seq(SoundMessages)
    BY SoundQueues DEF Good, Both
  <1>3. FaultsIn(events) \in Nat BY <1>1, FaultsCounted
  <1>4. Later(renderer.todo) BY DEF Good, Both, FaultsAreCounted, Later
  <1>5. svc.scene \in Scene /\ svc.generation \in Nat BY DEF Good, Service
  <1>6. svc.scene.generation \in Nat BY <1>5 DEF Scene
  <1>7. renderer.foreground \in Renderer!Player BY <1>1 DEF Holder
  <1> QED BY <1>1, <1>2, <1>3, <1>4, <1>5, <1>6, <1>7

\* Steps that report nothing are sound.
LEMMA PlainTasks ==
  ASSUME Good, NEW do \in {"ready", "finish", "mix"}
  PROVE  /\ Renderer!Do(do, 0) \in SoundTasks /\ Renderer!Do(do, 0).do = do
         /\ do \notin FaultSteps
  <1>1. svc.scene.generation \in Nat BY GoodFacts
  <1> QED BY <1>1 DEF SoundTasks, TaskIsSound, Fits, SourceKinds, FaultSteps, Renderer!Do,
                      Renderer!Task

\* Tasks of one, two and three steps.
LEMMA FewTasks ==
  ASSUME NEW a \in SoundTasks, NEW b \in SoundTasks, NEW c \in SoundTasks
  PROVE  /\ <<>> \in Seq(SoundTasks) /\ Later(<<>>) /\ Ahead(<<>>) = 0
         /\ <<a>> \in Seq(SoundTasks) /\ Later(<<a>>)
         /\ Ahead(<<a>>) = IF a.do \in FaultSteps THEN 1 ELSE 0
         /\ b.do \notin FaultSteps =>
              /\ <<a, b>> \in Seq(SoundTasks) /\ Later(<<a, b>>)
              /\ Ahead(<<a, b>>) = IF a.do \in FaultSteps THEN 1 ELSE 0
         /\ b.do \notin FaultSteps /\ c.do \notin FaultSteps =>
              /\ <<a, b, c>> \in Seq(SoundTasks) /\ Later(<<a, b, c>>)
              /\ Ahead(<<a, b, c>>) = IF a.do \in FaultSteps THEN 1 ELSE 0
  <1>1. /\ Len(<<>>) = 0 /\ Len(<<a>>) = 1 /\ Len(<<a, b>>) = 2 /\ Len(<<a, b, c>>) = 3
        /\ <<>> \in Seq(SoundTasks) /\ <<a>> \in Seq(SoundTasks)
        /\ <<a, b>> \in Seq(SoundTasks) /\ <<a, b, c>> \in Seq(SoundTasks)
    OBVIOUS
  <1>2. <<a>> # <<>> /\ <<a, b>> # <<>> /\ <<a, b, c>> # <<>> BY <1>1
  <1>3. Later(<<>>) /\ Later(<<a>>) BY <1>1 DEF Later
  <1>4. b.do \notin FaultSteps => Later(<<a, b>>)
    <2>1. \A i \in 2 .. 2 : <<a, b>>[i] = b OBVIOUS
    <2> QED BY <1>1, <2>1 DEF Later
  <1>5. b.do \notin FaultSteps /\ c.do \notin FaultSteps => Later(<<a, b, c>>)
    <2>1. \A i \in 2 .. 3 : i = 2 \/ i = 3 OBVIOUS
    <2>2. <<a, b, c>>[2] = b /\ <<a, b, c>>[3] = c OBVIOUS
    <2> QED BY <1>1, <2>1, <2>2 DEF Later
  <1> QED BY <1>1, <1>2, <1>3, <1>4, <1>5 DEF Ahead

\* A step that puts others before the rest of its task.
LEMMA ContinueKeeps ==
  ASSUME Good, svc' = svc, ~Renderer!Idle, NEW u \in Holder, u.todo = renderer.todo,
         u.faults = renderer.faults, u.applied = renderer.applied,
         u.stageEnabled => renderer.stageEnabled,
         u.stoppedPending => renderer.stoppedPending,
         \/ u.foreground = Renderer!NoPlayer
         \/ u.foreground = renderer.foreground
         \/ /\ renderer.foreground.id # 0
            /\ u.foreground.id = renderer.foreground.id
            /\ u.foreground.paused = renderer.foreground.paused,
         NEW steps \in Seq(SoundTasks), Later(steps),
         renderer' = Renderer!Continue(u, steps),
         events' \in Seq(SoundMessages), Len(events') <= EventLimit,
         FaultsIn(events') + Ahead(steps) + FaultOf(u.foreground)
           <= FaultsIn(events) + Ahead(renderer.todo) + FaultOf(renderer.foreground)
  PROVE  Both'
  <1> DEFINE all == steps \o Tail(renderer.todo)
  <1>1. /\ renderer.todo \in Seq(SoundTasks) /\ renderer.todo # <<>> /\ Later(renderer.todo)
        /\ renderer \in Holder /\ FaultsIn(events) \in Nat
    BY GoodFacts DEF Renderer!Idle
  <1>2. all \in Seq(SoundTasks) /\ Later(all) /\ Ahead(all) = Ahead(steps)
    BY <1>1, StepsFirst
  <1>3. all \in Seq(Renderer!Task)
    <2>1. \A i \in DOMAIN all : all[i] \in Renderer!Task
      <3>1. \A i \in DOMAIN all : all[i] \in SoundTasks BY <1>2, Queues
      <3> QED BY <3>1 DEF SoundTasks
    <2> QED BY <1>2, <2>1, SeqOf
  <1>4. renderer' = [u EXCEPT !.todo = all] BY DEF Renderer!Continue
  <1> HIDE DEF all
  <1>5. /\ renderer' \in Holder /\ renderer'.todo = all /\ renderer'.faults = u.faults
        /\ renderer'.applied = u.applied /\ renderer'.stageEnabled = u.stageEnabled
        /\ renderer'.stoppedPending = u.stoppedPending
        /\ renderer'.foreground = u.foreground
    BY <1>3, <1>4 DEF Holder
  <1>6. renderer.faults \in Nat BY <1>1 DEF Holder
  <1>7. FaultsIn(events') \in Nat
    <2>1. events' \in Seq(Message)
      <3>1. \A i \in DOMAIN events' : events'[i] \in Message BY Queues DEF SoundMessages
      <3> QED BY <3>1, SeqOf
    <2> QED BY <2>1, FaultsCounted
  <1>8. /\ renderer'.faults = renderer.faults + 0
        /\ FaultsIn(events') + Ahead(renderer'.todo) + FaultOf(renderer'.foreground)
             <= FaultsIn(events) + Ahead(renderer.todo) + FaultOf(renderer.foreground) + 0
    BY <1>1, <1>2, <1>5, <1>6, <1>7 DEF Ahead, FaultOf
  <1>9. 0 \in Nat OBVIOUS
  <1> QED BY <1>2, <1>5, <1>8, <1>9, KeepsBoth

-----------------------------------------------------------------------------
(* Steps of a task of the main queue. *)

\* emitScene keeps the queue sound, its limit, and counts a fault once.
LEMMA QueueKeeps ==
  ASSUME Good, NEW e \in SoundMessages, Renderer!Queue(e)
  PROVE  /\ events' \in Seq(SoundMessages) /\ Len(events') <= EventLimit
         /\ FaultsIn(events') \in Nat
         /\ FaultsIn(events') <= FaultsIn(events) + (IF FromFault(e) THEN 1 ELSE 0)
  <1>1. /\ events \in Seq(SoundMessages) /\ events \in Seq(Message)
        /\ Len(events) <= EventLimit /\ FaultsIn(events) \in Nat
    BY GoodFacts
  <1>2. e \in Message BY DEF SoundMessages
  <1>3. EventLimit \in Nat \ {0} BY RendererAssumption
  <1>4. CASE Len(events) < EventLimit
    <2>1. events' = Append(events, e) BY <1>4 DEF Renderer!Queue
    <2>2. FaultsIn(events') = FaultsIn(events) + (IF FromFault(e) THEN 1 ELSE 0)
      BY <1>1, <1>2, <2>1, FaultsCounted
    <2>3. events' \in Seq(SoundMessages) /\ Len(events') = Len(events) + 1
      BY <1>1, <2>1, Queues
    <2>4. Len(events) \in Nat BY <1>1, Queues
    <2> QED BY <1>1, <1>3, <1>4, <2>2, <2>3, <2>4
  <1>5. CASE ~(Len(events) < EventLimit)
    <2> DEFINE q == Tail(events)
    <2>1. Len(events) \in Nat BY <1>1, Queues
    <2>2. Len(events) = EventLimit BY <1>1, <1>3, <1>5, <2>1
    <2>3. events # <<>> BY <1>3, <2>2
    <2>4. /\ q \in Seq(SoundMessages) /\ q \in Seq(Message) /\ Len(q) = EventLimit - 1
      BY <1>1, <2>2, <2>3, Queues
    <2>5. FaultsIn(events) = FaultsIn(q) + (IF FromFault(Head(events)) THEN 1 ELSE 0)
      BY <1>1, <2>3, FaultsCounted
    <2>6. events' = Append(q, e) BY <1>5 DEF Renderer!Queue
    <2> HIDE DEF q
    <2>7. /\ FaultsIn(q) \in Nat
          /\ FaultsIn(events') = FaultsIn(q) + (IF FromFault(e) THEN 1 ELSE 0)
      BY <1>2, <2>4, <2>6, FaultsCounted
    <2>8. events' \in Seq(SoundMessages) /\ Len(events') = Len(q) + 1
      BY <2>4, <2>6, Queues
    <2> QED BY <1>1, <1>3, <2>4, <2>5, <2>7, <2>8
  <1> QED BY <1>4, <1>5

\* A step whose scene was overtaken says nothing.
LEMMA OvertakenKeeps ==
  ASSUME Good, svc' = svc, Renderer!StepOvertaken
  PROVE  Both'
  <1>1. /\ ~Renderer!Idle /\ renderer' = Renderer!Continue(renderer, <<>>)
        /\ events' = events
    BY DEF Renderer!StepOvertaken
  <1>2. /\ renderer \in Holder /\ events \in Seq(SoundMessages) /\ Len(events) <= EventLimit
        /\ FaultsIn(events) \in Nat
    BY GoodFacts
  <1>3. <<>> \in Seq(SoundTasks) /\ Later(<<>>) /\ Ahead(<<>>) = 0 BY PlainTasks, FewTasks
  <1>4. FaultsIn(events') + Ahead(<<>>) + FaultOf(renderer.foreground)
          <= FaultsIn(events) + Ahead(renderer.todo) + FaultOf(renderer.foreground)
    BY <1>1, <1>2, <1>3 DEF Ahead, FaultOf
  <1> QED BY <1>1, <1>2, <1>3, <1>4, ContinueKeeps

\* What a step says of the newest scene is sound.
LEMMA SaysSoundly ==
  ASSUME Good, Renderer!Current, NEW kind \in Renderer!EventKinds, NEW id \in Nat,
         Renderer!Do(kind, id) \in SoundTasks, NEW e,
         e = [kind |-> kind, generation |-> id,
              transportRevision |-> renderer.applied.transportRevision,
              sceneRevision |-> renderer.applied.revision,
              stageEnabled |-> renderer.stageEnabled]
  PROVE  /\ e \in SoundMessages
         /\ FromFault(e) <=> kind \in FaultSteps
  <1>1. /\ renderer.applied.revision = svc.scene.revision
        /\ renderer.applied.revision # 0
    BY DEF Renderer!Current
  <1>2. Holding /\ renderer \in Holder /\ svc.scene \in Scene BY GoodFacts
  <1>3. /\ renderer.applied.revision \in Nat /\ renderer.applied.transportRevision \in Nat
        /\ renderer.stageEnabled \in BOOLEAN
    BY <1>2 DEF Holder, Renderer!Applied
  <1>4. /\ id <= svc.scene.generation /\ (kind \in SourceKinds => Known(svc, id))
        /\ Fits(kind, id)
    BY <1>1 DEF SoundTasks, TaskIsSound, Renderer!Do
  <1>5. svc.scene.revision \in Nat BY <1>2 DEF Scene
  <1> QED BY <1>1, <1>2, <1>3, <1>4, <1>5
       DEF SoundMessages, Message, EventIsSound, Holding, FromFault, FaultSteps,
           Renderer!EventKinds

\* A step that reports.
LEMMA EmitKeeps ==
  ASSUME Good, svc' = svc, Renderer!Emit
  PROVE  Both'
  <1> DEFINE task == Head(renderer.todo)
             e == [kind |-> task.do, generation |-> task.generation,
                   transportRevision |-> renderer.applied.transportRevision,
                   sceneRevision |-> renderer.applied.revision,
                   stageEnabled |-> renderer.stageEnabled]
  <1>1. /\ ~Renderer!Idle /\ renderer' = Renderer!Continue(renderer, <<>>)
        /\ Renderer!Current /\ task.do \in Renderer!EventKinds /\ Renderer!Queue(e)
    BY DEF Renderer!Emit, Renderer!Say
  <1>2. /\ renderer \in Holder /\ renderer.todo \in Seq(SoundTasks)
        /\ FaultsIn(events) \in Nat
    BY GoodFacts
  <1>3. renderer.todo # <<>> BY <1>1 DEF Renderer!Idle
  <1>4. task \in SoundTasks /\ task = renderer.todo[1] BY <1>2, <1>3, Queues
  <1>5. task = Renderer!Do(task.do, task.generation) /\ task.generation \in Nat
    BY <1>4 DEF SoundTasks, Renderer!Task, Renderer!Do
  <1> HIDE DEF task
  <1>6. e \in SoundMessages /\ (FromFault(e) <=> task.do \in FaultSteps)
    <2>1. Renderer!Do(task.do, task.generation) \in SoundTasks BY <1>4, <1>5
    <2> QED BY <1>1, <1>5, <2>1, SaysSoundly
  <1> HIDE DEF e
  <1>7. /\ events' \in Seq(SoundMessages) /\ Len(events') <= EventLimit
        /\ FaultsIn(events') \in Nat
        /\ FaultsIn(events') <= FaultsIn(events) + (IF FromFault(e) THEN 1 ELSE 0)
    BY <1>1, <1>6, QueueKeeps
  <1>8. <<>> \in Seq(SoundTasks) /\ Later(<<>>) /\ Ahead(<<>>) = 0 BY PlainTasks, FewTasks
  <1>9. Ahead(renderer.todo) = IF FromFault(e) THEN 1 ELSE 0
    BY <1>3, <1>4, <1>6 DEF Ahead
  <1>10. FaultsIn(events') + Ahead(<<>>) + FaultOf(renderer.foreground)
          <= FaultsIn(events) + Ahead(renderer.todo) + FaultOf(renderer.foreground)
    BY <1>2, <1>7, <1>8, <1>9 DEF FaultOf
  <1> QED BY <1>1, <1>2, <1>7, <1>8, <1>10, ContinueKeeps

\* The timer that reports progress.
LEMMA ProgressesKeeps ==
  ASSUME Good, svc' = svc, Renderer!Progresses
  PROVE  Both'
  <1> DEFINE id == renderer.foreground.id
             e == [kind |-> "progress", generation |-> id,
                   transportRevision |-> renderer.applied.transportRevision,
                   sceneRevision |-> renderer.applied.revision,
                   stageEnabled |-> renderer.stageEnabled]
  <1>1. /\ Renderer!Current /\ Renderer!Queue(e) /\ renderer' = renderer
        /\ renderer.foreground.running
    BY DEF Renderer!Progresses, Renderer!Say
  <1>2. /\ renderer \in Holder /\ renderer.todo \in Seq(SoundTasks) /\ Later(renderer.todo)
        /\ FaultsIn(events) \in Nat /\ Holding /\ renderer.foreground \in Renderer!Player
        /\ svc.scene.generation \in Nat
    BY GoodFacts
  <1>3. id # 0 /\ id \in Nat
    BY <1>1, <1>2 DEF Holding, Renderer!NoPlayer, Renderer!NewPlayer, Renderer!Player
  <1>4. Renderer!Do("progress", id) \in SoundTasks
    <2>1. renderer.applied.revision = svc.scene.revision BY <1>1 DEF Renderer!Current
    <2> QED BY <1>2, <1>3, <2>1
         DEF SoundTasks, TaskIsSound, Fits, SourceKinds, Holding, Renderer!Do, Renderer!Task,
             Renderer!EventKinds
  <1>5. e \in SoundMessages /\ (FromFault(e) <=> "progress" \in FaultSteps)
    <2>1. "progress" \in Renderer!EventKinds BY DEF Renderer!EventKinds
    <2> HIDE DEF id
    <2> QED BY <1>1, <1>3, <1>4, <2>1, SaysSoundly
  <1> HIDE DEF e
  <1>6. ~FromFault(e) BY <1>5 DEF FaultSteps
  <1>7. /\ events' \in Seq(SoundMessages) /\ Len(events') <= EventLimit
        /\ FaultsIn(events') \in Nat /\ FaultsIn(events') <= FaultsIn(events)
    BY <1>1, <1>2, <1>5, <1>6, QueueKeeps
  <1>8. renderer'.faults = renderer.faults + 0 BY <1>1, <1>2 DEF Holder
  <1>9. FaultsIn(events') + Ahead(renderer'.todo) + FaultOf(renderer'.foreground)
          <= FaultsIn(events) + Ahead(renderer.todo) + FaultOf(renderer.foreground) + 0
    BY <1>1, <1>2, <1>7 DEF FaultOf, Ahead
  <1> QED BY <1>1, <1>2, <1>7, <1>8, <1>9, KeepsBoth

\* A step that reports nothing.
LEMMA StepRests ==
  ASSUME Good, svc' = svc, NEW do \in {"ready", "finish", "mix"}, Renderer!Doing(do),
         NEW u \in Holder, u.todo = renderer.todo,
         u.faults = renderer.faults, u.applied = renderer.applied,
         u.stageEnabled => renderer.stageEnabled,
         u.stoppedPending => renderer.stoppedPending,
         \/ u.foreground = Renderer!NoPlayer
         \/ u.foreground = renderer.foreground
         \/ /\ renderer.foreground.id # 0
            /\ u.foreground.id = renderer.foreground.id
            /\ u.foreground.paused = renderer.foreground.paused,
         NEW steps \in Seq(SoundTasks), Later(steps),
         renderer' = Renderer!Continue(u, steps), events' = events,
         Ahead(steps) + FaultOf(u.foreground) <= FaultOf(renderer.foreground)
  PROVE  Both'
  <1>1. /\ renderer \in Holder /\ renderer.todo \in Seq(SoundTasks)
        /\ events \in Seq(SoundMessages) /\ Len(events) <= EventLimit
        /\ FaultsIn(events) \in Nat
    BY GoodFacts
  <1>2. ~Renderer!Idle /\ Head(renderer.todo).do = do BY DEF Renderer!Doing
  <1>3. Ahead(renderer.todo) = 0
    <2>1. renderer.todo # <<>> BY <1>2 DEF Renderer!Idle
    <2>2. Head(renderer.todo) = renderer.todo[1] BY <1>1, <2>1, Queues
    <2> QED BY <1>2, <2>2, PlainTasks DEF Ahead
  <1>4. FaultsIn(events') + Ahead(steps) + FaultOf(u.foreground)
          <= FaultsIn(events) + Ahead(renderer.todo) + FaultOf(renderer.foreground)
    BY <1>1, <1>3 DEF Ahead, FaultOf
  <1> QED BY <1>1, <1>2, <1>4, ContinueKeeps

\* readyForeground with any outcome that keeps the player's identity and intent.
LEMMA ReadyKeeps ==
  ASSUME Good, svc' = svc, NEW p \in Renderer!Player,
         \/ p = Renderer!NoPlayer
         \/ p = renderer.foreground
         \/ /\ renderer.foreground.id # 0
            /\ p.id = renderer.foreground.id
            /\ p.paused = renderer.foreground.paused,
         NEW steps \in Seq(SoundTasks), Later(steps), Renderer!ReadyWith(p, steps),
         Ahead(steps) + FaultOf(p) <= FaultOf(renderer.foreground)
  PROVE  Both'
  <1> DEFINE u == [renderer EXCEPT !.foreground = p]
  <1>1. /\ Renderer!Doing("ready") /\ renderer' = Renderer!Continue(u, steps)
        /\ events' = events
    BY DEF Renderer!ReadyWith
  <1>2. renderer \in Holder BY GoodFacts
  <1>3. /\ u \in Holder /\ u.todo = renderer.todo /\ u.foreground = p
        /\ u.faults = renderer.faults /\ u.applied = renderer.applied
        /\ u.stageEnabled = renderer.stageEnabled
        /\ u.stoppedPending = renderer.stoppedPending
    BY <1>2 DEF Holder
  <1> HIDE DEF u
  <1> QED BY <1>1, <1>3, StepRests

\* mixBackground.
LEMMA MixKeeps ==
  ASSUME Good, svc' = svc, Renderer!Mix
  PROVE  Both'
  <1> DEFINE u == [renderer EXCEPT !.stoppedPending = FALSE]
             a == Renderer!Do("stopped", renderer.applied.generation)
  <1>1. /\ renderer \in Holder /\ Holding /\ svc.scene.generation \in Nat
        /\ renderer.foreground \in Renderer!Player
    BY GoodFacts
  <1>2. Renderer!Doing("mix") /\ Renderer!Current /\ events' = events
    BY DEF Renderer!Mix
  <1>3. <<>> \in Seq(SoundTasks) /\ Later(<<>>) /\ Ahead(<<>>) = 0 BY PlainTasks, FewTasks
  <1>4. CASE Renderer!StoppedIsDue
    <2>1. renderer' = Renderer!Continue(u, <<a>>) BY <1>4 DEF Renderer!Mix
    <2>2. /\ u \in Holder /\ u.todo = renderer.todo /\ u.foreground = renderer.foreground
          /\ u.faults = renderer.faults /\ u.applied = renderer.applied
          /\ u.stageEnabled = renderer.stageEnabled /\ ~u.stoppedPending
      BY <1>1 DEF Holder
    <2>3. a \in SoundTasks /\ a.do = "stopped"
      <3>1. renderer.applied.revision = svc.scene.revision /\ renderer.stoppedPending
        BY <1>2, <1>4 DEF Renderer!Current, Renderer!StoppedIsDue
      <3>2. renderer.applied.generation \in Nat BY <1>1 DEF Holder, Renderer!Applied
      <3> QED BY <1>1, <3>1, <3>2
           DEF SoundTasks, TaskIsSound, Fits, SourceKinds, Holding, Renderer!Do,
               Renderer!Task, Renderer!EventKinds
    <2> HIDE DEF u, a
    <2>4. /\ <<a>> \in Seq(SoundTasks) /\ Later(<<a>>) /\ Ahead(<<a>>) = 0
      BY <2>3, FewTasks DEF FaultSteps
    <2>5. Ahead(<<a>>) + FaultOf(u.foreground) <= FaultOf(renderer.foreground)
      BY <2>2, <2>4 DEF FaultOf
    <2> QED BY <1>2, <2>1, <2>2, <2>4, <2>5, StepRests
  <1>5. CASE ~Renderer!StoppedIsDue
    <2>1. renderer' = Renderer!Continue(renderer, <<>>) BY <1>5 DEF Renderer!Mix
    <2>2. Ahead(<<>>) + FaultOf(renderer.foreground) <= FaultOf(renderer.foreground)
      BY <1>3 DEF FaultOf
    <2> QED BY <1>1, <1>2, <1>3, <2>1, <2>2, StepRests
  <1> QED BY <1>4, <1>5

\* "error" and "ended" name the present player; "playing" and "paused" its intent.
LEMMA NamesPlayer ==
  ASSUME Good, Renderer!Current, renderer.foreground.id # 0
  PROVE  /\ \A do \in {"error", "ended"} :
              Renderer!Do(do, renderer.foreground.id) \in SoundTasks
         /\ Renderer!Do(IF renderer.foreground.paused THEN "paused" ELSE "playing",
                        renderer.foreground.id) \in SoundTasks
  <1>1. /\ renderer \in Holder /\ Holding /\ svc.scene.generation \in Nat
        /\ renderer.foreground \in Renderer!Player
    BY GoodFacts
  <1>2. renderer.applied.revision = svc.scene.revision BY DEF Renderer!Current
  <1>3. renderer.foreground.id \in Nat BY <1>1 DEF Renderer!Player
  <1>4. /\ renderer.foreground.id <= svc.scene.generation
        /\ Known(svc, renderer.foreground.id)
        /\ renderer.foreground.id = svc.scene.foregroundID
        /\ renderer.foreground.paused = svc.scene.paused
    BY <1>1, <1>2 DEF Holding
  <1>5. \A do \in {"error", "ended", "playing", "paused"} :
          (do \in {"playing", "paused"} => svc.scene.paused = (do = "paused"))
            => Renderer!Do(do, renderer.foreground.id) \in SoundTasks
    BY <1>3, <1>4
       DEF SoundTasks, TaskIsSound, Fits, SourceKinds, Renderer!Do,
           Renderer!Task, Renderer!EventKinds
  <1>6. CASE renderer.foreground.paused BY <1>4, <1>5, <1>6
  <1>7. CASE ~renderer.foreground.paused BY <1>1, <1>4, <1>5, <1>7 DEF Renderer!Player
  <1> QED BY <1>6, <1>7

\* With no player there is no fault to report.
LEMMA NoPlayerRests ==
  Renderer!NoPlayer \in Renderer!Player /\ FaultOf(Renderer!NoPlayer) = 0
    /\ Renderer!NoPlayer.id = 0
  BY DEF Renderer!NoPlayer, Renderer!NewPlayer, Renderer!Player, FaultOf

\* finishForeground: the end of a source is reported after the player is gone.
LEMMA FinishKeeps ==
  ASSUME Good, svc' = svc, Renderer!Finish
  PROVE  Both'
  <1> DEFINE p == renderer.foreground
             u == [renderer EXCEPT !.foreground = Renderer!NoPlayer, !.endedID = p.id]
             a == Renderer!Do("mix", 0)
             b == Renderer!Do("ended", p.id)
             ends == p.id # 0 /\ ~p.paused /\ p.seekRevision = p.soughtRevision /\ p.atEnd
  <1>1. /\ renderer \in Holder /\ p \in Renderer!Player
    BY GoodFacts
  <1>2. Renderer!Doing("finish") /\ Renderer!Current /\ events' = events
    BY DEF Renderer!Finish
  <1>3. <<>> \in Seq(SoundTasks) /\ Later(<<>>) /\ Ahead(<<>>) = 0 BY PlainTasks, FewTasks
  <1>4. CASE ends
    <2>1. renderer' = Renderer!Continue(u, <<a, b>>) BY <1>4 DEF Renderer!Finish
    <2>2. /\ u \in Holder /\ u.todo = renderer.todo /\ u.foreground = Renderer!NoPlayer
          /\ u.faults = renderer.faults /\ u.applied = renderer.applied
          /\ u.stageEnabled = renderer.stageEnabled
          /\ u.stoppedPending = renderer.stoppedPending
      BY <1>1, NoPlayerRests DEF Holder, Renderer!Player
    <2>3. /\ a \in SoundTasks /\ b \in SoundTasks /\ a.do = "mix" /\ b.do = "ended"
      BY <1>2, <1>4, PlainTasks, NamesPlayer DEF Renderer!Do
    <2> HIDE DEF u, a, b
    <2>4. /\ <<a, b>> \in Seq(SoundTasks) /\ Later(<<a, b>>) /\ Ahead(<<a, b>>) = 0
      BY <2>3, FewTasks DEF FaultSteps
    <2>5. Ahead(<<a, b>>) + FaultOf(u.foreground) <= FaultOf(renderer.foreground)
      BY <2>2, <2>4, NoPlayerRests DEF FaultOf
    <2> QED BY <1>2, <2>1, <2>2, <2>4, <2>5, StepRests
  <1>5. CASE ~ends
    <2>1. renderer' = Renderer!Continue(renderer, <<>>) BY <1>5 DEF Renderer!Finish
    <2>2. Ahead(<<>>) + FaultOf(renderer.foreground) <= FaultOf(renderer.foreground)
      BY <1>3 DEF FaultOf
    <2> QED BY <1>1, <1>2, <1>3, <2>1, <2>2, StepRests
  <1> QED BY <1>4, <1>5

\* the foreground, changed as ready may change it
LikePlayer(p, q) ==
  p.id = q.id /\ p.paused = q.paused /\ p.failed = q.failed

\* readyForeground when it changes no more than that.
LEMMA ReadyKeepsPlayer ==
  ASSUME Good, svc' = svc, NEW p \in Renderer!Player, renderer.foreground.id # 0,
         LikePlayer(p, renderer.foreground),
         NEW steps \in Seq(SoundTasks), Later(steps), Ahead(steps) = 0,
         Renderer!ReadyWith(p, steps)
  PROVE  Both'
  <1>1. Ahead(steps) + FaultOf(p) <= FaultOf(renderer.foreground) BY DEF LikePlayer, FaultOf
  <1> QED BY <1>1, ReadyKeeps DEF LikePlayer

\* A report at most, then the background.
LEMMA ReportSteps ==
  ASSUME Good, NEW a \in SoundTasks, a.do \notin FaultSteps
  PROVE  LET m == Renderer!Do("mix", 0) IN
         \A q \in {<<>>, <<a>>} :
           q \o <<m>> \in Seq(SoundTasks) /\ Later(q \o <<m>>) /\ Ahead(q \o <<m>>) = 0
  <1> DEFINE m == Renderer!Do("mix", 0)
  <1>1. m \in SoundTasks /\ m.do \notin FaultSteps BY PlainTasks
  <1> HIDE DEF m
  <1> DEFINE Harmless == {task \in SoundTasks : task.do \notin FaultSteps}
  <1>2. a \in Harmless /\ m \in Harmless BY <1>1
  <1>3. \A q \in Seq(Harmless) : q \in Seq(SoundTasks) /\ Later(q) /\ Ahead(q) = 0
    <2> TAKE q \in Seq(Harmless)
    <2>1. Len(q) \in Nat /\ DOMAIN q = 1 .. Len(q) /\ \A i \in DOMAIN q : q[i] \in Harmless
      BY Queues
    <2>2. q \in Seq(SoundTasks) BY <2>1, SeqOf
    <2>3. q # <<>> => 1 \in DOMAIN q BY <2>1
    <2> QED BY <2>1, <2>2, <2>3 DEF Later, Ahead
  <1>4. \A q \in {<<>>, <<a>>} :
          q \o <<m>> \in Seq(SoundTasks) /\ Later(q \o <<m>>) /\ Ahead(q \o <<m>>) = 0
    <2> HIDE DEF Harmless
    <2>1. \A q \in {<<>>, <<a>>} : q \o <<m>> \in Seq(Harmless)
      <3>1. \A q \in {<<>>, <<a>>} : q \in Seq(Harmless)
        <4>1. <<>> \in Seq(Harmless) OBVIOUS
        <4>2. <<a>> \in Seq(Harmless) BY <1>2
        <4> QED BY <4>1, <4>2, Zenon
      <3>2. <<m>> \in Seq(Harmless) BY <1>2
      <3>3. \A q, r \in Seq(Harmless) : q \o r \in Seq(Harmless) OBVIOUS
      <3> QED BY <3>1, <3>2, <3>3
    <2> QED BY <1>3, <2>1
  <1> QED BY <1>4 DEF m

\* A task of one step that reports nothing.
LEMMA PlainSteps ==
  ASSUME Good, NEW do \in {"ready", "finish", "mix"}
  PROVE  /\ <<Renderer!Do(do, 0)>> \in Seq(SoundTasks)
         /\ Later(<<Renderer!Do(do, 0)>>) /\ Ahead(<<Renderer!Do(do, 0)>>) = 0
         /\ <<>> \in Seq(SoundTasks) /\ Later(<<>>) /\ Ahead(<<>>) = 0
  <1> DEFINE m == Renderer!Do(do, 0)
  <1>1. m \in SoundTasks /\ m.do \notin FaultSteps BY PlainTasks
  <1> HIDE DEF m
  <1>2. /\ <<m>> \in Seq(SoundTasks) /\ Later(<<m>>) /\ Ahead(<<m>>) = 0
        /\ <<>> \in Seq(SoundTasks) /\ Later(<<>>) /\ Ahead(<<>>) = 0
    BY <1>1, FewTasks
  <1> QED BY <1>2 DEF m

\* A player that is not prepared yet.
LEMMA ReadyTooEarlyKeeps ==
  ASSUME Good, svc' = svc, Renderer!ReadyTooEarly
  PROVE  Both'
  <1>1. Renderer!ReadyWith(renderer.foreground, <<>>) BY DEF Renderer!ReadyTooEarly
  <1>2. renderer.foreground \in Renderer!Player BY GoodFacts
  <1>3. <<>> \in Seq(SoundTasks) /\ Later(<<>>) /\ Ahead(<<>>) = 0 BY PlainSteps
  <1>4. Ahead(<<>>) + FaultOf(renderer.foreground) <= FaultOf(renderer.foreground)
    BY <1>3 DEF FaultOf
  <1> QED BY <1>1, <1>2, <1>3, <1>4, ReadyKeeps

\* A player that failed is dropped, and its fault reported.
LEMMA ReadyFailsKeeps ==
  ASSUME Good, svc' = svc, Renderer!ReadyFails
  PROVE  Both'
  <1> DEFINE a == Renderer!Do("error", renderer.foreground.id)
             m == Renderer!Do("mix", 0)
  <1>1. /\ renderer.foreground.failed /\ Renderer!Current
        /\ Renderer!ReadyWith(Renderer!NoPlayer, <<a, m>>)
    BY DEF Renderer!ReadyFails, Renderer!ReadyWith
  <1>2. renderer.foreground \in Renderer!Player /\ Holding BY GoodFacts
  <1>3. renderer.foreground.id # 0
    BY <1>1, <1>2 DEF Holding, Renderer!NoPlayer, Renderer!NewPlayer
  <1>4. a \in SoundTasks /\ a.do = "error" BY <1>1, <1>3, NamesPlayer DEF Renderer!Do
  <1>5. m \in SoundTasks /\ m.do \notin FaultSteps BY PlainTasks
  <1> HIDE DEF a, m
  <1>6. /\ <<a, m>> \in Seq(SoundTasks) /\ Later(<<a, m>>) /\ Ahead(<<a, m>>) = 1
    BY <1>4, <1>5, FewTasks DEF FaultSteps
  <1>7. Ahead(<<a, m>>) + FaultOf(Renderer!NoPlayer) <= FaultOf(renderer.foreground)
    BY <1>1, <1>6, NoPlayerRests DEF FaultOf
  <1> QED BY <1>1, <1>6, <1>7, NoPlayerRests, ReadyKeeps

\* A seek is begun.
LEMMA ReadySeeksKeeps ==
  ASSUME Good, svc' = svc, Renderer!ReadySeeks
  PROVE  Both'
  <1> DEFINE p == renderer.foreground
             q == [p EXCEPT !.seeking = TRUE, !.rate = FALSE, !.running = FALSE]
  <1>1. Renderer!ReadyWith(q, <<Renderer!Do("mix", 0)>>) /\ p.id # 0
    BY DEF Renderer!ReadySeeks, Renderer!Prepared
  <1>2. p \in Renderer!Player BY GoodFacts
  <1>3. q \in Renderer!Player /\ LikePlayer(q, p) BY <1>2 DEF LikePlayer, Renderer!Player
  <1> HIDE DEF q
  <1> QED BY <1>1, <1>3, PlainSteps, ReadyKeepsPlayer

\* A paused player reports that it is.
LEMMA ReadyPausedKeeps ==
  ASSUME Good, svc' = svc, Renderer!ReadyPaused
  PROVE  Both'
  <1> DEFINE p == renderer.foreground
             q == [p EXCEPT !.rate = FALSE, !.running = FALSE, !.reported = TRUE]
             a == Renderer!Do("paused", p.id)
             m == Renderer!Do("mix", 0)
  <1>1. /\ Renderer!ReadyWith(q, Renderer!Report(p, "paused") \o <<m>>)
        /\ p.id # 0 /\ p.paused /\ Renderer!Current
    BY DEF Renderer!ReadyPaused, Renderer!Prepared, Renderer!ReadyWith
  <1>2. p \in Renderer!Player BY GoodFacts
  <1>3. q \in Renderer!Player /\ LikePlayer(q, p) BY <1>2 DEF LikePlayer, Renderer!Player
  <1>4. a \in SoundTasks /\ a.do = "paused" BY <1>1, NamesPlayer DEF Renderer!Do
  <1>5. Renderer!Report(p, "paused") \in {<<>>, <<a>>} BY DEF Renderer!Report
  <1> DEFINE steps == Renderer!Report(p, "paused") \o <<m>>
  <1>6. steps \in Seq(SoundTasks) /\ Later(steps) /\ Ahead(steps) = 0
    <2> HIDE DEF a
    <2> QED BY <1>4, <1>5, ReportSteps DEF FaultSteps
  <1> HIDE DEF q, steps
  <1> QED BY <1>1, <1>3, <1>6, ReadyKeepsPlayer DEF steps

\* A player that is at its end is finished.
LEMMA ReadyAtEndKeeps ==
  ASSUME Good, svc' = svc, Renderer!ReadyAtEnd
  PROVE  Both'
  <1>1. /\ Renderer!ReadyWith(renderer.foreground, <<Renderer!Do("finish", 0)>>)
        /\ renderer.foreground.id # 0
    BY DEF Renderer!ReadyAtEnd, Renderer!Prepared
  <1>2. renderer.foreground \in Renderer!Player BY GoodFacts
  <1> QED BY <1>1, <1>2, PlainSteps, ReadyKeepsPlayer DEF LikePlayer

\* A player that plays reports that it does.
LEMMA ReadyPlaysKeeps ==
  ASSUME Good, svc' = svc, Renderer!ReadyPlays
  PROVE  Both'
  <1> DEFINE p == renderer.foreground
             q == [p EXCEPT !.started = TRUE, !.reported = TRUE]
             r == [p EXCEPT !.rate = TRUE]
             a == Renderer!Do("playing", p.id)
             m == Renderer!Do("mix", 0)
             steps == Renderer!Report(p, "playing") \o <<m>>
  <1>1. /\ p.running => Renderer!ReadyWith(q, steps)
        /\ ~p.running => Renderer!ReadyWith(r, <<>>)
        /\ p.id # 0 /\ ~p.paused /\ Renderer!Current
    BY DEF Renderer!ReadyPlays, Renderer!Prepared, Renderer!ReadyWith
  <1>2. p \in Renderer!Player BY GoodFacts
  <1>3. /\ q \in Renderer!Player /\ LikePlayer(q, p)
        /\ r \in Renderer!Player /\ LikePlayer(r, p)
    BY <1>2 DEF LikePlayer, Renderer!Player
  <1>4. a \in SoundTasks /\ a.do = "playing" BY <1>1, NamesPlayer DEF Renderer!Do
  <1>5. Renderer!Report(p, "playing") \in {<<>>, <<a>>} BY DEF Renderer!Report
  <1>6. steps \in Seq(SoundTasks) /\ Later(steps) /\ Ahead(steps) = 0
    <2> HIDE DEF a
    <2> QED BY <1>4, <1>5, ReportSteps DEF FaultSteps
  <1>7. <<>> \in Seq(SoundTasks) /\ Later(<<>>) /\ Ahead(<<>>) = 0 BY PlainSteps
  <1> HIDE DEF q, r, steps
  <1>8. CASE p.running BY <1>1, <1>3, <1>6, <1>8, ReadyKeepsPlayer
  <1>9. CASE ~p.running BY <1>1, <1>3, <1>7, <1>9, ReadyKeepsPlayer
  <1> QED BY <1>8, <1>9

\* Every step of a task of the main queue.
LEMMA StepKeepsBoth ==
  ASSUME Good, svc' = svc, Renderer!Step
  PROVE  Both'
  BY OvertakenKeeps, EmitKeeps, MixKeeps, FinishKeeps, ReadyTooEarlyKeeps, ReadyFailsKeeps,
     ReadySeeksKeeps, ReadyPausedKeeps, ReadyAtEndKeeps, ReadyPlaysKeeps
  DEF Renderer!Step

-----------------------------------------------------------------------------
(* What begins a task. *)

\* Sound steps are steps.
LEMMA TasksAreTasks ==
  ASSUME NEW q \in Seq(SoundTasks)
  PROVE  q \in Seq(Renderer!Task)
  <1>1. \A i \in DOMAIN q : q[i] \in Renderer!Task BY Queues DEF SoundTasks
  <1> QED BY <1>1, SeqOf

\* What begins a task of the main queue has to show.
LEMMA TaskKeeps ==
  ASSUME Good, svc' = svc, Renderer!Idle, renderer' \in Holder,
         renderer'.applied = renderer.applied,
         renderer'.stageEnabled => renderer.stageEnabled,
         renderer'.stoppedPending => renderer.stoppedPending,
         \/ renderer'.foreground = Renderer!NoPlayer
         \/ renderer'.foreground = renderer.foreground
         \/ /\ renderer.foreground.id # 0
            /\ renderer'.foreground.id = renderer.foreground.id
            /\ renderer'.foreground.paused = renderer.foreground.paused,
         renderer'.todo \in Seq(SoundTasks), Later(renderer'.todo), events' = events,
         NEW d \in Nat, renderer'.faults = renderer.faults + d,
         Ahead(renderer'.todo) + FaultOf(renderer'.foreground) <= FaultOf(renderer.foreground) + d
  PROVE  Both'
  <1>1. /\ events \in Seq(SoundMessages) /\ Len(events) <= EventLimit
        /\ FaultsIn(events) \in Nat
    BY GoodFacts
  <1>2. Ahead(renderer.todo) = 0 BY DEF Ahead, Renderer!Idle
  <1>3. FaultsIn(events') + Ahead(renderer'.todo) + FaultOf(renderer'.foreground)
          <= FaultsIn(events) + Ahead(renderer.todo) + FaultOf(renderer.foreground) + d
    BY <1>1, <1>2 DEF Ahead, FaultOf
  <1> QED BY <1>1, <1>3, KeepsBoth

\* A task that only looks at the player.
LEMMA ObserveKeeps ==
  ASSUME Good, svc' = svc, renderer.foreground.id # 0,
         NEW p \in Renderer!Player, LikePlayer(p, renderer.foreground),
         NEW do \in {"ready", "finish"},
         Renderer!Observe(p, <<Renderer!Do(do, 0)>>)
  PROVE  Both'
  <1> DEFINE q == <<Renderer!Do(do, 0)>>
  <1>1. q \in Seq(SoundTasks) /\ Later(q) /\ Ahead(q) = 0 BY PlainSteps
  <1>2. q \in Seq(Renderer!Task) BY <1>1, TasksAreTasks
  <1>3. /\ Renderer!Idle /\ events' = events
        /\ renderer' = [renderer EXCEPT !.foreground = p, !.todo = q]
    BY DEF Renderer!Observe
  <1>4. renderer \in Holder BY GoodFacts
  <1> HIDE DEF q
  <1>5. /\ renderer' \in Holder /\ renderer'.applied = renderer.applied
        /\ renderer'.stageEnabled = renderer.stageEnabled
        /\ renderer'.stoppedPending = renderer.stoppedPending
        /\ renderer'.foreground = p /\ renderer'.todo = q
        /\ renderer'.faults = renderer.faults
    BY <1>2, <1>3, <1>4 DEF Holder
  <1>7. renderer.faults \in Nat BY <1>4 DEF Holder
  <1>8. renderer'.faults = renderer.faults + 0 BY <1>5, <1>7
  <1>6. Ahead(renderer'.todo) + FaultOf(renderer'.foreground) <= FaultOf(renderer.foreground) + 0
    BY <1>1, <1>5 DEF FaultOf, LikePlayer
  <1> QED BY <1>1, <1>3, <1>5, <1>6, <1>8, TaskKeeps DEF LikePlayer

\* The decoder.
LEMMA DecodeKeepsPlayer ==
  ASSUME Good, svc' = svc,
         Renderer!Loads \/ Renderer!Runs \/ Renderer!Sought \/ Renderer!ReachesEnd
  PROVE  Both'
  <1> DEFINE p == renderer.foreground
  <1>1. p \in Renderer!Player /\ Holding BY GoodFacts
  <1>2. p.rate \/ p.seeking \/ p.started => p.id # 0
    BY <1>1 DEF Holding, Renderer!NoPlayer, Renderer!NewPlayer
  <1>3. CASE Renderer!Loads
    <2> DEFINE q == [p EXCEPT !.loaded = TRUE]
    <2>1. Renderer!Observe(q, <<Renderer!Do("ready", 0)>>) /\ p.id # 0
      BY <1>3 DEF Renderer!Loads
    <2>2. q \in Renderer!Player /\ LikePlayer(q, p) BY <1>1 DEF LikePlayer, Renderer!Player
    <2> HIDE DEF q
    <2> QED BY <2>1, <2>2, ObserveKeeps
  <1>4. CASE Renderer!Runs
    <2> DEFINE q == [p EXCEPT !.running = TRUE]
    <2>1. Renderer!Observe(q, <<Renderer!Do("ready", 0)>>) /\ p.id # 0
      BY <1>2, <1>4 DEF Renderer!Runs
    <2>2. q \in Renderer!Player /\ LikePlayer(q, p) BY <1>1 DEF LikePlayer, Renderer!Player
    <2> HIDE DEF q
    <2> QED BY <2>1, <2>2, ObserveKeeps
  <1>5. CASE Renderer!Sought
    <2> DEFINE q(atEnd) == [p EXCEPT !.seeking = FALSE, !.soughtRevision = p.seekRevision,
                                     !.atEnd = atEnd]
    <2>1. PICK atEnd \in BOOLEAN : Renderer!Observe(q(atEnd), <<Renderer!Do("ready", 0)>>)
      BY <1>5 DEF Renderer!Sought
    <2>2. p.id # 0 BY <1>2, <1>5 DEF Renderer!Sought
    <2>3. q(atEnd) \in Renderer!Player /\ LikePlayer(q(atEnd), p)
      BY <1>1 DEF LikePlayer, Renderer!Player
    <2> HIDE DEF q
    <2> QED BY <2>1, <2>2, <2>3, ObserveKeeps
  <1>6. CASE Renderer!ReachesEnd
    <2> DEFINE q == [p EXCEPT !.atEnd = TRUE, !.rate = FALSE, !.running = FALSE]
    <2>1. Renderer!Observe(q, <<Renderer!Do("finish", 0)>>) /\ p.id # 0
      BY <1>2, <1>6 DEF Renderer!ReachesEnd
    <2>2. q \in Renderer!Player /\ LikePlayer(q, p) BY <1>1 DEF LikePlayer, Renderer!Player
    <2> HIDE DEF q
    <2> QED BY <2>1, <2>2, ObserveKeeps
  <1> QED BY <1>3, <1>4, <1>5, <1>6

\* The background starts, or what faded ends.
LEMMA MixesKeep ==
  ASSUME Good, svc' = svc,
         Renderer!BackgroundStarts \/ Renderer!FadesOut \/ Renderer!TailEnds
  PROVE  Both'
  <1> DEFINE q == <<Renderer!Do("mix", 0)>>
  <1>1. q \in Seq(SoundTasks) /\ Later(q) /\ Ahead(q) = 0 BY PlainSteps
  <1>2. q \in Seq(Renderer!Task) BY <1>1, TasksAreTasks
  <1>3. /\ Renderer!Idle /\ events' = events
        /\ \/ renderer' = [renderer EXCEPT !.background.started = TRUE, !.todo = q]
           \/ renderer' = [renderer EXCEPT !.tail = FALSE, !.todo = q]
    BY Zenon DEF Renderer!BackgroundStarts, Renderer!FadesOut, Renderer!TailEnds
  <1>4. renderer \in Holder BY GoodFacts
  <1> DEFINE b == [renderer.background EXCEPT !.started = TRUE]
  <1>9. b \in Renderer!Background BY <1>4 DEF Holder, Renderer!Background
  <1>10. \/ renderer' = [renderer EXCEPT !.background = b, !.todo = q]
         \/ renderer' = [renderer EXCEPT !.tail = FALSE, !.todo = q]
    BY <1>3
  <1> HIDE DEF q, b
  <1>5. /\ renderer' \in Holder /\ renderer'.applied = renderer.applied
        /\ renderer'.stageEnabled = renderer.stageEnabled
        /\ renderer'.stoppedPending = renderer.stoppedPending
        /\ renderer'.foreground = renderer.foreground /\ renderer'.todo = q
        /\ renderer'.faults = renderer.faults
    BY <1>2, <1>4, <1>9, <1>10 DEF Holder
  <1>7. renderer.faults \in Nat BY <1>4 DEF Holder
  <1>8. renderer'.faults = renderer.faults + 0 BY <1>5, <1>7
  <1>6. Ahead(renderer'.todo) + FaultOf(renderer'.foreground) <= FaultOf(renderer.foreground) + 0
    BY <1>1, <1>5 DEF FaultOf
  <1> QED BY <1>1, <1>3, <1>5, <1>6, <1>8, TaskKeeps

\* Faults are counted up to their bound.
LEMMA ANewFault ==
  ASSUME Good, renderer.faults < MaxFaults
  PROVE  renderer.faults + 1 \in 0 .. MaxFaults /\ renderer.faults \in Nat
  <1>1. renderer \in Holder BY GoodFacts
  <1>2. renderer.faults \in 0 .. MaxFaults BY <1>1 DEF Holder
  <1>3. MaxFaults \in Nat BY RendererAssumption
  <1> QED BY <1>2, <1>3

\* A player fails.
LEMMA PlayerFailsKeeps ==
  ASSUME Good, svc' = svc, Renderer!PlayerFails
  PROVE  Both'
  <1> DEFINE p == renderer.foreground
             n == renderer.faults + 1
  <1>1. /\ renderer \in Holder /\ p \in Renderer!Player
    BY GoodFacts
  <1>2. /\ Renderer!Idle /\ events' = events /\ renderer.faults < MaxFaults
        /\ p.id # 0 /\ ~p.failed
    BY DEF Renderer!PlayerFails
  <1>3. n \in 0 .. MaxFaults /\ renderer.faults \in Nat BY <1>2, ANewFault
  <1>4. CASE Renderer!Current
    <2> DEFINE a == Renderer!Do("error", p.id)
               m == Renderer!Do("mix", 0)
               q == <<a, m>>
    <2>1. renderer' = [renderer EXCEPT !.foreground = Renderer!NoPlayer, !.faults = n,
                                       !.todo = q]
      BY <1>4 DEF Renderer!PlayerFails
    <2>2. a \in SoundTasks /\ a.do = "error" BY <1>2, <1>4, NamesPlayer DEF Renderer!Do
    <2>3. m \in SoundTasks /\ m.do \notin FaultSteps BY PlainTasks
    <2> HIDE DEF a, m
    <2>4. q \in Seq(SoundTasks) /\ Later(q) /\ Ahead(q) = 1
      BY <2>2, <2>3, FewTasks DEF FaultSteps
    <2>5. q \in Seq(Renderer!Task) BY <2>4, TasksAreTasks
    <2> HIDE DEF q, n
    <2>6. /\ renderer' \in Holder /\ renderer'.applied = renderer.applied
          /\ renderer'.stageEnabled = renderer.stageEnabled
          /\ renderer'.stoppedPending = renderer.stoppedPending
          /\ renderer'.foreground = Renderer!NoPlayer /\ renderer'.todo = q
          /\ renderer'.faults = n
      BY <1>1, <1>3, <2>1, <2>5, NoPlayerRests DEF Holder
    <2>7. Ahead(renderer'.todo) + FaultOf(renderer'.foreground) <= FaultOf(p) + 1
      BY <2>4, <2>6, NoPlayerRests DEF FaultOf
    <2>8. 1 \in Nat /\ renderer'.faults = renderer.faults + 1 BY <2>6 DEF n
    <2> QED BY <1>2, <2>4, <2>6, <2>7, <2>8, TaskKeeps
  <1>5. CASE ~Renderer!Current
    <2> DEFINE f == [p EXCEPT !.failed = TRUE]
    <2>1. renderer' = [renderer EXCEPT !.foreground = f, !.faults = n]
      BY <1>5 DEF Renderer!PlayerFails
    <2>2. /\ f \in Renderer!Player /\ f.id = p.id /\ f.paused = p.paused
      BY <1>1 DEF Renderer!Player
    <2> HIDE DEF f, n
    <2>3. /\ renderer' \in Holder /\ renderer'.applied = renderer.applied
          /\ renderer'.stageEnabled = renderer.stageEnabled
          /\ renderer'.stoppedPending = renderer.stoppedPending
          /\ renderer'.foreground = f /\ renderer'.todo = renderer.todo
          /\ renderer'.faults = n
      BY <1>1, <1>3, <2>1, <2>2 DEF Holder
    <2>4. renderer.todo \in Seq(SoundTasks) /\ Later(renderer.todo) BY GoodFacts
    <2>5. Ahead(renderer'.todo) + FaultOf(renderer'.foreground) <= FaultOf(p) + 1
      BY <1>2, <2>3 DEF FaultOf, Ahead, Renderer!Idle
    <2>6. 1 \in Nat /\ renderer'.faults = renderer.faults + 1 BY <2>3 DEF n
    <2> QED BY <1>2, <2>2, <2>3, <2>4, <2>5, <2>6, TaskKeeps
  <1> QED BY <1>4, <1>5

\* A background fails.
LEMMA BackgroundFailsKeeps ==
  ASSUME Good, svc' = svc, Renderer!BackgroundFails
  PROVE  Both'
  <1> DEFINE n == renderer.faults + 1
             a == Renderer!Do("background-error", renderer.applied.generation)
             m == Renderer!Do("mix", 0)
             q == <<a, m>>
  <1>1. /\ renderer \in Holder /\ Holding /\ svc.scene.generation \in Nat
    BY GoodFacts
  <1>2. /\ Renderer!Idle /\ events' = events /\ renderer.faults < MaxFaults
        /\ renderer' = [renderer EXCEPT !.background = Renderer!NoBackground,
                                        !.faults = n, !.todo = q]
    BY DEF Renderer!BackgroundFails
  <1>3. n \in 0 .. MaxFaults /\ renderer.faults \in Nat BY <1>2, ANewFault
  <1>4. a \in SoundTasks /\ a.do = "background-error"
    <2>1. renderer.applied.generation \in Nat BY <1>1 DEF Holder, Renderer!Applied
    <2> QED BY <1>1, <2>1
         DEF SoundTasks, TaskIsSound, Fits, SourceKinds, Holding, Renderer!Do,
             Renderer!Task, Renderer!EventKinds
  <1>5. m \in SoundTasks /\ m.do \notin FaultSteps BY PlainTasks
  <1> HIDE DEF a, m
  <1>6. q \in Seq(SoundTasks) /\ Later(q) /\ Ahead(q) = 0
    BY <1>4, <1>5, FewTasks DEF FaultSteps
  <1>7. q \in Seq(Renderer!Task) BY <1>6, TasksAreTasks
  <1>8. Renderer!NoBackground \in Renderer!Background
    BY DEF Renderer!NoBackground, Renderer!Background
  <1> HIDE DEF q, n
  <1>9. /\ renderer' \in Holder /\ renderer'.applied = renderer.applied
        /\ renderer'.stageEnabled = renderer.stageEnabled
        /\ renderer'.stoppedPending = renderer.stoppedPending
        /\ renderer'.foreground = renderer.foreground /\ renderer'.todo = q
        /\ renderer'.faults = n
    BY <1>1, <1>2, <1>3, <1>7, <1>8 DEF Holder
  <1>10. Ahead(renderer'.todo) + FaultOf(renderer'.foreground) <= FaultOf(renderer.foreground) + 1
    BY <1>6, <1>9 DEF FaultOf
  <1>11. 1 \in Nat /\ renderer'.faults = renderer.faults + 1 BY <1>9 DEF n
  <1> QED BY <1>2, <1>6, <1>9, <1>10, <1>11, TaskKeeps

\* StopScene and hideSceneStage leave nothing to report but what was applied.
LEMMA TornDown ==
  ASSUME NEW r \in Holder
  PROVE  /\ Renderer!TearDown(r) \in Holder
         /\ Renderer!TearDown(r).applied = r.applied
         /\ Renderer!TearDown(r).foreground = Renderer!NoPlayer
         /\ ~Renderer!TearDown(r).stageEnabled /\ ~Renderer!TearDown(r).stoppedPending
         /\ Renderer!TearDown(r).todo = r.todo /\ Renderer!TearDown(r).faults = r.faults
         /\ Renderer!TearDown(r).endedID = r.endedID
  <1>1. Renderer!NoBackground \in Renderer!Background
    BY DEF Renderer!NoBackground, Renderer!Background
  <1> QED BY <1>1, NoPlayerRests DEF Renderer!TearDown, Holder

\* The output disappears.
LEMMA LosesDeviceKeeps ==
  ASSUME Good, svc' = svc, Renderer!LosesDevice
  PROVE  Both'
  <1> DEFINE n == renderer.faults + 1
             u == Renderer!TearDown(renderer)
             a == Renderer!Do("device-lost", renderer.applied.generation)
             q == <<a>>
  <1>1. /\ renderer \in Holder /\ Holding /\ svc.scene.generation \in Nat
    BY GoodFacts
  <1>2. /\ u \in Holder /\ u.applied = renderer.applied
        /\ u.foreground = Renderer!NoPlayer /\ ~u.stageEnabled /\ ~u.stoppedPending
        /\ u.faults = renderer.faults
    BY <1>1, TornDown
  <1>3. /\ Renderer!Idle /\ events' = events /\ renderer.faults < MaxFaults
        /\ renderer' = [u EXCEPT !.faults = @ + 1, !.todo = q]
    BY DEF Renderer!LosesDevice
  <1>4. n \in 0 .. MaxFaults /\ renderer.faults \in Nat BY <1>3, ANewFault
  <1>5. a \in SoundTasks /\ a.do = "device-lost"
    <2>1. renderer.applied.generation \in Nat BY <1>1 DEF Holder, Renderer!Applied
    <2> QED BY <1>1, <2>1
         DEF SoundTasks, TaskIsSound, Fits, SourceKinds, Holding, Renderer!Do,
             Renderer!Task, Renderer!EventKinds
  <1> HIDE DEF a
  <1>6. q \in Seq(SoundTasks) /\ Later(q) /\ Ahead(q) = 1
    BY <1>5, FewTasks DEF FaultSteps
  <1>7. q \in Seq(Renderer!Task) BY <1>6, TasksAreTasks
  <1>8. renderer' = [u EXCEPT !.faults = n, !.todo = q] BY <1>2, <1>3 DEF Holder
  <1> HIDE DEF q, n, u
  <1>9. /\ renderer' \in Holder /\ renderer'.applied = u.applied
        /\ renderer'.stageEnabled = u.stageEnabled
        /\ renderer'.stoppedPending = u.stoppedPending
        /\ renderer'.foreground = u.foreground /\ renderer'.todo = q
        /\ renderer'.faults = n
    BY <1>2, <1>4, <1>7, <1>8 DEF Holder
  <1>10. Ahead(renderer'.todo) + FaultOf(renderer'.foreground) <= FaultOf(renderer.foreground) + 1
    BY <1>2, <1>6, <1>9, NoPlayerRests DEF FaultOf
  <1>11. 1 \in Nat /\ renderer'.faults = renderer.faults + 1 BY <1>9 DEF n
  <1> QED BY <1>2, <1>3, <1>6, <1>9, <1>10, <1>11, TaskKeeps

\* Escape is pressed on the host.
LEMMA PressEscapeKeeps ==
  ASSUME Good, svc' = svc, Renderer!PressEscape
  PROVE  Both'
  <1> DEFINE n == renderer.faults + 1
             u == Renderer!TearDown(renderer)
             x == IF renderer.applied.revision = 0 THEN u.escapedAt ELSE svc.scene.revision
             e == [kind |-> "escape", generation |-> renderer.applied.generation,
                   transportRevision |-> 0, sceneRevision |-> 0, stageEnabled |-> FALSE]
  <1>1. /\ renderer \in Holder /\ svc.scene \in Scene
        /\ renderer.todo \in Seq(SoundTasks) /\ Later(renderer.todo)
        /\ FaultsIn(events) \in Nat
    BY GoodFacts
  <1>2. /\ u \in Holder /\ u.applied = renderer.applied /\ u.todo = renderer.todo
        /\ u.foreground = Renderer!NoPlayer /\ ~u.stageEnabled /\ ~u.stoppedPending
        /\ u.faults = renderer.faults
    BY <1>1, TornDown
  <1>3. /\ Renderer!Idle /\ Renderer!Queue(e) /\ renderer.faults < MaxFaults
        /\ renderer' = [u EXCEPT !.faults = @ + 1, !.escapedAt =
                          IF renderer.applied.revision = 0 THEN @ ELSE svc.scene.revision]
    BY DEF Renderer!PressEscape
  <1>4. n \in 0 .. MaxFaults /\ renderer.faults \in Nat BY <1>3, ANewFault
  <1>5. e \in SoundMessages /\ FromFault(e)
    <2>1. renderer.applied.generation \in Nat BY <1>1 DEF Holder, Renderer!Applied
    <2> QED BY <2>1 DEF SoundMessages, Message, EventIsSound, FromFault
  <1>6. x \in Nat BY <1>1, <1>2 DEF Holder, Scene
  <1>7. renderer' = [u EXCEPT !.faults = n, !.escapedAt = x] BY <1>2, <1>3 DEF Holder
  <1> HIDE DEF n, u, x, e
  <1>8. /\ renderer' \in Holder /\ renderer'.applied = u.applied
        /\ renderer'.stageEnabled = u.stageEnabled
        /\ renderer'.stoppedPending = u.stoppedPending
        /\ renderer'.foreground = u.foreground /\ renderer'.todo = u.todo
        /\ renderer'.faults = n
    BY <1>2, <1>4, <1>6, <1>7 DEF Holder
  <1>9. /\ events' \in Seq(SoundMessages) /\ Len(events') <= EventLimit
        /\ FaultsIn(events') \in Nat /\ FaultsIn(events') <= FaultsIn(events) + 1
    BY <1>1, <1>3, <1>5, QueueKeeps
  <1>10. FaultsIn(events') + Ahead(renderer'.todo) + FaultOf(renderer'.foreground)
           <= FaultsIn(events) + Ahead(renderer.todo) + FaultOf(renderer.foreground) + 1
    BY <1>1, <1>2, <1>8, <1>9, NoPlayerRests DEF FaultOf, Ahead
  <1>11. 1 \in Nat /\ renderer'.faults = renderer.faults + 1 BY <1>8 DEF n
  <1> QED BY <1>1, <1>2, <1>8, <1>9, <1>10, <1>11, KeepsBoth

-----------------------------------------------------------------------------
(* The application of a scene. *)

\* what may be said of the newest scene once it is applied
Apt ==
  {task \in Renderer!Task :
     /\ task.generation <= svc.scene.generation
     /\ task.do \in SourceKinds => Known(svc, task.generation)
     /\ Fits(task.do, task.generation)}

\* What is apt to be said of the scene just applied is sound.
LEMMA AptIsSound ==
  ASSUME NEW q \in Seq(Apt)
  PROVE  q \in Seq(SoundTasks) /\ q \in Seq(Renderer!Task)
  <1>1. \A i \in DOMAIN q : q[i] \in SoundTasks
    BY Queues DEF Apt, SoundTasks, TaskIsSound
  <1>2. q \in Seq(SoundTasks) BY <1>1, SeqOf
  <1> QED BY <1>2, TasksAreTasks

\* The scene handed over asks for a source the renderer may know.
LEMMA SceneIsKnown ==
  ASSUME Good
  PROVE  /\ svc.scene.foregroundID \in Nat
         /\ svc.scene.foregroundID <= svc.scene.generation
         /\ Known(svc, svc.scene.foregroundID)
         /\ svc.scene.hard => svc.scene.foregroundID = 0
         /\ svc.scene.revision \in Nat /\ svc.scene.generation \in Nat
         /\ svc.scene.transportRevision \in Nat /\ svc.scene.seekRevision \in Nat
         /\ svc.scene.paused \in BOOLEAN /\ svc.scene.stage \in BOOLEAN
         /\ svc.scene.background \in Cues \cup {NoCue}
         /\ Known(svc, 0)
  <1>1. /\ svc.scene \in Scene /\ svc.generation \in Nat /\ svc.generation # 0
    BY GoodFacts DEF Good
  <1>2. HandedOver(svc) BY DEF Good
  <1>3. /\ svc.scene.foregroundID \in Nat /\ svc.scene.revision \in Nat
        /\ svc.scene.generation \in Nat
        /\ svc.scene.transportRevision \in Nat /\ svc.scene.seekRevision \in Nat
        /\ svc.scene.paused \in BOOLEAN /\ svc.scene.stage \in BOOLEAN
        /\ svc.scene.background \in Cues \cup {NoCue}
    BY <1>1 DEF Scene, CueRef
  <1>4. /\ svc.scene.foregroundID = svc.foreground.id
        /\ svc.foreground.id <= svc.scene.generation
        /\ svc.scene.generation <= svc.generation
        /\ svc.foreground.id # 0 => ~svc.scene.hard
    BY <1>2 DEF HandedOver
  <1>5. Known(svc, svc.scene.foregroundID)
    BY <1>1, <1>3, <1>4 DEF Known, Waits
  <1>6. Known(svc, 0) BY <1>1 DEF Known, Waits
  <1> QED BY <1>3, <1>4, <1>5, <1>6

\* What the application of a scene has to show.
LEMMA AppliedKeeps ==
  ASSUME Good, svc' = svc, Renderer!Idle, renderer' \in Holder,
         renderer'.applied.revision = svc.scene.revision,
         renderer'.applied.generation = svc.scene.generation,
         renderer'.applied.transportRevision = svc.scene.transportRevision,
         renderer'.stageEnabled => svc.scene.stage,
         renderer'.stoppedPending => svc.scene.foregroundID = 0,
         \/ renderer'.foreground = Renderer!NoPlayer
         \/ /\ renderer'.foreground.id # 0
            /\ renderer'.foreground.id = svc.scene.foregroundID
            /\ renderer'.foreground.paused = svc.scene.paused,
         renderer'.todo \in Seq(Apt), Later(renderer'.todo), events' = events,
         NEW d \in Nat, renderer'.faults = renderer.faults + d,
         Ahead(renderer'.todo) + FaultOf(renderer'.foreground) <= FaultOf(renderer.foreground) + d
  PROVE  Both'
  <1>1. /\ events \in Seq(SoundMessages) /\ Len(events) <= EventLimit
        /\ FaultsIn(events) \in Nat /\ events \in Seq(Message)
    BY GoodFacts
  <1>2. Ahead(renderer.todo) = 0 BY DEF Ahead, Renderer!Idle
  <1>3. FaultsIn(events') + Ahead(renderer'.todo) + FaultOf(renderer'.foreground)
          <= FaultsIn(events) + Ahead(renderer.todo) + FaultOf(renderer.foreground) + d
    BY <1>1, <1>2 DEF Ahead, FaultOf
  <1>4. FaultsAreCounted'
    <2>1. events' \in Seq(Message) BY <1>1
    <2> QED BY <1>3, <2>1, CountedAgain DEF Good, Both
  <1>5. Holding'
    BY SceneIsKnown, NoPlayerRests DEF Holding, Known, Waits
  <1>6. \A i \in DOMAIN renderer'.todo : TaskIsSound(renderer.todo[i])'
    <2> TAKE i \in DOMAIN renderer'.todo
    <2>1. renderer'.todo[i] \in Apt BY Queues
    <2> QED BY <2>1 DEF Apt, TaskIsSound, Fits, Known, Waits
  <1>7. \A i \in DOMAIN events' : EventIsSound(events[i])'
    <2> TAKE i \in DOMAIN events'
    <2>1. events'[i] = events[i] /\ i \in DOMAIN events OBVIOUS
    <2>2. events[i] \in SoundMessages BY <1>1, <2>1, Queues
    <2>3. EventIsSound(events[i]) BY <2>2 DEF SoundMessages
    <2> QED BY <2>1, <2>3 DEF EventIsSound, Fits, Known, Waits
  <1>8. (RendererIsSound <=>
         /\ Holding
         /\ \A i \in DOMAIN renderer.todo : TaskIsSound(renderer.todo[i])
         /\ \A i \in DOMAIN events : EventIsSound(events[i]))'
    BY Halves, PTL
  <1>9. (Renderer!TypeOK <=>
           renderer \in Holder /\ events \in Seq(Message) /\ Len(events) <= EventLimit)'
    BY Halves, PTL
  <1> QED BY <1>1, <1>4, <1>5, <1>6, <1>7, <1>8, <1>9 DEF Both

\* Accepting a scene notes its numbers.
LEMMA AcceptType ==
  ASSUME Good
  PROVE  /\ Renderer!Accept(renderer) \in Holder
         /\ Renderer!Accept(renderer).applied.revision = svc.scene.revision
         /\ Renderer!Accept(renderer).applied.generation = svc.scene.generation
         /\ Renderer!Accept(renderer).applied.transportRevision = svc.scene.transportRevision
         /\ Renderer!Accept(renderer).faults = renderer.faults
         /\ Renderer!Accept(renderer).endedID = renderer.endedID
         /\ Renderer!Accept(renderer).tail = renderer.tail
  <1> DEFINE a == [revision |-> svc.scene.revision, generation |-> svc.scene.generation,
                   transportRevision |-> svc.scene.transportRevision]
             n == svc.scene.revision
  <1>1. /\ a \in Renderer!Applied /\ n \in Nat /\ a.revision = svc.scene.revision
        /\ a.generation = svc.scene.generation
        /\ a.transportRevision = svc.scene.transportRevision
    BY SceneIsKnown DEF Renderer!Applied
  <1>2. renderer \in Holder BY GoodFacts
  <1>3. Renderer!Accept(renderer) = [renderer EXCEPT !.attempted = n, !.applied = a]
    BY DEF Renderer!Accept
  <1> HIDE DEF a, n
  <1> QED BY <1>1, <1>2, <1>3 DEF Holder

\* The steps a new scene is followed by.
LEMMA AptTasks ==
  ASSUME Good
  PROVE  /\ \A do \in {"ready", "finish", "mix"} : Renderer!Do(do, 0) \in Apt
         /\ \A do \in {"stage", "error"} : Renderer!Do(do, svc.scene.generation) \in Apt
         /\ svc.scene.foregroundID = 0 =>
              Renderer!Do("stopped", svc.scene.generation) \in Apt
         /\ Renderer!Do("ended", svc.scene.foregroundID) \in Apt
  BY SceneIsKnown
  DEF Apt, Fits, SourceKinds, Renderer!Do, Renderer!Task, Renderer!EventKinds

\* A scene that was applied before, or is overtaken.
LEMMA ApplyNothingKeeps ==
  ASSUME Good, svc' = svc, Renderer!ApplyNothing
  PROVE  Both'
  <1> DEFINE n == svc.scene.revision
  <1>1. /\ Renderer!Idle /\ events' = events
        /\ renderer' = [renderer EXCEPT !.attempted = n]
    BY DEF Renderer!ApplyNothing, Renderer!Pending
  <1>2. /\ renderer \in Holder /\ renderer.todo \in Seq(SoundTasks) /\ Later(renderer.todo)
    BY GoodFacts
  <1>3. n \in Nat BY SceneIsKnown
  <1> HIDE DEF n
  <1>4. /\ renderer' \in Holder /\ renderer'.applied = renderer.applied
        /\ renderer'.stageEnabled = renderer.stageEnabled
        /\ renderer'.stoppedPending = renderer.stoppedPending
        /\ renderer'.foreground = renderer.foreground
        /\ renderer'.todo = renderer.todo /\ renderer'.faults = renderer.faults
    BY <1>1, <1>2, <1>3 DEF Holder
  <1>5. renderer.faults \in Nat BY <1>2 DEF Holder
  <1>6. renderer'.faults = renderer.faults + 0 BY <1>4, <1>5
  <1>7. Ahead(renderer'.todo) + FaultOf(renderer'.foreground) <= FaultOf(renderer.foreground) + 0
    BY <1>1, <1>4 DEF FaultOf, Ahead, Renderer!Idle
  <1> QED BY <1>1, <1>2, <1>4, <1>6, <1>7, TaskKeeps

\* A hard scene.
LEMMA ApplyHardKeeps ==
  ASSUME Good, svc' = svc, Renderer!ApplyHard
  PROVE  Both'
  <1> DEFINE u == Renderer!TearDown(Renderer!Accept(renderer))
             a == Renderer!Do("stage", svc.scene.generation)
             b == Renderer!Do("stopped", svc.scene.generation)
             q == <<a, b>>
  <1>1. /\ Renderer!Idle /\ events' = events /\ svc.scene.hard
        /\ renderer' = [u EXCEPT !.todo = q]
    BY DEF Renderer!ApplyHard, Renderer!Pending
  <1>2. /\ u \in Holder /\ u.applied.revision = svc.scene.revision
        /\ u.applied.generation = svc.scene.generation
        /\ u.applied.transportRevision = svc.scene.transportRevision
        /\ u.foreground = Renderer!NoPlayer /\ ~u.stageEnabled /\ ~u.stoppedPending
        /\ u.faults = renderer.faults
    BY AcceptType, TornDown
  <1>3. a \in Apt /\ b \in Apt /\ a.do = "stage" /\ b.do = "stopped"
    BY <1>1, SceneIsKnown, AptTasks DEF Renderer!Do
  <1> HIDE DEF a, b, u
  <1>4. q \in Seq(Apt) BY <1>3
  <1>5. Later(q) /\ Ahead(q) = 0
    <2>1. a \in SoundTasks /\ b \in SoundTasks
      BY <1>3 DEF Apt, SoundTasks, TaskIsSound
    <2> QED BY <1>3, <2>1, FewTasks DEF FaultSteps
  <1>6. q \in Seq(Renderer!Task) BY <1>4, AptIsSound
  <1> HIDE DEF q
  <1>7. /\ renderer' \in Holder /\ renderer'.applied = u.applied
        /\ renderer'.stageEnabled = u.stageEnabled
        /\ renderer'.stoppedPending = u.stoppedPending
        /\ renderer'.foreground = u.foreground
        /\ renderer'.todo = q /\ renderer'.faults = u.faults
    BY <1>1, <1>2, <1>6 DEF Holder
  <1>8. renderer.faults \in Nat
    <2>1. renderer \in Holder BY GoodFacts
    <2> QED BY <2>1 DEF Holder
  <1>9. renderer'.faults = renderer.faults + 0 BY <1>2, <1>7, <1>8
  <1>10. Ahead(renderer'.todo) + FaultOf(renderer'.foreground) <= FaultOf(renderer.foreground) + 0
    BY <1>2, <1>5, <1>7, NoPlayerRests DEF FaultOf
  <1> QED BY <1>1, <1>2, <1>4, <1>5, <1>7, <1>9, <1>10, AppliedKeeps

\* A scene that asks for a stage where there is no display.
LEMMA ApplyWithoutDisplayKeeps ==
  ASSUME Good, svc' = svc, Renderer!ApplyWithoutDisplay
  PROVE  Both'
  <1> DEFINE u == Renderer!TearDown(Renderer!Accept(renderer))
             n == renderer.faults + 1
             a == Renderer!Do("error", svc.scene.generation)
             q == <<a>>
  <1>1. /\ Renderer!Idle /\ events' = events /\ renderer.faults < MaxFaults
        /\ renderer' = [u EXCEPT !.faults = @ + 1, !.todo = q]
    BY DEF Renderer!ApplyWithoutDisplay, Renderer!Pending
  <1>2. /\ u \in Holder /\ u.applied.revision = svc.scene.revision
        /\ u.applied.generation = svc.scene.generation
        /\ u.applied.transportRevision = svc.scene.transportRevision
        /\ u.foreground = Renderer!NoPlayer /\ ~u.stageEnabled /\ ~u.stoppedPending
        /\ u.faults = renderer.faults
    BY AcceptType, TornDown
  <1>3. n \in 0 .. MaxFaults /\ renderer.faults \in Nat BY <1>1, ANewFault
  <1>4. a \in Apt /\ a.do = "error" BY AptTasks DEF Renderer!Do
  <1>5. renderer' = [u EXCEPT !.faults = n, !.todo = q] BY <1>1, <1>2 DEF Holder
  <1> HIDE DEF a, u, n
  <1>6. q \in Seq(Apt) BY <1>4
  <1>7. Later(q) /\ Ahead(q) = 1
    <2>1. a \in SoundTasks BY <1>4 DEF Apt, SoundTasks, TaskIsSound
    <2> QED BY <1>4, <2>1, FewTasks DEF FaultSteps
  <1>8. q \in Seq(Renderer!Task) BY <1>6, AptIsSound
  <1> HIDE DEF q
  <1>9. /\ renderer' \in Holder /\ renderer'.applied = u.applied
        /\ renderer'.stageEnabled = u.stageEnabled
        /\ renderer'.stoppedPending = u.stoppedPending
        /\ renderer'.foreground = u.foreground
        /\ renderer'.todo = q /\ renderer'.faults = n
    BY <1>2, <1>3, <1>5, <1>8 DEF Holder
  <1>10. 1 \in Nat /\ renderer'.faults = renderer.faults + 1 BY <1>9 DEF n
  <1>11. Ahead(renderer'.todo) + FaultOf(renderer'.foreground) <= FaultOf(renderer.foreground) + 1
    BY <1>2, <1>7, <1>9, NoPlayerRests DEF FaultOf
  <1> QED BY <1>1, <1>2, <1>6, <1>7, <1>9, <1>10, <1>11, AppliedKeeps

\* The player of an applied scene is the one it asks for, with its intent, or none.
LEMMA ChosenPlayer ==
  ASSUME Good
  PROVE  LET player == Renderer!Transport(Renderer!Choose(svc.scene), svc.scene) IN
         /\ player \in Renderer!Player
         /\ \/ player = Renderer!NoPlayer
            \/ /\ player.id # 0 /\ player.id = svc.scene.foregroundID
               /\ player.paused = svc.scene.paused
         /\ FaultOf(player) <= FaultOf(renderer.foreground)
  <1> DEFINE p == Renderer!Choose(svc.scene)
             t == Renderer!Transport(p, svc.scene)
  <1>1. /\ renderer.foreground \in Renderer!Player /\ Holding BY GoodFacts
  <1>2. /\ svc.scene.foregroundID \in Nat /\ svc.scene.paused \in BOOLEAN
        /\ svc.scene.transportRevision \in Nat /\ svc.scene.seekRevision \in Nat
    BY SceneIsKnown
  <1>3. \A id \in Nat : /\ Renderer!NewPlayer(id) \in Renderer!Player
                        /\ Renderer!NewPlayer(id).id = id
                        /\ ~Renderer!NewPlayer(id).failed
    BY DEF Renderer!NewPlayer, Renderer!Player
  <1>4. \/ p = renderer.foreground /\ p.id = svc.scene.foregroundID
        \/ p = Renderer!NoPlayer
        \/ p = Renderer!NewPlayer(svc.scene.foregroundID)
    BY DEF Renderer!Choose
  <1> HIDE DEF p
  <1>5. p \in Renderer!Player /\ p.id \in {0, svc.scene.foregroundID}
    BY <1>1, <1>2, <1>3, <1>4, NoPlayerRests
  <1>6. FaultOf(p) <= FaultOf(renderer.foreground)
    BY <1>2, <1>3, <1>4, NoPlayerRests DEF FaultOf
  <1>7. p.id = 0 => p = Renderer!NoPlayer
    BY <1>1, <1>2, <1>3, <1>4 DEF Holding, Renderer!NoPlayer
  <1> DEFINE Chosen == /\ t \in Renderer!Player
                       /\ \/ t = Renderer!NoPlayer
                          \/ /\ t.id # 0 /\ t.id = svc.scene.foregroundID
                             /\ t.paused = svc.scene.paused
                       /\ FaultOf(t) <= FaultOf(renderer.foreground)
  <1>8. ASSUME p.id = 0 PROVE Chosen
    <2>1. t = p BY <1>8 DEF Renderer!Transport
    <2> QED BY <1>5, <1>6, <1>7, <1>8, <2>1
  <1>9. ASSUME p.id # 0 PROVE Chosen
    <2>1. t = [p EXCEPT !.paused = svc.scene.paused,
                        !.transportRevision = svc.scene.transportRevision,
                        !.seekRevision = svc.scene.seekRevision,
                        !.seeking = @ /\ p.seekRevision = svc.scene.seekRevision,
                        !.reported = @ /\ p.transportRevision = svc.scene.transportRevision
                                       /\ p.paused = svc.scene.paused,
                        !.rate = @ /\ ~svc.scene.paused, !.running = @ /\ ~svc.scene.paused]
      BY <1>9 DEF Renderer!Transport
    <2>2. /\ t \in Renderer!Player /\ t.id = p.id /\ t.paused = svc.scene.paused
          /\ t.failed = p.failed
      BY <1>2, <1>5, <2>1 DEF Renderer!Player
    <2> QED BY <1>5, <1>6, <1>9, <2>2 DEF FaultOf
  <1>10. Chosen BY <1>8, <1>9
  <1> QED BY <1>10 DEF p

\* The background of an applied scene is well formed.
LEMMA ChosenBackground ==
  ASSUME Good
  PROVE  Renderer!ChooseBackground(svc.scene) \in Renderer!Background
  <1>1. renderer \in Holder BY GoodFacts
  <1>2. renderer.background \in Renderer!Background BY <1>1 DEF Holder
  <1>3. svc.scene.background \in Cues \cup {NoCue} BY SceneIsKnown
  <1> QED BY <1>2, <1>3
       DEF Renderer!ChooseBackground, Renderer!Background, Renderer!NoBackground

\* The steps of a scene that is not hard.
LEMMA SceneSteps ==
  ASSUME Good, NEW q, q = <<Renderer!Do("ready", 0), Renderer!Do("mix", 0),
                            Renderer!Do("stage", svc.scene.generation)>>
                            \o Renderer!Reminder(svc.scene)
  PROVE  q \in Seq(Apt) /\ Later(q) /\ Ahead(q) = 0
  <1> DEFINE Harmless == {task \in Apt : task.do \notin FaultSteps}
             a == Renderer!Do("ready", 0)
             b == Renderer!Do("mix", 0)
             c == Renderer!Do("stage", svc.scene.generation)
             d == Renderer!Do("ended", svc.scene.foregroundID)
  <1>1. a \in Harmless /\ b \in Harmless /\ c \in Harmless /\ d \in Harmless
    BY AptTasks DEF Renderer!Do, FaultSteps
  <1>2. Renderer!Reminder(svc.scene) = <<>> \/ Renderer!Reminder(svc.scene) = <<d>>
    BY DEF Renderer!Reminder
  <1> HIDE DEF a, b, c, d
  <1>3. <<a, b, c>> \in Seq(Harmless) /\ <<>> \in Seq(Harmless) /\ <<d>> \in Seq(Harmless)
    BY <1>1
  <1>4. Renderer!Reminder(svc.scene) \in Seq(Harmless) BY <1>2, <1>3
  <1>5. \A x, y \in Seq(Harmless) : x \o y \in Seq(Harmless) OBVIOUS
  <1>6. q \in Seq(Harmless) BY <1>3, <1>4, <1>5 DEF a, b, c
  <1>7. /\ Len(q) \in Nat /\ DOMAIN q = 1 .. Len(q)
        /\ \A i \in DOMAIN q : q[i] \in Harmless
    BY <1>6, Queues
  <1>8. q \in Seq(Apt)
    <2>1. \A i \in DOMAIN q : q[i] \in Apt BY <1>7
    <2> QED BY <1>6, <2>1, SeqOf
  <1>9. q # <<>> => 1 \in DOMAIN q BY <1>6, <1>7
  <1>10. \A i \in DOMAIN q : q[i].do \notin FaultSteps BY <1>7
  <1>11. Later(q)
    <2>1. \A i \in 2 .. Len(q) : i \in DOMAIN q BY <1>7
    <2> QED BY <1>10, <2>1 DEF Later
  <1>12. Ahead(q) = 0 BY <1>9, <1>10 DEF Ahead
  <1> QED BY <1>8, <1>11, <1>12

\* Any other scene.
LEMMA ApplySceneKeeps ==
  ASSUME Good, svc' = svc, Renderer!ApplyScene
  PROVE  Both'
  <1> DEFINE u == Renderer!Accept(renderer)
             player == Renderer!Transport(Renderer!Choose(svc.scene), svc.scene)
             ground == Renderer!ChooseBackground(svc.scene)
             tail(fades) == (u.tail \/ fades) /\ (player.id # 0 => ~player.paused)
             stopped == svc.scene.foregroundID = 0
             q == <<Renderer!Do("ready", 0), Renderer!Do("mix", 0),
                    Renderer!Do("stage", svc.scene.generation)>>
                    \o Renderer!Reminder(svc.scene)
  <1>1. PICK fades \in {FALSE, Renderer!Retires(svc.scene)} :
          /\ Renderer!Idle /\ events' = events
          /\ renderer' = [u EXCEPT !.stageEnabled = svc.scene.stage,
                                   !.stoppedPending = stopped,
                                   !.foreground = player, !.background = ground,
                                   !.tail = (@ \/ fades) /\ (player.id # 0 => ~player.paused),
                                   !.todo = q]
    BY DEF Renderer!ApplyScene, Renderer!Pending
  <1>2. /\ u \in Holder /\ u.applied.revision = svc.scene.revision
        /\ u.applied.generation = svc.scene.generation
        /\ u.applied.transportRevision = svc.scene.transportRevision
        /\ u.faults = renderer.faults
    BY AcceptType
  <1>3. /\ player \in Renderer!Player
        /\ \/ player = Renderer!NoPlayer
           \/ /\ player.id # 0 /\ player.id = svc.scene.foregroundID
              /\ player.paused = svc.scene.paused
        /\ FaultOf(player) <= FaultOf(renderer.foreground)
    BY ChosenPlayer
  <1>4. ground \in Renderer!Background BY ChosenBackground
  <1>5. svc.scene.stage \in BOOLEAN BY SceneIsKnown
  <1>6. q \in Seq(Apt) /\ Later(q) /\ Ahead(q) = 0 BY SceneSteps
  <1>7. q \in Seq(Renderer!Task) BY <1>6, AptIsSound
  <1>8. /\ renderer' = [u EXCEPT !.stageEnabled = svc.scene.stage,
                                 !.stoppedPending = stopped,
                                 !.foreground = player, !.background = ground,
                                 !.tail = tail(fades), !.todo = q]
        /\ tail(fades) \in BOOLEAN /\ stopped \in BOOLEAN
    BY <1>1, <1>2 DEF Holder
  <1> HIDE DEF u, player, ground, tail, q, stopped
  <1>9. /\ renderer' \in Holder /\ renderer'.applied = u.applied
        /\ renderer'.stageEnabled = svc.scene.stage
        /\ renderer'.stoppedPending = stopped
        /\ renderer'.foreground = player
        /\ renderer'.todo = q /\ renderer'.faults = u.faults
    BY <1>2, <1>3, <1>4, <1>5, <1>7, <1>8 DEF Holder
  <1>10. renderer.faults \in Nat
    <2>1. renderer \in Holder BY GoodFacts
    <2> QED BY <2>1 DEF Holder
  <1>11. renderer'.faults = renderer.faults + 0 BY <1>2, <1>9, <1>10
  <1>12. Ahead(renderer'.todo) + FaultOf(renderer'.foreground) <= FaultOf(renderer.foreground) + 0
    BY <1>3, <1>6, <1>9 DEF FaultOf
  <1>13. renderer'.stoppedPending => svc.scene.foregroundID = 0 BY <1>9 DEF stopped
  <1> QED BY <1>1, <1>2, <1>3, <1>6, <1>9, <1>11, <1>12, <1>13, AppliedKeeps

\* Every action of the renderer.
LEMMA RendererKeeps ==
  ASSUME Good, svc' = svc, Renderer!Next
  PROVE  Both'
  BY ApplyNothingKeeps, ApplyHardKeeps, ApplyWithoutDisplayKeeps, ApplySceneKeeps,
     StepKeepsBoth, DecodeKeepsPlayer, MixesKeep, ProgressesKeeps,
     PlayerFailsKeeps, BackgroundFailsKeeps, LosesDeviceKeeps, PressEscapeKeeps
  DEF Renderer!Next, Renderer!Apply, Renderer!Decode, Renderer!Fade, Renderer!Faults

-----------------------------------------------------------------------------
(* The invariant of the whole. *)

\* A source the renderer may know stays one, whatever the service selects next.
LEMMA KnownKept ==
  ASSUME svc \in Service, svc' \in Service, Onward(svc, svc'), NEW id \in Nat, Known(svc, id)
  PROVE  Known(svc', id)
  <1>1. svc.generation \in Nat /\ svc'.generation \in Nat BY DEF Service
  <1> QED BY <1>1 DEF Onward, Known

\* What the renderer holds and has said stays sound while the service goes on.
LEMMA StaysSound ==
  ASSUME svc \in Service, svc' \in Service, Onward(svc, svc'), Renderer!TypeOK,
         RendererIsSound, renderer' = renderer,
         events' = events \/ (events # <<>> /\ events' = Tail(events))
  PROVE  RendererIsSound' /\ Renderer!TypeOK'
  <1>1. /\ renderer \in Holder /\ events \in Seq(Message) /\ Len(events) <= EventLimit
        /\ Holding /\ renderer.todo \in Seq(SoundTasks) /\ events \in Seq(SoundMessages)
    BY Halves, SoundQueues
  <1>2. /\ events' \in Seq(Message) /\ Len(events') <= EventLimit
        /\ events' \in Seq(SoundMessages)
    <2>1. CASE events' = events BY <1>1, <2>1
    <2>2. CASE events # <<>> /\ events' = Tail(events)
      <3>1. /\ Tail(events) \in Seq(Message) /\ Tail(events) \in Seq(SoundMessages)
            /\ Len(Tail(events)) = Len(events) - 1 /\ Len(events) \in Nat
        BY <1>1, <2>2, Queues
      <3>2. EventLimit \in Nat BY RendererAssumption
      <3>3. \A m, n, k \in Nat : n = m - 1 /\ m <= k => n <= k OBVIOUS
      <3>4. Len(Tail(events)) \in Nat BY <3>1, Queues
      <3>5. Len(Tail(events)) <= EventLimit BY <1>1, <3>1, <3>2, <3>3, <3>4
      <3> QED BY <2>2, <3>1, <3>5
    <2> QED BY <2>1, <2>2
  <1>3. /\ svc.scene.revision \in Nat /\ svc'.scene.revision \in Nat
        /\ svc.scene.generation \in Nat /\ svc'.scene.generation \in Nat
        /\ svc.scene.transportRevision \in Nat /\ svc'.scene.transportRevision \in Nat
    <2>1. svc.scene \in Scene /\ svc'.scene \in Scene BY DEF Service
    <2> QED BY <2>1 DEF Scene
  <1>4. \/ svc'.scene = svc.scene
        \/ /\ svc.scene.revision < svc'.scene.revision
           /\ svc.scene.generation <= svc'.scene.generation
           /\ svc.scene.transportRevision <= svc'.scene.transportRevision
    BY DEF Onward
  <1>5. /\ renderer.applied.revision \in Nat /\ renderer.applied.generation \in Nat
        /\ renderer.applied.transportRevision \in Nat /\ renderer.foreground.id \in Nat
    BY <1>1 DEF Holder, Renderer!Applied, Renderer!Player
  <1>6. Known(svc', renderer.foreground.id)
    BY <1>1, <1>5, KnownKept DEF Holding
  <1>7. Holding'
    BY <1>1, <1>3, <1>4, <1>5, <1>6, SMTT(30) DEF Holding, Known, Waits
  <1>8. \A task \in SoundTasks : TaskIsSound(task)'
    <2> TAKE task \in SoundTasks
    <2>1. TaskIsSound(task) /\ task.generation \in Nat BY DEF SoundTasks, Renderer!Task
    <2>2. task.do \in SourceKinds => Known(svc', task.generation)
      BY <2>1, KnownKept DEF TaskIsSound
    <2>3. task.generation <= svc'.scene.generation
      BY <1>3, <1>4, <2>1 DEF TaskIsSound
    <2>4. renderer.applied.revision = svc'.scene.revision
            => svc'.scene = svc.scene /\ Fits(task.do, task.generation)
      BY <1>1, <1>3, <1>4, <1>5, <2>1 DEF TaskIsSound, Holding
    <2> QED BY <2>2, <2>3, <2>4 DEF TaskIsSound, Fits, Known, Waits
  <1>9. \A e \in SoundMessages : EventIsSound(e)'
    <2> TAKE e \in SoundMessages
    <2>1. /\ EventIsSound(e) /\ e.generation \in Nat /\ e.sceneRevision \in Nat
          /\ e.transportRevision \in Nat
      BY DEF SoundMessages, Message
    <2>2. CASE e.kind = "escape" BY <2>2 DEF EventIsSound
    <2>3. CASE e.kind # "escape"
      <3>1. e.kind \in SourceKinds => Known(svc', e.generation)
        BY <2>1, <2>3, KnownKept DEF EventIsSound
      <3>2. /\ e.sceneRevision \in 1 .. svc'.scene.revision
            /\ e.generation <= svc'.scene.generation
            /\ e.transportRevision <= svc'.scene.transportRevision
        BY <1>3, <1>4, <2>1, <2>3 DEF EventIsSound
      <3>3. e.sceneRevision = svc'.scene.revision
              => /\ svc'.scene = svc.scene /\ (e.stageEnabled => svc.scene.stage)
                 /\ Fits(e.kind, e.generation)
        BY <1>3, <1>4, <2>1, <2>3 DEF EventIsSound
      <3> QED BY <3>1, <3>2, <3>3 DEF EventIsSound, Fits, Known, Waits
    <2> QED BY <2>2, <2>3
  <1>10. \A i \in DOMAIN renderer'.todo : TaskIsSound(renderer.todo[i])'
    <2> TAKE i \in DOMAIN renderer'.todo
    <2>1. renderer.todo[i] \in SoundTasks BY <1>1, Queues
    <2>2. \A task \in SoundTasks : task = renderer.todo[i] => TaskIsSound(task)'
      BY <1>8
    <2> QED BY <2>1, <2>2 DEF TaskIsSound, Fits, Known, Waits
  <1>11. \A i \in DOMAIN events' : EventIsSound(events[i])'
    <2> TAKE i \in DOMAIN events'
    <2>1. events'[i] \in SoundMessages BY <1>2, Queues
    <2>2. \A e \in SoundMessages : e = events'[i] => EventIsSound(e)' BY <1>9
    <2> QED BY <2>1, <2>2 DEF EventIsSound, Fits, Known, Waits
  <1>12. (RendererIsSound <=>
         /\ Holding
         /\ \A i \in DOMAIN renderer.todo : TaskIsSound(renderer.todo[i])
         /\ \A i \in DOMAIN events : EventIsSound(events[i]))'
    BY Halves, PTL
  <1>13. (Renderer!TypeOK <=>
           renderer \in Holder /\ events \in Seq(Message) /\ Len(events) <= EventLimit)'
    BY Halves, PTL
  <1> QED BY <1>1, <1>2, <1>7, <1>10, <1>11, <1>12, <1>13

\* The parts of SystemInv the lemmas above assume.
LEMMA InvIsGood ==
  ASSUME SystemInv
  PROVE  /\ Good /\ PlaybackInv /\ HandedOver(svc) /\ LoadRests(svc, edit)
         /\ Renderer!TypeOK /\ RendererIsSound /\ FaultsAreCounted /\ TypeOK
  <1>1. svc \in Service /\ svc.generation # 0
    <2>1. PlaybackInv BY DEF SystemInv
    <2> QED BY <2>1, PartsHold
  <1> QED BY <1>1 DEF SystemInv, SystemTypeOK, Good, Both

\* The invariant of playback holds the types.
LEMMA InvTypes == PlaybackInv => TypeOK /\ svc \in Service
  BY DEF PlaybackInv, ReservationInv, TypeOK

\* The service's half of the invariant in the next state.
LEMMA HandoverKept ==
  ASSUME PlaybackInv, HandedOver(svc), Follows(svc, svc'), LoadRests(svc', edit'), PlaybackInv'
  PROVE  (PlaybackInv /\ HandedOver(svc) /\ LoadRests(svc, edit) /\ TypeOK)'
         /\ Onward(svc, svc') /\ svc \in Service /\ svc' \in Service
  <1>1. HandedOver(svc') /\ Onward(svc, svc') BY DEF Follows
  <1>2. svc \in Service BY PartsHold
  <1>3. (PlaybackInv => TypeOK /\ svc \in Service)'
    BY InvTypes, PTL
  <1> QED BY <1>1, <1>2, <1>3 DEF HandedOver, LoadRests, Resting

\* A critical section of the service leaves the renderer sound.
LEMMA ServiceStepKeeps ==
  ASSUME SystemInv, ByService(Commands \/ Preparation \/ Update \/ Stage \/ Show)
  PROVE  SystemInv'
  <1>1. /\ PlaybackInv /\ HandedOver(svc) /\ LoadRests(svc, edit)
        /\ Renderer!TypeOK /\ RendererIsSound /\ FaultsAreCounted
    BY InvIsGood
  <1>2. /\ Commands \/ Preparation \/ Update \/ Stage \/ Show
        /\ renderer' = renderer /\ events' = events
    BY DEF ByService, rendererVars
  <1>3. Follows(svc, svc') /\ Ticks /\ LoadRests(svc', edit')
    BY <1>1, <1>2, ServiceAdvances DEF Advances
  <1>4. PlaybackInv'
    <2>1. Next BY <1>2 DEF Next
    <2> QED BY <1>1, <2>1, StepSound
  <1>5. /\ (PlaybackInv /\ HandedOver(svc) /\ LoadRests(svc, edit) /\ TypeOK)'
        /\ Onward(svc, svc') /\ svc \in Service /\ svc' \in Service
    BY <1>1, <1>3, <1>4, HandoverKept
  <1>6. RendererIsSound' /\ Renderer!TypeOK' BY <1>1, <1>2, <1>5, StaysSound
  <1>7. FaultsAreCounted'
    <2>1. /\ renderer \in Holder /\ FaultsIn(events) \in Nat
      BY InvIsGood, GoodFacts
    <2>2. Unheard' = Unheard /\ Unheard \in Nat
      BY <1>2, <2>1 DEF Unheard, FaultsIn, FaultAhead, FaultKept
    <2>3. renderer.faults \in Nat BY <2>1 DEF Holder
    <2>4. svc.now \in Nat BY <1>5 DEF Service
    <2>5. MaxInputs \in Nat BY ShowAssumption
    <2>6. Unheard <= renderer.faults /\ svc.now + Unheard <= MaxInputs + renderer.faults
      BY <1>1 DEF FaultsAreCounted
    <2>7. svc'.now + Unheard <= MaxInputs + renderer.faults
      BY <1>3, <2>2, <2>3, <2>4, <2>5, <2>6 DEF Ticks
    <2> QED BY <1>1, <1>2, <2>2, <2>6, <2>7 DEF FaultsAreCounted
  <1> QED BY <1>5, <1>6, <1>7 DEF SystemInv, SystemTypeOK

\* A step of the renderer leaves the service alone.
LEMMA RendererStepKeeps ==
  ASSUME SystemInv, ByRenderer(Renderer!Next)
  PROVE  SystemInv'
  <1>1. Good /\ PlaybackInv /\ HandedOver(svc) /\ LoadRests(svc, edit) /\ TypeOK
    BY InvIsGood
  <1>2. Renderer!Next /\ UNCHANGED vars BY DEF ByRenderer
  <1>3. svc' = svc /\ edit' = edit BY <1>2 DEF vars
  <1>4. Both' BY <1>1, <1>2, <1>3, RendererKeeps
  <1>5. PlaybackInv' BY <1>1, <1>2, StepSound
  <1>6. TypeOK' BY <1>1, <1>2 DEF TypeOK, vars
  <1>7. HandedOver(svc)' /\ LoadRests(svc, edit)'
    BY <1>1, <1>3 DEF HandedOver, LoadRests, Resting
  <1> QED BY <1>4, <1>5, <1>6, <1>7 DEF SystemInv, SystemTypeOK, Both

\* What the service hears, and that a fault it hears of leaves an input.
LEMMA HearsSoundly ==
  ASSUME SystemInv, HearEvent
  PROVE  /\ Head(events) \in Event /\ Head(events).kind # "devices"
         /\ EventIsSound(Head(events)) /\ events # <<>>
         /\ svc' = NativeEvent(IF FromFault(Head(events)) THEN Input(svc) ELSE Enter(svc),
                               Head(events))
         /\ CommandOnly /\ renderer' = renderer /\ events' = Tail(events)
         /\ FaultsIn(events)
              = FaultsIn(Tail(events)) + (IF FromFault(Head(events)) THEN 1 ELSE 0)
         /\ FaultsIn(events) \in Nat /\ FaultsIn(Tail(events)) \in Nat
         /\ FromFault(Head(events)) => svc.now < MaxInputs + MaxFaults
  <1>1. /\ events # <<>> /\ renderer' = renderer /\ events' = Tail(events) /\ CommandOnly
        /\ svc' = NativeEvent(IF FromFault(Head(events)) THEN Input(svc) ELSE Enter(svc),
                              Head(events))
    BY DEF HearEvent, Renderer!Deliver
  <1>2. /\ events \in Seq(SoundMessages) /\ events \in Seq(Message) /\ renderer \in Holder
        /\ FaultsIn(events) \in Nat
    BY InvIsGood, GoodFacts
  <1>3. Head(events) \in SoundMessages /\ Tail(events) \in Seq(Message)
    BY <1>1, <1>2, Queues
  <1>4. /\ Head(events) \in Event /\ Head(events).kind # "devices"
        /\ EventIsSound(Head(events))
    BY <1>3 DEF SoundMessages, Message, Event, Renderer!EventKinds
  <1>5. /\ FaultsIn(events)
             = FaultsIn(Tail(events)) + (IF FromFault(Head(events)) THEN 1 ELSE 0)
        /\ FaultsIn(Tail(events)) \in Nat
    BY <1>1, <1>2, <1>3, FaultsCounted
  <1>6. ASSUME FromFault(Head(events)) PROVE svc.now < MaxInputs + MaxFaults
    <2>1. FaultsIn(events) >= 1 BY <1>2, <1>5, <1>6
    <2>2. Unheard >= 1 /\ Unheard \in Nat BY <1>2, <2>1 DEF Unheard, FaultAhead, FaultKept
    <2>3. renderer.faults \in Nat /\ renderer.faults <= MaxFaults /\ MaxFaults \in Nat
      BY <1>2, RendererAssumption DEF Holder
    <2>4. svc.now \in Nat
      <3>1. svc \in Service BY InvIsGood DEF Good
      <3> QED BY <3>1 DEF Service
    <2>5. svc.now + Unheard <= MaxInputs + renderer.faults
      BY InvIsGood DEF FaultsAreCounted
    <2>6. MaxInputs \in Nat BY ShowAssumption
    <2> QED BY <2>2, <2>3, <2>4, <2>5, <2>6
  <1> QED BY <1>1, <1>2, <1>4, <1>5, <1>6

\* eventLoop passes on a sound event, and a fault is heard once.
LEMMA HearingKeeps ==
  ASSUME SystemInv, HearEvent
  PROVE  SystemInv' /\ Reported
  <1> DEFINE e == Head(events)
             x == IF FromFault(e) THEN 1 ELSE 0
  <1>1. /\ e \in Event /\ e.kind # "devices" /\ EventIsSound(e) /\ events # <<>>
        /\ svc' = NativeEvent(IF FromFault(e) THEN Input(svc) ELSE Enter(svc), e)
        /\ CommandOnly /\ renderer' = renderer /\ events' = Tail(events)
        /\ FaultsIn(events) = FaultsIn(Tail(events)) + x
        /\ FaultsIn(events) \in Nat /\ FaultsIn(Tail(events)) \in Nat
    BY HearsSoundly
  <1>2. /\ PlaybackInv /\ HandedOver(svc) /\ LoadRests(svc, edit)
        /\ Renderer!TypeOK /\ RendererIsSound /\ FaultsAreCounted
    BY InvIsGood
  <1> HIDE DEF e
  <1>3. /\ Follows(svc, svc') /\ LoadRests(svc', edit')
        /\ svc'.now = svc.now + x
        /\ FromFault(e) => SaysFault \/ (SaysEscape /\ ~svc.closed)
        /\ ~FromFault(e) => SaysSo
    BY <1>1, <1>2, Heard
  <1>4. Reported BY <1>1, <1>3 DEF Reported
  <1>5. PlaybackInv'
    <2>1. ReservationInv BY <1>2 DEF PlaybackInv
    <2>2. ReservationInv' BY <1>4, <2>1, ReportedKeeps
    <2> QED BY <1>2, <1>4, <2>2, ReportedSound
  <1>6. /\ (PlaybackInv /\ HandedOver(svc) /\ LoadRests(svc, edit) /\ TypeOK)'
        /\ Onward(svc, svc') /\ svc \in Service /\ svc' \in Service
    BY <1>2, <1>3, <1>5, HandoverKept
  <1>7. RendererIsSound' /\ Renderer!TypeOK' BY <1>1, <1>2, <1>6, StaysSound
  <1>8. FaultsAreCounted'
    <2>1. renderer \in Holder BY InvIsGood, GoodFacts
    <2>2. Unheard' = Unheard - x /\ Unheard \in Nat /\ Unheard' \in Nat
      <3>1. FaultsIn(events') = FaultsIn(events) - x /\ FaultsIn(events') \in Nat
        BY <1>1
      <3>2. FaultAhead' = FaultAhead /\ FaultKept' = FaultKept
            /\ FaultAhead \in Nat /\ FaultKept \in Nat
        BY <1>1 DEF FaultAhead, FaultKept
      <3>3. Unheard' = FaultsIn(events') + FaultAhead' + FaultKept'
        BY DEF Unheard, FaultsIn
      <3>4. Unheard = FaultsIn(events) + FaultAhead + FaultKept BY DEF Unheard
      <3> QED BY <1>1, <3>1, <3>2, <3>3, <3>4
    <2>3. renderer.faults \in Nat BY <2>1 DEF Holder
    <2>4. svc.now \in Nat BY <1>6 DEF Service
    <2>5. MaxInputs \in Nat BY ShowAssumption
    <2>6. Unheard <= renderer.faults /\ svc.now + Unheard <= MaxInputs + renderer.faults
      BY <1>2 DEF FaultsAreCounted
    <2>7. Unheard' <= renderer.faults /\ svc'.now + Unheard' <= MaxInputs + renderer.faults
      BY <1>3, <2>2, <2>3, <2>4, <2>5, <2>6
    <2> QED BY <1>1, <1>2, <2>7 DEF FaultsAreCounted
  <1> QED BY <1>4, <1>6, <1>7, <1>8 DEF SystemInv, SystemTypeOK

\* The invariant holds at the start.
LEMMA SystemStarts ==
  ASSUME SystemInit
  PROVE  SystemInv
  <1>1. Init /\ Renderer!Init BY DEF SystemInit
  <1>2. PlaybackInv BY <1>1, InitSound
  <1>3. HandedOver(svc) /\ LoadRests(svc, edit) /\ svc.now = 0 BY <1>1, InitHandsOver
  <1>4. svc \in Service /\ svc.generation # 0 BY <1>2, PartsHold
  <1>5. /\ svc.scene.revision \in Nat /\ svc.scene.generation \in Nat
        /\ svc.scene.transportRevision \in Nat /\ svc.generation \in Nat
    <2>1. svc.scene \in Scene /\ svc.generation \in Nat BY <1>4 DEF Service
    <2> QED BY <2>1 DEF Scene
  <1>6. events = <<>> /\ renderer.todo = <<>> BY <1>1 DEF Renderer!Init
  <1>7. FaultsIn(events) = 0
    <2>1. {i \in DOMAIN events : FromFault(events[i])} = {} BY <1>6
    <2> QED BY <2>1, FS_EmptySet DEF FaultsIn
  <1>8. Renderer!TypeOK
    <2>1. Renderer!NoBackground \in Renderer!Background
      BY DEF Renderer!NoBackground, Renderer!Background
    <2>2. renderer \in Holder
      <3>1. MaxFaults \in Nat BY RendererAssumption
      <3> QED BY <1>1, <2>1, <3>1, NoPlayerRests DEF Renderer!Init, Holder, Renderer!Applied
    <2>3. events \in Seq(Message) /\ Len(events) = 0 BY <1>6
    <2> QED BY <2>2, <2>3, RendererAssumption, Halves
  <1>9. RendererIsSound
    <2>1. Holding
      BY <1>1, <1>4, <1>5, NoPlayerRests DEF Renderer!Init, Holding, Known, Waits
    <2> QED BY <1>6, <2>1, Halves
  <1>10. FaultsAreCounted
    <2>1. renderer.faults = 0 /\ ~renderer.foreground.failed
      BY <1>1 DEF Renderer!Init, Renderer!NoPlayer, Renderer!NewPlayer
    <2>2. Unheard = 0 BY <1>6, <1>7, <2>1 DEF Unheard, FaultAhead, FaultKept
    <2>3. MaxInputs \in Nat BY ShowAssumption
    <2>4. Len(renderer.todo) = 0 BY <1>6
    <2> QED BY <1>3, <2>1, <2>2, <2>3, <2>4 DEF FaultsAreCounted
  <1>11. TypeOK BY <1>2 DEF PlaybackInv, ReservationInv
  <1> QED BY <1>2, <1>3, <1>8, <1>9, <1>10, <1>11 DEF SystemInv, SystemTypeOK

\* Every step keeps it.
LEMMA SystemKeeps ==
  ASSUME SystemInv, [SystemNext]_systemVars
  PROVE  SystemInv'
  <1>1. CASE SystemNext
    BY <1>1, ServiceStepKeeps, RendererStepKeeps, HearingKeeps DEF SystemNext
  <1>2. CASE UNCHANGED systemVars
    <2>1. UNCHANGED vars /\ renderer' = renderer /\ events' = events
      BY <1>2 DEF systemVars
    <2>2. svc' = svc /\ edit' = edit BY <2>1 DEF vars
    <2>3. /\ PlaybackInv /\ HandedOver(svc) /\ LoadRests(svc, edit) /\ TypeOK
          /\ Renderer!TypeOK /\ RendererIsSound /\ FaultsAreCounted
      BY InvIsGood
    <2>4. PlaybackInv' BY <2>1, <2>3, StepSound
    <2>5. TypeOK' BY <2>1, <2>3 DEF TypeOK, vars
    <2>6. HandedOver(svc)' /\ LoadRests(svc, edit)'
      BY <2>2, <2>3 DEF HandedOver, LoadRests, Resting
    <2>7. Renderer!TypeOK' BY <2>1, <2>2, <2>3 DEF Renderer!TypeOK
    <2>8. RendererIsSound'
      BY <2>1, <2>2, <2>3 DEF RendererIsSound, TaskIsSound, EventIsSound, Fits, Known, Waits
    <2>9. FaultsAreCounted'
      BY <2>1, <2>2, <2>3 DEF FaultsAreCounted, Unheard, FaultsIn, FaultAhead, FaultKept
    <2> QED BY <2>3, <2>4, <2>5, <2>6, <2>7, <2>8, <2>9 DEF SystemInv, SystemTypeOK
  <1> QED BY <1>1, <1>2

\* The service and the macOS renderer keep SystemInv, for every set of cues, every
\* limit of the event queue and every number of inputs and faults: neither side
\* ever holds what the other has not caused (hand-over and reports of bridge_darwin.go).
THEOREM SystemHolds == SystemSpec => []SystemInv
  <1>1. SystemInit => SystemInv BY SystemStarts
  <1>2. SystemInv /\ [SystemNext]_systemVars => SystemInv' BY SystemKeeps
  <1> QED BY <1>1, <1>2, PTL DEF SystemSpec

\* With the renderer of native-scene.m in the place of any renderer, and however many
\* of its faults are heard, phases have their work behind them, no send blocks,
\* acknowledgements are awaited under the newest intent, the scene agrees with the
\* service, selections exist, STAGE OFF is respected and a reserved host is idle.
THEOREM SystemIsSafe ==
  SystemSpec => [](/\ WorkMatchesState /\ NeverWedged /\ AcksAwaited /\ SceneInSync
                   /\ SelectionsExist /\ OffIsRespected /\ ReservedIdle)
  <1>1. PlaybackInv => /\ WorkMatchesState /\ NeverWedged /\ AcksAwaited /\ SceneInSync
                       /\ SelectionsExist /\ OffIsRespected
    BY PartsHold, WorkMatches, SceneMatches, SelectionsMatch
       DEF NeverWedged, AcksAwaited, LoadsAgree, OffIsRespected, OffHonoured
  <1>2. ReservationInv => ReservedIdle BY SettledIsIdle
  <1>3. SystemInv => PlaybackInv /\ ReservationInv BY DEF SystemInv, PlaybackInv
  <1> QED BY <1>1, <1>2, <1>3, SystemHolds, PTL

-----------------------------------------------------------------------------
(* Coordinator with room for every fault: one operator after another. *)

\* The elementary helpers do not read MaxInputs,
LEMMA SameBasics ==
  /\ Abstract!NoJob = NoJob /\ Abstract!NoSource = NoSource
  /\ \A s : /\ Abstract!Enter(s) = Enter(s) /\ Abstract!Input(s) = Input(s)
            /\ Abstract!Changed(s) = Changed(s) /\ Abstract!Invalidate(s) = Invalidate(s)
            /\ Abstract!ClearActive(s) = ClearActive(s)
            /\ Abstract!ClearImage(s) = ClearImage(s) /\ Abstract!Disarm(s) = Disarm(s)
  BY DEF Abstract!NoJob, NoJob, Abstract!NoSource, NoSource,
         Abstract!Enter, Enter, Abstract!Input, Input, Abstract!Changed, Changed,
         Abstract!Invalidate, Invalidate, Abstract!ClearActive, ClearActive,
         Abstract!ClearImage, ClearImage, Abstract!Disarm, Disarm

\* nor do the scenes handed over,
LEMMA SameScenes ==
  \A s, job, hard : /\ Abstract!ApplyScene(s, hard) = ApplyScene(s, hard)
                    /\ Abstract!Arm(s, job) = Arm(s, job)
  BY DEF Abstract!ApplyScene, ApplyScene, Abstract!DesiredScene, DesiredScene,
         Abstract!Arm, Arm

\* nor the helpers that stop,
LEMMA SameStops ==
  /\ \A s, image, hard :
       Abstract!StopForeground(s, image, hard) = StopForeground(s, image, hard)
  /\ \A s : /\ Abstract!Fail(s) = Fail(s) /\ Abstract!StopImage(s) = StopImage(s)
            /\ Abstract!Escape(s) = Escape(s)
  <1>1. /\ \A s, image, hard :
             Abstract!StopForeground(s, image, hard) = StopForeground(s, image, hard)
        /\ \A s : Abstract!Fail(s) = Fail(s)
    BY SameBasics, SameScenes
    DEF Abstract!StopForeground, StopForeground, Abstract!Fail, Fail
  <1>2. \A s : Abstract!StopImage(s) = StopImage(s) /\ Abstract!Escape(s) = Escape(s)
    BY <1>1, SameBasics, SameScenes
    DEF Abstract!StopImage, StopImage, Abstract!Escape, Escape
  <1> QED BY <1>1, <1>2

\* nor transport,
LEMMA SameTransport ==
  \A s : /\ (Abstract!CanPause(s) <=> CanPause(s)) /\ (Abstract!CanSeek(s) <=> CanSeek(s))
         /\ \A paused : Abstract!SetPaused(s, paused) = SetPaused(s, paused)
         /\ Abstract!SetPosition(s) = SetPosition(s)
  <1>1. \A s : (Abstract!CanPause(s) <=> CanPause(s)) /\ (Abstract!CanSeek(s) <=> CanSeek(s))
    BY DEF Abstract!CanPause, CanPause, Abstract!CanSeek, CanSeek
  <1>2. \A s, paused : Abstract!SetPaused(s, paused) = SetPaused(s, paused)
    BY DEF Abstract!SetPaused, SetPaused, Abstract!ApplyScene, ApplyScene,
           Abstract!DesiredScene, DesiredScene, Abstract!Changed, Changed
  <1>3. \A s : Abstract!SetPosition(s) = SetPosition(s)
    BY DEF Abstract!SetPosition, SetPosition, Abstract!ApplyScene, ApplyScene,
           Abstract!DesiredScene, DesiredScene, Abstract!Changed, Changed
  <1> QED BY <1>1, <1>2, <1>3

\* nor selections,
LEMMA SameSelections ==
  /\ \A s, cue : /\ Abstract!SelectForeground(s, cue) = SelectForeground(s, cue)
                 /\ Abstract!SelectImage(s, cue) = SelectImage(s, cue)
  /\ \A s, cues, id : Abstract!SelectBackground(s, cues, id) = SelectBackground(s, cues, id)
  /\ \A s, show : Abstract!ClearBackgroundOverride(s, show) = ClearBackgroundOverride(s, show)
  <1>1. \A s, cue : Abstract!SelectForeground(s, cue) = SelectForeground(s, cue)
    BY SameBasics
    DEF Abstract!SelectForeground, SelectForeground, Abstract!SendLoad, SendLoad
  <1>2. \A s, cue : Abstract!SelectImage(s, cue) = SelectImage(s, cue)
    BY SameBasics DEF Abstract!SelectImage, SelectImage
  <1>3. \A s, cues, id :
          Abstract!SelectBackground(s, cues, id) = SelectBackground(s, cues, id)
    BY DEF Abstract!SelectBackground, SelectBackground, Abstract!ApplyScene, ApplyScene,
           Abstract!DesiredScene, DesiredScene, Abstract!NoJob, NoJob
  <1>4. \A s, show :
          Abstract!ClearBackgroundOverride(s, show) = ClearBackgroundOverride(s, show)
    BY <1>3 DEF Abstract!ClearBackgroundOverride, ClearBackgroundOverride
  <1> QED BY <1>1, <1>2, <1>3, <1>4

\* nor what a worker commits,
LEMMA SameCommits ==
  \A s, job : /\ Abstract!CommitAsImage(s, job) = CommitAsImage(s, job)
              /\ \A kind : Abstract!CommitForeground(s, job, kind)
                             = CommitForeground(s, job, kind)
              /\ Abstract!CommitVisual(s, job) = CommitVisual(s, job)
  <1>1. \A s, job : Abstract!CommitAsImage(s, job) = CommitAsImage(s, job)
    BY SameBasics, SameScenes DEF Abstract!CommitAsImage, CommitAsImage
  <1>2. \A s, job, kind : Abstract!CommitForeground(s, job, kind)
                            = CommitForeground(s, job, kind)
    BY SameBasics, SameScenes DEF Abstract!CommitForeground, CommitForeground
  <1>3. \A s, job : Abstract!CommitVisual(s, job) = CommitVisual(s, job)
    BY SameBasics, SameScenes DEF Abstract!CommitVisual, CommitVisual
  <1> QED BY <1>1, <1>2, <1>3

\* nor what an event does.
LEMMA SameEvents ==
  \A s, e : Abstract!NativeEvent(s, e) = NativeEvent(s, e)
  <1>1. \A s, e : /\ Abstract!Fresh(s, e) <=> Fresh(s, e)
                  /\ Abstract!GlobalError(s, e) <=> GlobalError(s, e)
                  /\ Abstract!Lost(s, e) <=> Lost(s, e)
                  /\ Abstract!NoteStage(s, e) = NoteStage(s, e)
    BY DEF Abstract!Fresh, Fresh, Abstract!Expected, Expected,
           Abstract!GlobalError, GlobalError, Abstract!Lost, Lost,
           Abstract!NoteStage, NoteStage
  <1>2. \A s, e : Abstract!Follow(s, e) = Follow(s, e)
    BY SameStops
    DEF Abstract!Follow, Follow, Abstract!ApplyScene, ApplyScene,
        Abstract!DesiredScene, DesiredScene, Abstract!Changed, Changed,
        Abstract!ClearActive, ClearActive, Abstract!NoSource, NoSource,
        Abstract!NoJob, NoJob
  <1>3. \A s, e : Abstract!NativeEvent(s, e) = NativeEvent(s, e)
    BY <1>1, <1>2, SameBasics, SameStops DEF Abstract!NativeEvent, NativeEvent
  <1> QED BY <1>3

\* Coordinator has an input left for every fault as well.
LEMMA MoreInputs ==
  ASSUME svc \in Service
  PROVE  InputLeft => Abstract!InputLeft
  <1>1. MaxInputs \in Nat /\ MaxFaults \in Nat /\ svc.now \in Nat
    BY ShowAssumption, RendererAssumption DEF Service
  <1>2. svc.now < MaxInputs => svc.now < MaxInputs + MaxFaults
    BY <1>1
  <1> QED BY <1>2 DEF InputLeft, Abstract!InputLeft

\* What a command asks for is what Coordinator's asks for.
LEMMA SameGuards ==
  ASSUME svc \in Service
  PROVE
  /\ \A epoch : Admitted(epoch) => Abstract!Admitted(epoch)
  /\ \A cue : /\ Abstract!Unblocked(cue) <=> Unblocked(cue)
              /\ Abstract!TogglesImage(cue) <=> TogglesImage(cue)
              /\ Abstract!TogglesForeground(cue) <=> TogglesForeground(cue)
              /\ Abstract!TogglesBackground(cue) <=> TogglesBackground(cue)
              /\ Abstract!Selects(cue) <=> Selects(cue)
              /\ Abstract!KnownImage(cue) <=> KnownImage(cue)
  /\ \A epoch, cue : Pressed(epoch, cue) => Abstract!Pressed(epoch, cue)
  /\ \A cue, generation, revision :
       Abstract!Current(cue, generation, revision) <=> Current(cue, generation, revision)
  /\ Abstract!Epochs = Epochs /\ (Abstract!CommandOnly <=> CommandOnly)
  /\ \A s : Abstract!Halted(s) = Halted(s)
  <1>1. \A epoch : Admitted(epoch) => Abstract!Admitted(epoch)
    BY MoreInputs DEF Admitted, Abstract!Admitted
  <1>2. \A cue : /\ Abstract!Unblocked(cue) <=> Unblocked(cue)
                 /\ Abstract!TogglesImage(cue) <=> TogglesImage(cue)
                 /\ Abstract!TogglesForeground(cue) <=> TogglesForeground(cue)
                 /\ Abstract!TogglesBackground(cue) <=> TogglesBackground(cue)
                 /\ Abstract!KnownImage(cue) <=> KnownImage(cue)
    BY DEF Abstract!Unblocked, Unblocked, Abstract!TogglesImage, TogglesImage,
           Abstract!TogglesForeground, TogglesForeground,
           Abstract!TogglesBackground, TogglesBackground, Abstract!KnownImage, KnownImage
  <1>3. \A cue : Abstract!Selects(cue) <=> Selects(cue)
    BY <1>2 DEF Abstract!Selects, Selects
  <1>4. \A epoch, cue : Pressed(epoch, cue) => Abstract!Pressed(epoch, cue)
    BY <1>1, <1>2 DEF Pressed, Abstract!Pressed
  <1>5. \A cue, generation, revision :
          Abstract!Current(cue, generation, revision) <=> Current(cue, generation, revision)
    BY DEF Abstract!Current, Current
  <1>6. Abstract!Epochs = Epochs /\ (Abstract!CommandOnly <=> CommandOnly)
    BY DEF Abstract!Epochs, Epochs, Abstract!CommandOnly, CommandOnly,
           Abstract!workers, workers
  <1>7. \A s : Abstract!Halted(s) = Halted(s) BY DEF Abstract!Halted, Halted
  <1> QED BY <1>1, <1>2, <1>3, <1>4, <1>5, <1>6, <1>7

\* Commands are Coordinator's commands;
LEMMA SameCommands ==
  ASSUME svc \in Service
  PROVE  Commands => Abstract!Commands
  <1> USE SameGuards, MoreInputs, SameBasics, SameScenes, SameStops, SameTransport,
          SameSelections
  <1>1. SetMasterVolume => Abstract!SetMasterVolume
    BY DEF SetMasterVolume, Abstract!SetMasterVolume
  <1>2. PauseOrResume => Abstract!PauseOrResume
    BY DEF PauseOrResume, Abstract!PauseOrResume
  <1>3. Seek => Abstract!Seek BY DEF Seek, Abstract!Seek
  <1>4. PressImageAgain => Abstract!PressImageAgain
    BY DEF PressImageAgain, Abstract!PressImageAgain
  <1>5. PressForegroundAgain => Abstract!PressForegroundAgain
    BY DEF PressForegroundAgain, Abstract!PressForegroundAgain
  <1>6. PressBackgroundAgain => Abstract!PressBackgroundAgain
    BY DEF PressBackgroundAgain, Abstract!PressBackgroundAgain
  <1>7. PressBackground => Abstract!PressBackground
    BY DEF PressBackground, Abstract!PressBackground
  <1>8. PressImage => Abstract!PressImage BY DEF PressImage, Abstract!PressImage
  <1>9. PressForeground => Abstract!PressForeground
    BY DEF PressForeground, Abstract!PressForeground
  <1>10. Stop => Abstract!Stop BY DEF Stop, Abstract!Stop
  <1>11. EmergencyStop => Abstract!EmergencyStop
    BY DEF EmergencyStop, Abstract!EmergencyStop
  <1>12. Close => Abstract!Close BY DEF Close, Abstract!Close
  <1> QED BY <1>1, <1>2, <1>3, <1>4, <1>5, <1>6, <1>7, <1>8, <1>9, <1>10, <1>11, <1>12
          DEF Commands, Abstract!Commands

\* preparations are Coordinator's;
LEMMA SamePreparation ==
  ASSUME svc \in Service
  PROVE  Preparation => Abstract!Preparation
  <1> USE SameBasics, SameScenes, SameStops, SameCommits
  <1>1. /\ \A cue, found : /\ Abstract!Remember(cue, found) = Remember(cue, found)
                           /\ Abstract!RememberVisual(cue, found) = RememberVisual(cue, found)
        /\ Abstract!Findings = Findings /\ Abstract!Kinds = Kinds
    BY DEF Abstract!Remember, Remember, Abstract!RememberVisual, RememberVisual,
           Abstract!Findings, Findings, Abstract!Kinds, Kinds
  <1>2. \A job : /\ Abstract!LoadIsCurrent(job) <=> LoadIsCurrent(job)
                 /\ Abstract!ImageIsCurrent(job) <=> ImageIsCurrent(job)
                 /\ Abstract!BackgroundIsCurrent(job) <=> BackgroundIsCurrent(job)
    BY DEF Abstract!LoadIsCurrent, LoadIsCurrent, Abstract!ImageIsCurrent, ImageIsCurrent,
           Abstract!BackgroundIsCurrent, BackgroundIsCurrent
  <1>3. TakeLoad => Abstract!TakeLoad BY DEF TakeLoad, Abstract!TakeLoad
  <1>4. FinishLoad => Abstract!FinishLoad
    BY <1>1, <1>2 DEF FinishLoad, Abstract!FinishLoad
  <1>5. DropLoad => Abstract!DropLoad BY <1>2 DEF DropLoad, Abstract!DropLoad
  <1>6. TakeImage => Abstract!TakeImage BY DEF TakeImage, Abstract!TakeImage
  <1>7. FinishImage => Abstract!FinishImage
    BY <1>1, <1>2 DEF FinishImage, Abstract!FinishImage
  <1>8. DropImage => Abstract!DropImage BY <1>2 DEF DropImage, Abstract!DropImage
  <1>9. TakeBackground => Abstract!TakeBackground
    BY DEF TakeBackground, Abstract!TakeBackground
  <1>10. FinishBackground => Abstract!FinishBackground
    BY <1>1, <1>2 DEF FinishBackground, Abstract!FinishBackground
  <1>11. DropBackground => Abstract!DropBackground
    BY <1>2 DEF DropBackground, Abstract!DropBackground
  <1> QED BY <1>3, <1>4, <1>5, <1>6, <1>7, <1>8, <1>9, <1>10, <1>11
          DEF Preparation, Abstract!Preparation

\* the update reservation is;
LEMMA SameUpdate ==
  ASSUME svc \in Service
  PROVE  Update => Abstract!Update
  <1> USE SameGuards, MoreInputs, SameBasics
  <1>1. Abstract!NoEdit = NoEdit BY DEF Abstract!NoEdit, NoEdit
  <1>2. ReserveUpdate => Abstract!ReserveUpdate
    BY <1>1 DEF ReserveUpdate, Abstract!ReserveUpdate
  <1>3. ReleaseUpdate => Abstract!ReleaseUpdate
    BY DEF ReleaseUpdate, Abstract!ReleaseUpdate
  <1> QED BY <1>2, <1>3 DEF Update, Abstract!Update

\* the stage is;
LEMMA SameStage ==
  ASSUME svc \in Service
  PROVE  Stage => Abstract!Stage
  <1> USE SameGuards, MoreInputs, SameBasics, SameScenes
  <1>1. Abstract!workers = workers BY DEF Abstract!workers, workers
  <1>2. StageOff => Abstract!StageOff BY DEF StageOff, Abstract!StageOff
  <1>3. StageOnBegin => Abstract!StageOnBegin
    BY DEF StageOnBegin, Abstract!StageOnBegin, Abstract!workers, workers
  <1>4. StageOnEnd => Abstract!StageOnEnd
    BY DEF StageOnEnd, Abstract!StageOnEnd, Abstract!workers, workers
  <1>5. StageOnRefused => Abstract!StageOnRefused
    BY DEF StageOnRefused, Abstract!StageOnRefused, Abstract!workers, workers
  <1> QED BY <1>2, <1>3, <1>4, <1>5 DEF Stage, Abstract!Stage

\* operations on the saved show are.
LEMMA SameShow ==
  ASSUME svc \in Service
  PROVE  Show => Abstract!Show
  <1> USE SameGuards, MoreInputs, SameBasics, SameScenes, SameStops, SameSelections
          DEF Abstract!workers, workers
  <1>1. Abstract!NoEdit = NoEdit BY DEF Abstract!NoEdit, NoEdit
  <1>2. \A op : Begin(op) => Abstract!Begin(op) BY <1>1 DEF Begin, Abstract!Begin
  <1>3. Refuse => Abstract!Refuse BY <1>1 DEF Refuse, Abstract!Refuse
  <1>4. SaveFailed => Abstract!SaveFailed BY <1>1 DEF SaveFailed, Abstract!SaveFailed
  <1>5. BeginPlaylist => Abstract!BeginPlaylist
    BY <1>2 DEF BeginPlaylist, Abstract!BeginPlaylist
  <1>6. PreparePlaylist => Abstract!PreparePlaylist
    <2>1. \A cues, replaced : Abstract!Removed(cues, replaced) = Removed(cues, replaced)
      BY DEF Abstract!Removed, Removed
    <2> SUFFICES ASSUME PreparePlaylist PROVE Abstract!PreparePlaylist OBVIOUS
    <2>2. PICK kept \in SUBSET config.cues, added \in SUBSET (Cues \ config.used) :
            \E replaced \in SUBSET kept, buttons \in SUBSET (kept \cup added),
               rescale \in BOOLEAN :
              /\ edit.op = "playlist" /\ ~edit.saving
              /\ {svc.activeCue, svc.imageCue, svc.pendingImage}
                   \cap Removed(kept, replaced) = {}
              /\ edit' = [edit EXCEPT
                   !.saving = TRUE, !.cues = kept \cup added, !.buttons = buttons,
                   !.default = IF config.defaultBackground \in Removed(kept, replaced)
                               THEN NoCue ELSE config.defaultBackground,
                   !.rescale = rescale]
              /\ svc' = [Enter(svc) EXCEPT !.removing = Removed(kept, replaced)]
              /\ UNCHANGED <<config, workers, stageCalls>>
      BY DEF PreparePlaylist
    <2>3. PICK replaced \in SUBSET kept, buttons \in SUBSET (kept \cup added),
               rescale \in BOOLEAN :
              /\ edit.op = "playlist" /\ ~edit.saving
              /\ {svc.activeCue, svc.imageCue, svc.pendingImage}
                   \cap Abstract!Removed(kept, replaced) = {}
              /\ edit' = [edit EXCEPT
                   !.saving = TRUE, !.cues = kept \cup added, !.buttons = buttons,
                   !.default = IF config.defaultBackground \in Abstract!Removed(kept, replaced)
                               THEN NoCue ELSE config.defaultBackground,
                   !.rescale = rescale]
              /\ svc' = [Abstract!Enter(svc) EXCEPT !.removing = Abstract!Removed(kept, replaced)]
              /\ UNCHANGED <<config, workers, stageCalls>>
      BY <2>1, <2>2
    <2>4. UNCHANGED <<config, Abstract!workers, stageCalls>>
      BY <2>3
    <2> QED BY <2>3, <2>4, Zenon DEF Abstract!PreparePlaylist
  <1>7. /\ Abstract!EditedConfig = EditedConfig
        /\ Abstract!LosesBackground <=> LosesBackground
    BY DEF Abstract!EditedConfig, EditedConfig, Abstract!LosesBackground, LosesBackground
  <1>8. CommitPlaylist => Abstract!CommitPlaylist
    BY <1>1, <1>7 DEF CommitPlaylist, Abstract!CommitPlaylist
  <1>9. ConfigureOutputs => Abstract!ConfigureOutputs
    BY <1>1 DEF ConfigureOutputs, Abstract!ConfigureOutputs
  <1>10. CommitOutputs => Abstract!CommitOutputs
    BY <1>1 DEF CommitOutputs, Abstract!CommitOutputs
  <1>11. BeginStage => Abstract!BeginStage
    BY <1>2 DEF BeginStage, Abstract!BeginStage
  <1>12. PrepareStage => Abstract!PrepareStage
    BY DEF PrepareStage, Abstract!PrepareStage
  <1>13. CommitStage => Abstract!CommitStage
    BY <1>1 DEF CommitStage, Abstract!CommitStage
  <1>14. Abstract!CanLoadPlaylist <=> CanLoadPlaylist
    BY DEF Abstract!CanLoadPlaylist, CanLoadPlaylist
  <1>15. BeginLoad => Abstract!BeginLoad
    BY <1>2, <1>14 DEF BeginLoad, Abstract!BeginLoad
  <1>16. PrepareLoad => Abstract!PrepareLoad
    BY <1>14 DEF PrepareLoad, Abstract!PrepareLoad
  <1>17. CommitLoad => Abstract!CommitLoad
    BY <1>1 DEF CommitLoad, Abstract!CommitLoad
  <1> QED BY <1>3, <1>4, <1>5, <1>6, <1>8, <1>9, <1>10, <1>11, <1>12, <1>13, <1>15,
             <1>16, <1>17 DEF Show, Abstract!Show

\* The reports Coordinator allows are the same.
LEMMA SameReports ==
  /\ Abstract!SourceReports = SourceReports /\ Abstract!SceneReports = SceneReports
  /\ Abstract!Failures = Failures
  <1>1. \A kinds, ids, revisions :
          Abstract!Reports(kinds, ids, revisions) = Reports(kinds, ids, revisions)
    BY DEF Abstract!Reports, Reports
  <1> QED BY <1>1 DEF Abstract!SourceReports, SourceReports, Abstract!SceneReports,
                      SceneReports, Abstract!Failures, Failures

\* An event heard is a report, a failure or an Escape of Coordinator's renderer.
LEMMA HearingIsNative ==
  ASSUME SystemInv, HearEvent
  PROVE  Abstract!Native
  <1> DEFINE e == Head(events)
  <1>1. /\ e \in Event /\ e.kind # "devices" /\ EventIsSound(e)
        /\ svc' = NativeEvent(IF FromFault(e) THEN Input(svc) ELSE Enter(svc), e)
        /\ CommandOnly
        /\ FromFault(e) => svc.now < MaxInputs + MaxFaults
    BY HearsSoundly
  <1>2. /\ PlaybackInv /\ HandedOver(svc) /\ LoadRests(svc, edit) /\ svc \in Service
    BY InvIsGood, InvTypes
  <1> HIDE DEF e
  <1>3. /\ FromFault(e) => SaysFault \/ (SaysEscape /\ ~svc.closed)
        /\ ~FromFault(e) => SaysSo
    BY <1>1, <1>2, Heard
  <1>4. Abstract!CommandOnly BY <1>1, <1>2, SameGuards
  <1>5. CASE ~FromFault(e)
    <2>1. svc.sceneRevision # 0 BY <1>3, <1>5 DEF SaysSo
    <2>2. PICK x \in SourceReports \cup SceneReports : svc' = NativeEvent(Enter(svc), x)
      BY <1>3, <1>5 DEF SaysSo
    <2>3. /\ x \in Abstract!SourceReports \cup Abstract!SceneReports
          /\ svc' = Abstract!NativeEvent(Abstract!Enter(svc), x)
      BY <2>2, SameReports, SameEvents, SameBasics
    <2>4. Abstract!NativeReport BY <1>4, <2>1, <2>3 DEF Abstract!NativeReport
    <2> QED BY <2>4 DEF Abstract!Native
  <1>6. CASE FromFault(e) /\ SaysFault
    <2>1. Abstract!InputLeft BY <1>1, <1>6 DEF Abstract!InputLeft
    <2>2. svc.sceneRevision # 0 BY <1>6 DEF SaysFault
    <2>3. PICK x \in Failures : svc' = NativeEvent(Input(svc), x) BY <1>6 DEF SaysFault
    <2>4. x \in Abstract!Failures /\ svc' = Abstract!NativeEvent(Abstract!Input(svc), x)
      BY <2>3, SameReports, SameEvents, SameBasics
    <2>5. Abstract!NativeFailure BY <1>4, <2>1, <2>2, <2>4 DEF Abstract!NativeFailure
    <2> QED BY <2>5 DEF Abstract!Native
  <1>7. CASE FromFault(e) /\ SaysEscape /\ ~svc.closed
    <2>1. Abstract!InputLeft BY <1>1, <1>7 DEF Abstract!InputLeft
    <2>2. svc' = Abstract!NativeEvent(Abstract!Input(svc), EscapeEvent)
      BY <1>7, SameEvents, SameBasics DEF SaysEscape
    <2>3. Abstract!NativeEscape
      BY <1>4, <1>7, <2>1, <2>2 DEF Abstract!NativeEscape, EscapeEvent
    <2> QED BY <2>3 DEF Abstract!Native
  <1> QED BY <1>3, <1>5, <1>6, <1>7

\* Initial states are Coordinator's.
LEMMA StartsAsCoordinator ==
  ASSUME SystemInit
  PROVE  Abstract!Init
  <1>1. Init BY DEF SystemInit
  <1>2. Abstract!InitialService = InitialService
    BY SameBasics DEF Abstract!InitialService, InitialService
  <1>3. Abstract!NoEdit = NoEdit BY DEF Abstract!NoEdit, NoEdit
  <1> QED BY <1>1, <1>2, <1>3, SameBasics, SameSelections DEF Abstract!Init, Init

\* Every step is one of Coordinator's or changes none of its variables.
LEMMA StepsAsCoordinator ==
  ASSUME SystemInv, [SystemNext]_systemVars
  PROVE  [Abstract!Next]_(Abstract!vars)
  <1>1. svc \in Service BY InvIsGood, InvTypes
  <1>2. CASE ByService(Commands \/ Preparation \/ Update \/ Stage \/ Show)
    <2>1. Commands \/ Preparation \/ Update \/ Stage \/ Show BY <1>2 DEF ByService
    <2>2. \/ Abstract!Commands \/ Abstract!Preparation \/ Abstract!Update
          \/ Abstract!Stage \/ Abstract!Show
      BY <1>1, <2>1, SameCommands, SamePreparation, SameUpdate, SameStage, SameShow
    <2> QED BY <2>2 DEF Abstract!Next
  <1>3. CASE ByRenderer(Renderer!Next)
    <2>1. vars' = vars BY <1>3 DEF ByRenderer
    <2> QED BY <2>1 DEF vars, workers, Abstract!vars, Abstract!workers
  <1>4. CASE HearEvent
    BY <1>4, HearingIsNative DEF Abstract!Next
  <1>5. CASE UNCHANGED systemVars
    <2>1. vars' = vars BY <1>5 DEF systemVars
    <2> QED BY <2>1 DEF vars, workers, Abstract!vars, Abstract!workers
  <1> QED BY <1>2, <1>3, <1>4, <1>5 DEF SystemNext

\* The refinement CoordinatorSpec: the renderer of native-scene.m, with its queue of
\* tasks, its timers, its decoders and the bounded event queue, never reports what
\* Coordinator's renderer could not; what is proved of Coordinator's playback with
\* any renderer holds with this one.
THEOREM SystemImplementsCoordinator == SystemSpec => CoordinatorSpec
  <1>1. SystemInit => Abstract!Init BY StartsAsCoordinator
  <1>2. SystemInv /\ [SystemNext]_systemVars => [Abstract!Next]_(Abstract!vars)
    BY StepsAsCoordinator
  <1> QED BY <1>1, <1>2, SystemHolds, PTL DEF SystemSpec, CoordinatorSpec, Abstract!Spec

-----------------------------------------------------------------------------
(* What is due. *)

\* an answer waits as a step of the running task, or as an event in the queue
DueStep(kind, id) ==
  AppliedNow /\ \E i \in DOMAIN renderer.todo :
                  renderer.todo[i].do = kind /\ renderer.todo[i].generation = id
DueEvent(kind, id) ==
  \E j \in DOMAIN events :
    OfNewest(events[j]) /\ events[j].kind = kind /\ events[j].generation = id

\* An answer is due in one of the two places.
LEMMA DueSomewhere ==
  /\ \A kind, id : <<kind, id>> \in Due <=> DueStep(kind, id) \/ DueEvent(kind, id)
  /\ Wiped <=> EscapeIsDue \/ \E id : <<"device-lost", id>> \in Due
  <1>1. ASSUME NEW kind, NEW id
        PROVE  <<kind, id>> \in Due <=> DueStep(kind, id) \/ DueEvent(kind, id)
    BY DEF Due, DueStep, DueEvent, Told, Said
  <1>2. \A answer \in Due : answer = <<answer[1], answer[2]>>
    BY DEF Due, Told, Said
  <1>3. (\E answer \in Due : answer[1] = "device-lost") <=> \E id : <<"device-lost", id>> \in Due
    <2>1. ASSUME NEW answer \in Due, answer[1] = "device-lost"
          PROVE  <<"device-lost", answer[2]>> \in Due
      BY <1>2, <2>1
    <2>2. \A id : <<"device-lost", id>>[1] = "device-lost" OBVIOUS
    <2> QED BY <2>1, <2>2
  <1> QED BY <1>1, <1>3 DEF Wiped

\* The same, of the next state.
LEMMA DueThen ==
  (/\ \A kind, id : <<kind, id>> \in Due <=> DueStep(kind, id) \/ DueEvent(kind, id)
   /\ Wiped <=> EscapeIsDue \/ \E id : <<"device-lost", id>> \in Due)'
  BY DueSomewhere, PTL

\* Of a task that loses its first step and gains others before the rest, what followed
\* that step is still there.
LEMMA TailKept ==
  ASSUME NEW S, NEW q \in Seq(S), q # <<>>, NEW steps \in Seq(S)
  PROVE  /\ \A i \in 2 .. Len(q) : \E j \in DOMAIN (steps \o Tail(q)) :
                (steps \o Tail(q))[j] = q[i]
         /\ \A i \in DOMAIN steps : \E j \in DOMAIN (steps \o Tail(q)) :
                (steps \o Tail(q))[j] = steps[i]
         /\ DOMAIN q = 1 .. Len(q) /\ Head(q) = q[1] /\ Len(q) \in Nat
  <1> DEFINE all == steps \o Tail(q)
             m == Len(steps)
             n == Len(q)
  <1>1. /\ m \in Nat /\ n \in Nat \ {0} /\ DOMAIN steps = 1 .. m /\ DOMAIN q = 1 .. n
        /\ Tail(q) \in Seq(S) /\ Len(Tail(q)) = n - 1 /\ Head(q) = q[1]
        /\ \A i \in 1 .. n - 1 : Tail(q)[i] = q[i + 1]
    BY Queues
  <1>2. DOMAIN all = 1 .. m + n - 1 BY <1>1
  <1>3. \A i \in 1 .. m : all[i] = steps[i] BY <1>1
  <1>4. \A i \in m + 1 .. m + n - 1 : all[i] = q[i - m + 1] BY <1>1
  <1> HIDE DEF all, m, n
  <1>5. ASSUME NEW i \in 2 .. n PROVE \E j \in DOMAIN all : all[j] = q[i]
    <2>1. m + i - 1 \in m + 1 .. m + n - 1 /\ (m + i - 1) - m + 1 = i BY <1>1
    <2>2. all[m + i - 1] = q[i] BY <1>4, <2>1
    <2>3. m + i - 1 \in DOMAIN all BY <1>1, <1>2, <2>1
    <2> QED BY <2>2, <2>3
  <1>6. ASSUME NEW i \in DOMAIN steps PROVE \E j \in DOMAIN all : all[j] = steps[i]
    BY <1>1, <1>2, <1>3
  <1> QED BY <1>1, <1>5, <1>6 DEF all, n

-----------------------------------------------------------------------------
(* What a step of the renderer has to show for its belief. *)

\* Under one and the same scene: nothing is dropped but for an escape, and what
\* changes is told.
LEMMA BelievesOn ==
  ASSUME Good, BeliefInv, svc' = svc, edit' = edit,
         renderer'.applied = renderer.applied, renderer'.attempted = renderer.attempted,
         \A i \in DOMAIN events : i \in DOMAIN events' /\ events'[i] = events[i],
         \A i \in DOMAIN events' :
           \/ i \in DOMAIN events \/ events'[i].kind = "escape"
           \/ /\ events'[i].sceneRevision = renderer.applied.revision
              /\ events'[i].transportRevision = renderer.applied.transportRevision
              /\ events'[i].stageEnabled = renderer'.stageEnabled,
         \/ ~AppliedNow \/ svc.closed \/ Wiped'
         \/ \A i \in DOMAIN renderer.todo : renderer.todo[i].do \in Renderer!EventKinds =>
              <<renderer.todo[i].do, renderer.todo[i].generation>> \in Due',
         \/ renderer'.escapedAt = renderer.escapedAt
         \/ renderer'.escapedAt = svc.scene.revision /\ EscapeIsDue',
         renderer'.stageEnabled = renderer.stageEnabled \/ Wiped' \/ ~AppliedNow,
         \/ renderer'.foreground.id = renderer.foreground.id \/ Wiped' \/ ~AppliedNow
         \/ <<"error", renderer.foreground.id>> \in Due'
         \/ <<"ended", renderer.foreground.id>> \in Due',
         renderer.applied.revision = 0 =>
           /\ renderer'.todo = <<>> /\ renderer'.foreground.id = 0
           /\ ~renderer'.stageEnabled /\ ~renderer'.tail
  PROVE  BeliefInv'
  <1>1. /\ Numbered /\ Attempts /\ Trusts(svc) /\ LoadIsDark(svc, edit)
        /\ SourceIsBelieved /\ StageIsBelieved /\ EventsAreTrue
    BY DEF BeliefInv
  <1>2. AppliedNow' <=> AppliedNow BY DEF AppliedNow
  <1>3. \A i \in DOMAIN events' :
          OfNewest(events[i])' <=> events'[i].kind # "escape"
                                    /\ events'[i].sceneRevision = svc.scene.revision
    BY DEF OfNewest
  <1>4. /\ \A kind, id : <<kind, id>> \in Due <=> DueStep(kind, id) \/ DueEvent(kind, id)
        /\ Wiped <=> EscapeIsDue \/ \E id : <<"device-lost", id>> \in Due
    BY DueSomewhere
  <1>5. /\ \A kind, id : <<kind, id>> \in Due' <=> DueStep(kind, id)' \/ DueEvent(kind, id)'
        /\ Wiped' <=> EscapeIsDue' \/ \E id : <<"device-lost", id>> \in Due'
    BY DueThen
  <1>6. EscapeIsDue => EscapeIsDue' BY DEF EscapeIsDue
  <1>7. ASSUME AppliedNow, ~svc.closed, ~Wiped',
               NEW kind \in Renderer!EventKinds, NEW id, <<kind, id>> \in Due
        PROVE  <<kind, id>> \in Due'
    <2>1. CASE DueEvent(kind, id)
      <3>1. DueEvent(kind, id)' BY <2>1 DEF DueEvent, OfNewest
      <3> QED BY <1>5, <3>1
    <2>2. CASE DueStep(kind, id) BY <1>7, <2>2 DEF DueStep
    <2> QED BY <1>4, <1>7, <2>1, <2>2
  <1>8. {"device-lost", "error", "ended", "stage"} \subseteq Renderer!EventKinds
    BY DEF Renderer!EventKinds
  <1>9. ASSUME AppliedNow, ~svc.closed, Wiped PROVE Wiped'
    BY <1>4, <1>5, <1>6, <1>7, <1>8, <1>9
  <1>10. Numbered'
    <2>1. AppliedNow' => /\ renderer'.applied.generation = svc'.scene.generation
                         /\ renderer'.applied.transportRevision = svc'.scene.transportRevision
      BY <1>1, <1>2 DEF Numbered
    <2>2. renderer.applied.revision \in Nat
      BY GoodFacts DEF Holder, Renderer!Applied
    <2>3. ASSUME NEW i \in DOMAIN events'
          PROVE  /\ events'[i].kind # "escape"
                      => events'[i].sceneRevision <= renderer'.applied.revision
                 /\ OfNewest(events[i])'
                      => events'[i].transportRevision = svc'.scene.transportRevision
      <3>1. CASE i \in DOMAIN events BY <1>1, <3>1 DEF Numbered, OfNewest
      <3>2. CASE events'[i].kind = "escape" BY <1>3, <3>2
      <3>3. CASE /\ events'[i].sceneRevision = renderer.applied.revision
                 /\ events'[i].transportRevision = renderer.applied.transportRevision
        BY <1>1, <1>3, <2>2, <3>3 DEF Numbered, AppliedNow
      <3> QED BY <3>1, <3>2, <3>3
    <2> QED BY <2>1, <2>3 DEF Numbered
  <1>11. Attempts'
    <2>1. svc.scene.revision \in Nat
      BY SceneIsKnown DEF Good, HandedOver, Service
    <2>2. EscapeIsDue' => Attempts' 
      BY <1>1, <1>2, <2>1 DEF Attempts
    <2> QED BY <1>1, <1>2, <1>6, <2>1, <2>2 DEF Attempts
  <1>12. Trusts(svc)' /\ LoadIsDark(svc, edit)'
    BY <1>1 DEF Trusts, AskedNow, Waits, LoadIsDark
  <1>13. SourceIsBelieved'
    <2> SUFFICES ASSUME AppliedNow, ~Waits(svc), ~svc.closed, ~Wiped',
                        svc.scene.foregroundID # 0, renderer'.foreground.id = 0
                 PROVE  Gone'
      BY <1>2 DEF SourceIsBelieved, Waits
    <2>1. CASE renderer.foreground.id = 0
      <3>1. Gone BY <1>1, <1>9, <2>1 DEF SourceIsBelieved
      <3> QED BY <1>7, <1>8, <3>1 DEF Gone, Failed
    <2>2. CASE renderer.foreground.id # 0
      <3>1. renderer.foreground.id = svc.scene.foregroundID
        BY <2>2, GoodFacts DEF Holding, AppliedNow
      <3> QED BY <2>2, <3>1 DEF Gone
    <2> QED BY <2>1, <2>2
  <1>14. StageIsBelieved'
    <2> SUFFICES ASSUME AppliedNow, ~Waits(svc), ~svc.closed, ~Wiped',
                        svc.stageEnabled # renderer'.stageEnabled
                 PROVE  <<"stage", svc.scene.generation>> \in Due' \/ Failed'
      BY <1>2 DEF StageIsBelieved, Waits
    <2>1. <<"stage", svc.scene.generation>> \in Due \/ Failed
      BY <1>1, <1>9 DEF StageIsBelieved
    <2> QED BY <1>7, <1>8, <2>1 DEF Failed
  <1>15. EventsAreTrue'
    <2> SUFFICES ASSUME ~svc.closed, ~Wiped', NEW i \in DOMAIN events',
                        events'[i].kind # "escape",
                        events'[i].sceneRevision = svc.scene.revision
                 PROVE  events'[i].stageEnabled = renderer'.stageEnabled
      BY <1>3 DEF EventsAreTrue
    <2>1. AppliedNow
      <3>1. /\ renderer.applied.revision \in Nat /\ renderer.applied.revision <= svc.scene.revision
            /\ svc.scene.revision \in Nat
        BY GoodFacts, SceneIsKnown DEF Holder, Renderer!Applied, Holding
      <3>2. events'[i].sceneRevision <= renderer.applied.revision
        BY <1>10 DEF Numbered
      <3> QED BY <3>1, <3>2 DEF AppliedNow
    <2>2. CASE i \in DOMAIN events
      <3>1. OfNewest(events[i]) BY <2>2 DEF OfNewest
      <3>2. events[i].stageEnabled = renderer.stageEnabled \/ Wiped
        BY <1>1, <2>2, <3>1 DEF EventsAreTrue
      <3> QED BY <1>9, <2>1, <2>2, <3>2
    <2> QED BY <2>2
  <1> QED BY <1>10, <1>11, <1>12, <1>13, <1>14, <1>15 DEF BeliefInv

\* Nothing is said of a scene that is not applied.
LEMMA NothingSaid ==
  ASSUME Good, Numbered, ~AppliedNow
  PROVE  \A i \in DOMAIN events : ~OfNewest(events[i])
  <1>1. /\ renderer.applied.revision \in Nat /\ renderer.applied.revision <= svc.scene.revision
        /\ svc.scene.revision \in Nat /\ events \in Seq(Message)
    BY GoodFacts, SceneIsKnown DEF Holder, Renderer!Applied, Holding
  <1>2. renderer.applied.revision < svc.scene.revision BY <1>1 DEF AppliedNow
  <1> QED BY <1>1, <1>2, Queues DEF Numbered, OfNewest, Message

\* A scene is applied: what it asks for is there, or will be told.
LEMMA BelievesAnew ==
  ASSUME Good, BeliefInv, svc' = svc, edit' = edit, events' = events,
         renderer.attempted < svc.scene.revision, renderer'.attempted = svc.scene.revision,
         renderer.escapedAt # svc.scene.revision, renderer'.escapedAt = renderer.escapedAt,
         renderer'.applied = [revision |-> svc.scene.revision,
                              generation |-> svc.scene.generation,
                              transportRevision |-> svc.scene.transportRevision],
         svc.scene.foregroundID # 0 /\ renderer'.foreground.id = 0 => Gone',
         \/ svc.stageEnabled = renderer'.stageEnabled
         \/ <<"stage", svc.scene.generation>> \in Due' \/ Failed'
  PROVE  BeliefInv'
  <1>1. /\ Numbered /\ Attempts /\ Trusts(svc) /\ LoadIsDark(svc, edit)
    BY DEF BeliefInv
  <1>2. /\ renderer.applied.revision \in Nat /\ renderer.attempted \in Nat
        /\ renderer.escapedAt \in Nat /\ svc.scene.revision \in Nat
    BY GoodFacts, SceneIsKnown DEF Holder, Renderer!Applied
  <1>3. renderer.applied.revision < svc.scene.revision
    BY <1>1, <1>2 DEF Attempts
  <1>4. \A i \in DOMAIN events : ~OfNewest(events[i])
    BY <1>1, <1>2, <1>3, NothingSaid DEF AppliedNow
  <1>5. \A i \in DOMAIN events' : ~OfNewest(events[i])'
    BY <1>4 DEF OfNewest
  <1>6. AppliedNow' BY DEF AppliedNow
  <1>7. Numbered'
    <2>1. events \in Seq(Message) BY GoodFacts
    <2>2. \A i \in DOMAIN events : events[i].sceneRevision \in Nat
      <3>1. \A i \in DOMAIN events : events[i] \in Message BY <2>1, Queues
      <3> QED BY <3>1 DEF Message
    <2> QED BY <1>1, <1>2, <1>3, <1>5, <2>2 DEF Numbered
  <1>8. Attempts' BY <1>1, <1>2, <1>3, <1>6 DEF Attempts
  <1>9. Trusts(svc)' /\ LoadIsDark(svc, edit)'
    BY <1>1 DEF Trusts, AskedNow, Waits, LoadIsDark
  <1>10. SourceIsBelieved' BY DEF SourceIsBelieved
  <1>11. StageIsBelieved' BY DEF StageIsBelieved
  <1>12. EventsAreTrue' BY <1>5 DEF EventsAreTrue
  <1> QED BY <1>7, <1>8, <1>9, <1>10, <1>11, <1>12 DEF BeliefInv

-----------------------------------------------------------------------------
(* Applying a scene. *)

\* Escape came after the scene.
LEMMA ApplyNothingBelieves ==
  ASSUME Good, BeliefInv, svc' = svc, edit' = edit, Renderer!ApplyNothing
  PROVE  BeliefInv'
  <1>1. /\ renderer \in Holder /\ renderer.attempted < svc.scene.revision
        /\ renderer.escapedAt = svc.scene.revision
        /\ renderer' = [renderer EXCEPT !.attempted = svc.scene.revision] /\ events' = events
    BY GoodFacts DEF Renderer!ApplyNothing, Renderer!Pending
  <1>2. /\ renderer'.applied = renderer.applied /\ renderer'.escapedAt = renderer.escapedAt
        /\ renderer'.attempted = svc.scene.revision /\ renderer'.todo = renderer.todo
        /\ renderer'.foreground = renderer.foreground /\ renderer'.tail = renderer.tail
        /\ renderer'.stageEnabled = renderer.stageEnabled
    BY <1>1 DEF Holder
  <1>3. /\ renderer.applied.revision \in Nat /\ renderer.attempted \in Nat
        /\ svc.scene.revision \in Nat
    BY GoodFacts, SceneIsKnown DEF Holder, Renderer!Applied
  <1>4. /\ Numbered /\ Attempts /\ Trusts(svc) /\ LoadIsDark(svc, edit)
    BY DEF BeliefInv
  <1>5. ~AppliedNow /\ ~AppliedNow' BY <1>1, <1>2, <1>3, <1>4 DEF Attempts, AppliedNow
  <1>6. \A i \in DOMAIN events : ~OfNewest(events[i]) BY <1>4, <1>5, NothingSaid
  <1>7. \A i \in DOMAIN events' : ~OfNewest(events[i])' BY <1>1, <1>6 DEF OfNewest
  <1>8. Numbered' BY <1>1, <1>2, <1>4, <1>5, <1>7 DEF Numbered
  <1>9. Attempts' BY <1>1, <1>2, <1>3, <1>4 DEF Attempts, EscapeIsDue
  <1>10. Trusts(svc)' /\ LoadIsDark(svc, edit)'
    BY <1>4 DEF Trusts, AskedNow, Waits, LoadIsDark
  <1> QED BY <1>5, <1>7, <1>8, <1>9, <1>10
          DEF BeliefInv, SourceIsBelieved, StageIsBelieved, EventsAreTrue

\* What is due once a scene is applied.
LEMMA DueAnew ==
  ASSUME svc' = svc, renderer'.applied.revision = svc.scene.revision,
         NEW i \in DOMAIN renderer'.todo, NEW do, NEW n,
         renderer'.todo[i].do = do, renderer'.todo[i].generation = n
  PROVE  <<do, n>> \in Due'
  <1>1. <<do, n>> \in Due' <=> DueStep(do, n)' \/ DueEvent(do, n)' BY DueThen
  <1>2. DueStep(do, n)' BY DEF DueStep, AppliedNow
  <1> QED BY <1>1, <1>2

\* A hard scene has no source, and says what it does with the stage.
LEMMA ApplyHardBelieves ==
  ASSUME Good, BeliefInv, svc' = svc, edit' = edit, Renderer!ApplyHard
  PROVE  BeliefInv'
  <1> DEFINE a == Renderer!Accept(renderer)
             u == Renderer!TearDown(a)
             steps == <<Renderer!Do("stage", svc.scene.generation),
                        Renderer!Do("stopped", svc.scene.generation)>>
  <1>1. /\ renderer.attempted < svc.scene.revision /\ events' = events
        /\ renderer.escapedAt # svc.scene.revision /\ svc.scene.hard
        /\ renderer' = [u EXCEPT !.todo = steps]
    BY DEF Renderer!ApplyHard, Renderer!Pending
  <1>2. renderer \in Holder BY GoodFacts
  <1>3. /\ renderer'.attempted = svc.scene.revision
        /\ renderer'.escapedAt = renderer.escapedAt
        /\ renderer'.applied = [revision |-> svc.scene.revision,
                                generation |-> svc.scene.generation,
                                transportRevision |-> svc.scene.transportRevision]
        /\ renderer'.todo = steps
    BY <1>1, <1>2 DEF Holder, Renderer!Accept, Renderer!TearDown
  <1>4. svc.scene.foregroundID = 0 BY <1>1, SceneIsKnown
  <1>5. <<"stage", svc.scene.generation>> \in Due'
    <2>1. 1 \in DOMAIN steps /\ steps[1].do = "stage" /\ steps[1].generation = svc.scene.generation
      BY DEF Renderer!Do
    <2> HIDE DEF steps
    <2> QED BY <1>3, <2>1, DueAnew
  <1> HIDE DEF u, steps
  <1> QED BY <1>1, <1>3, <1>4, <1>5, BelievesAnew

\* The display is gone: the scene as a whole has failed.
LEMMA ApplyWithoutDisplayBelieves ==
  ASSUME Good, BeliefInv, svc' = svc, edit' = edit, Renderer!ApplyWithoutDisplay
  PROVE  BeliefInv'
  <1> DEFINE a == Renderer!Accept(renderer)
             u == Renderer!TearDown(a)
             n == renderer.faults + 1
             steps == <<Renderer!Do("error", svc.scene.generation)>>
  <1>1. /\ renderer.attempted < svc.scene.revision /\ events' = events
        /\ renderer.escapedAt # svc.scene.revision /\ svc.scene.stage
    BY DEF Renderer!ApplyWithoutDisplay, Renderer!Pending
  <1>2. renderer \in Holder BY GoodFacts
  <1>3. /\ renderer'.attempted = svc.scene.revision
        /\ renderer'.escapedAt = renderer.escapedAt
        /\ renderer'.applied = [revision |-> svc.scene.revision,
                                generation |-> svc.scene.generation,
                                transportRevision |-> svc.scene.transportRevision]
        /\ renderer'.todo = steps
    BY <1>2 DEF Renderer!ApplyWithoutDisplay, Holder, Renderer!Accept, Renderer!TearDown
  <1>4. <<"error", svc.scene.generation>> \in Due'
    <2>1. 1 \in DOMAIN steps /\ steps[1].do = "error" /\ steps[1].generation = svc.scene.generation
      BY DEF Renderer!Do
    <2> HIDE DEF steps
    <2> QED BY <1>3, <2>1, DueAnew
  <1>5. Failed' /\ Gone' BY <1>1, <1>4 DEF Failed, Gone
  <1> QED BY <1>1, <1>3, <1>5, BelievesAnew

\* A scene asks for a player, or is reminded that its source has ended.
LEMMA ApplySceneBelieves ==
  ASSUME Good, BeliefInv, svc' = svc, edit' = edit, Renderer!ApplyScene
  PROVE  BeliefInv'
  <1> DEFINE a == Renderer!Accept(renderer)
             chosen == Renderer!Choose(svc.scene)
             player == Renderer!Transport(chosen, svc.scene)
             first == <<Renderer!Do("ready", 0), Renderer!Do("mix", 0),
                        Renderer!Do("stage", svc.scene.generation)>>
             steps == first \o Renderer!Reminder(svc.scene)
  <1>1. /\ renderer.attempted < svc.scene.revision /\ events' = events
        /\ renderer.escapedAt # svc.scene.revision
    BY DEF Renderer!ApplyScene, Renderer!Pending
  <1>2. renderer \in Holder BY GoodFacts
  <1>3. /\ renderer'.attempted = svc.scene.revision
        /\ renderer'.escapedAt = renderer.escapedAt
        /\ renderer'.applied = [revision |-> svc.scene.revision,
                                generation |-> svc.scene.generation,
                                transportRevision |-> svc.scene.transportRevision]
        /\ renderer'.foreground = player
        /\ renderer'.todo = steps
    <2>1. PICK fades \in {FALSE, Renderer!Retires(svc.scene)} :
            renderer' = [a EXCEPT
              !.stageEnabled = svc.scene.stage,
              !.stoppedPending = svc.scene.foregroundID = 0,
              !.foreground = player,
              !.background = Renderer!ChooseBackground(svc.scene),
              !.tail = (@ \/ fades) /\ (player.id # 0 => ~player.paused),
              !.todo = steps]
      BY DEF Renderer!ApplyScene
    <2> HIDE DEF player, steps
    <2> QED BY <1>2, <2>1 DEF Holder, Renderer!Accept
  <1>4. <<"stage", svc.scene.generation>> \in Due'
    <2>1. 3 \in DOMAIN steps /\ steps[3].do = "stage" /\ steps[3].generation = svc.scene.generation
      BY DEF Renderer!Do, Renderer!Reminder
    <2> HIDE DEF steps
    <2> QED BY <1>3, <2>1, DueAnew
  <1>5. ASSUME svc.scene.foregroundID # 0, player.id = 0
        PROVE  <<"ended", svc.scene.foregroundID>> \in Due'
    <2>1. svc.scene.foregroundID = renderer.endedID
      <3>1. CASE renderer.foreground.id = svc.scene.foregroundID
        <4>1. chosen = renderer.foreground /\ renderer.foreground \in Renderer!Player
          BY <3>1, GoodFacts DEF Renderer!Choose
        <4> QED BY <1>5, <3>1, <4>1 DEF Renderer!Transport, Renderer!Player
      <3>2. CASE renderer.foreground.id # svc.scene.foregroundID
                 /\ svc.scene.foregroundID # renderer.endedID
        BY <1>5, <3>2 DEF Renderer!Choose, Renderer!Transport, Renderer!NewPlayer
      <3> QED BY <3>1, <3>2
    <2>2. Renderer!Reminder(svc.scene) = <<Renderer!Do("ended", svc.scene.foregroundID)>>
      BY <1>5, <2>1 DEF Renderer!Reminder
    <2>3. 4 \in DOMAIN steps /\ steps[4].do = "ended"
          /\ steps[4].generation = svc.scene.foregroundID
      BY <2>2 DEF Renderer!Do
    <2> HIDE DEF steps
    <2> QED BY <1>3, <2>3, DueAnew
  <1> HIDE DEF player, steps
  <1> QED BY <1>1, <1>3, <1>4, <1>5, BelievesAnew DEF Gone

-----------------------------------------------------------------------------
(* Steps of a task. *)

\* A step is due as long as it stands in the task of the scene applied.
LEMMA StillDue ==
  ASSUME svc' = svc, renderer'.applied = renderer.applied, AppliedNow,
         NEW do, NEW n,
         \E j \in DOMAIN renderer'.todo :
           renderer'.todo[j].do = do /\ renderer'.todo[j].generation = n
  PROVE  <<do, n>> \in Due'
  <1>1. DueStep(do, n)' BY DEF DueStep, AppliedNow
  <1> QED BY <1>1, DueThen

\* So is what is said of it.
LEMMA SaidIsDue ==
  ASSUME svc' = svc, NEW do, NEW n,
         \E j \in DOMAIN events' :
           /\ events'[j].kind = do /\ events'[j].generation = n
           /\ events'[j].kind # "escape" /\ events'[j].sceneRevision = svc.scene.revision
  PROVE  <<do, n>> \in Due'
  <1>1. DueEvent(do, n)' BY DEF DueEvent, OfNewest
  <1> QED BY <1>1, DueThen

\* A step that says nothing leaves the rest of its task, and a player that goes
\* leaves word.
LEMMA StepBelieves ==
  ASSUME Good, BeliefInv, svc' = svc, edit' = edit, events' = events, renderer.todo # <<>>,
         Head(renderer.todo).do \notin Renderer!EventKinds,
         NEW steps \in Seq(Renderer!Task), renderer'.todo = steps \o Tail(renderer.todo),
         renderer'.applied = renderer.applied, renderer'.attempted = renderer.attempted,
         renderer'.escapedAt = renderer.escapedAt,
         renderer'.stageEnabled = renderer.stageEnabled,
         \/ renderer'.foreground.id = renderer.foreground.id
         \/ \E j \in DOMAIN steps : /\ steps[j].do \in {"error", "ended"}
                                    /\ steps[j].generation = renderer.foreground.id
  PROVE  BeliefInv'
  <1> DEFINE q == renderer.todo
             all == steps \o Tail(q)
  <1>1. q \in Seq(Renderer!Task) BY GoodFacts DEF Holder
  <1>2. /\ \A i \in 2 .. Len(q) : \E j \in DOMAIN all : all[j] = q[i]
        /\ \A i \in DOMAIN steps : \E j \in DOMAIN all : all[j] = steps[i]
        /\ DOMAIN q = 1 .. Len(q) /\ Head(q) = q[1] /\ Len(q) \in Nat
    BY <1>1, TailKept
  <1>3. renderer'.todo = all OBVIOUS
  <1> HIDE DEF q, all
  <1>4. renderer.applied.revision # 0 BY DEF BeliefInv, Attempts
  <1>5. ASSUME AppliedNow, NEW i \in DOMAIN renderer.todo,
               renderer.todo[i].do \in Renderer!EventKinds
        PROVE  <<renderer.todo[i].do, renderer.todo[i].generation>> \in Due'
    <2>1. i # 1 BY <1>2, <1>5 DEF q
    <2>2. i \in 2 .. Len(q) BY <1>2, <2>1 DEF q
    <2>3. PICK j \in DOMAIN all : all[j] = q[i] BY <1>2, <2>2
    <2> QED BY <1>3, <1>5, <2>3, StillDue DEF q
  <1>6. ASSUME AppliedNow, renderer'.foreground.id # renderer.foreground.id
        PROVE  \/ <<"error", renderer.foreground.id>> \in Due'
               \/ <<"ended", renderer.foreground.id>> \in Due'
    <2>1. PICK k \in DOMAIN steps : /\ steps[k].do \in {"error", "ended"}
                                    /\ steps[k].generation = renderer.foreground.id
      BY <1>6
    <2>2. PICK j \in DOMAIN all : all[j] = steps[k] BY <1>2
    <2> QED BY <1>3, <1>6, <2>1, <2>2, StillDue
  <1> QED BY <1>4, <1>5, <1>6, BelievesOn

\* Overtaken by an Escape that is yet to be heard, or of no more interest.
LEMMA OvertakenBelieves ==
  ASSUME Good, BeliefInv, svc' = svc, edit' = edit, Renderer!StepOvertaken
  PROVE  BeliefInv'
  <1>1. /\ renderer.todo # <<>> /\ ~Renderer!Current /\ events' = events
        /\ renderer' = [renderer EXCEPT !.todo = <<>> \o Tail(renderer.todo)]
    BY DEF Renderer!StepOvertaken, Renderer!Idle, Renderer!Continue
  <1>2. renderer \in Holder BY GoodFacts
  <1>3. /\ renderer'.applied = renderer.applied /\ renderer'.attempted = renderer.attempted
        /\ renderer'.escapedAt = renderer.escapedAt
        /\ renderer'.stageEnabled = renderer.stageEnabled
        /\ renderer'.foreground = renderer.foreground
    BY <1>1, <1>2 DEF Holder
  <1>4. Attempts BY DEF BeliefInv
  <1>5. renderer.applied.revision # 0 BY <1>1, <1>4 DEF Attempts
  <1>6. ASSUME AppliedNow, ~svc.closed PROVE Wiped'
    <2>1. renderer.escapedAt = svc.scene.revision
      BY <1>1, <1>5, <1>6 DEF Renderer!Current, AppliedNow
    <2>2. EscapeIsDue BY <1>4, <1>5, <1>6, <2>1 DEF Attempts, AppliedNow
    <2>3. EscapeIsDue' BY <1>1, <2>2 DEF EscapeIsDue
    <2> QED BY <2>3, DueThen
  <1> QED BY <1>1, <1>3, <1>5, <1>6, BelievesOn

\* emitScene: what stood in the task stands in the queue.
LEMMA EmitBelieves ==
  ASSUME Good, BeliefInv, svc' = svc, edit' = edit, Len(events) < EventLimit,
         Renderer!Emit
  PROVE  BeliefInv'
  <1> DEFINE q == renderer.todo
             event == [kind |-> Head(q).do, generation |-> Head(q).generation,
                       transportRevision |-> renderer.applied.transportRevision,
                       sceneRevision |-> renderer.applied.revision,
                       stageEnabled |-> renderer.stageEnabled]
             rest == Tail(q)
             n == Len(events)
  <1>1. /\ q # <<>> /\ events' = Append(events, event)
        /\ Head(q).do \in Renderer!EventKinds /\ Renderer!Current
        /\ renderer' = [renderer EXCEPT !.todo = <<>> \o rest]
    BY DEF Renderer!Emit, Renderer!Say, Renderer!Queue, Renderer!Idle, Renderer!Continue
  <1>2. renderer \in Holder /\ q \in Seq(Renderer!Task) /\ events \in Seq(Message)
    BY GoodFacts DEF Holder
  <1>3. /\ renderer'.applied = renderer.applied /\ renderer'.attempted = renderer.attempted
        /\ renderer'.escapedAt = renderer.escapedAt
        /\ renderer'.stageEnabled = renderer.stageEnabled
        /\ renderer'.foreground = renderer.foreground /\ renderer'.todo = <<>> \o rest
    BY <1>1, <1>2 DEF Holder
  <1>4. /\ rest \in Seq(Renderer!Task) /\ Len(rest) = Len(q) - 1 /\ Len(q) \in Nat \ {0}
        /\ DOMAIN rest = 1 .. Len(q) - 1 /\ DOMAIN q = 1 .. Len(q) /\ Head(q) = q[1]
        /\ \A i \in 1 .. Len(q) - 1 : rest[i] = q[i + 1]
        /\ Head(q) \in Renderer!Task
    BY <1>1, <1>2, Queues
  <1> HIDE DEF q, event, rest
  <1>5. renderer'.todo = rest BY <1>3, <1>4
  <1>6. event \in Message
    BY <1>1, <1>2, <1>4 DEF Message, Holder, Renderer!Applied, Renderer!Task, event
  <1>7. /\ event.kind = q[1].do /\ event.generation = q[1].generation
        /\ event.sceneRevision = renderer.applied.revision
        /\ event.transportRevision = renderer.applied.transportRevision
        /\ event.stageEnabled = renderer'.stageEnabled
        /\ event.kind # "escape"
    BY <1>1, <1>3, <1>4 DEF Renderer!EventKinds, event
  <1>8. /\ DOMAIN events = 1 .. n /\ DOMAIN events' = 1 .. n + 1 /\ n \in Nat
        /\ \A i \in 1 .. n : events'[i] = events[i]
        /\ events'[n + 1] = event
    BY <1>1, <1>2, <1>6, Queues DEF n
  <1> HIDE DEF n
  <1>9. renderer.applied.revision # 0 BY <1>1 DEF BeliefInv, Attempts, q
  <1>10. ASSUME AppliedNow, NEW i \in DOMAIN renderer.todo,
                renderer.todo[i].do \in Renderer!EventKinds
         PROVE  <<renderer.todo[i].do, renderer.todo[i].generation>> \in Due'
    <2>1. CASE i = 1
      <3>1. n + 1 \in DOMAIN events' BY <1>8
      <3>2. <<q[1].do, q[1].generation>> \in Due'
        BY <1>7, <1>8, <1>10, <3>1, SaidIsDue DEF AppliedNow
      <3> QED BY <2>1, <3>2 DEF q
    <2>2. CASE i # 1
      <3>1. i \in DOMAIN q BY DEF q
      <3>2. i - 1 \in DOMAIN rest /\ rest[i - 1] = q[i] BY <1>4, <2>2, <3>1
      <3> QED BY <1>3, <1>5, <1>10, <3>2, StillDue DEF q
    <2> QED BY <2>1, <2>2
  <1>11. \A i \in DOMAIN events : i \in DOMAIN events' /\ events'[i] = events[i]
    BY <1>8
  <1>12. \A i \in DOMAIN events' :
           \/ i \in DOMAIN events \/ events'[i].kind = "escape"
           \/ /\ events'[i].sceneRevision = renderer.applied.revision
              /\ events'[i].transportRevision = renderer.applied.transportRevision
              /\ events'[i].stageEnabled = renderer'.stageEnabled
    BY <1>7, <1>8
  <1> QED BY <1>3, <1>9, <1>10, <1>11, <1>12, BelievesOn

\* Steps are tasks, whatever they are about.
LEMMA StepsAreTasks ==
  ASSUME NEW do \in Renderer!EventKinds \cup {"ready", "finish", "mix"}, NEW n \in Nat
  PROVE  /\ Renderer!Do(do, n) \in Renderer!Task
         /\ Renderer!Do(do, n).do = do /\ Renderer!Do(do, n).generation = n
  BY DEF Renderer!Do, Renderer!Task

\* readyForeground keeps the player, or says what became of it.
LEMMA ReadyBelieves ==
  ASSUME Good, BeliefInv, svc' = svc, edit' = edit,
         NEW p, NEW steps \in Seq(Renderer!Task), Renderer!ReadyWith(p, steps),
         \/ p.id = renderer.foreground.id
         \/ \E j \in DOMAIN steps : /\ steps[j].do \in {"error", "ended"}
                                    /\ steps[j].generation = renderer.foreground.id
  PROVE  BeliefInv'
  <1>1. renderer \in Holder BY GoodFacts
  <1>2. /\ renderer.todo # <<>> /\ Head(renderer.todo).do = "ready" /\ events' = events
        /\ renderer' = [renderer EXCEPT !.foreground = p, !.todo = steps \o Tail(renderer.todo)]
    BY <1>1 DEF Renderer!ReadyWith, Renderer!Doing, Renderer!Idle, Renderer!Continue, Holder
  <1>3. /\ renderer'.applied = renderer.applied /\ renderer'.attempted = renderer.attempted
        /\ renderer'.escapedAt = renderer.escapedAt
        /\ renderer'.stageEnabled = renderer.stageEnabled
        /\ renderer'.foreground = p /\ renderer'.todo = steps \o Tail(renderer.todo)
    BY <1>1, <1>2 DEF Holder
  <1>4. "ready" \notin Renderer!EventKinds BY DEF Renderer!EventKinds
  <1> QED BY <1>2, <1>3, <1>4, StepBelieves

\* Whatever readyForeground does, but for a player that failed.
LEMMA ReadiesBelieve ==
  ASSUME Good, BeliefInv, svc' = svc, edit' = edit,
         \/ Renderer!ReadyTooEarly \/ Renderer!ReadySeeks \/ Renderer!ReadyPaused
         \/ Renderer!ReadyAtEnd \/ Renderer!ReadyPlays
  PROVE  BeliefInv'
  <1> DEFINE p == renderer.foreground
             m == Renderer!Do("mix", 0)
             f == Renderer!Do("finish", 0)
  <1>1. p \in Renderer!Player /\ p.id \in Nat BY GoodFacts DEF Renderer!Player
  <1>2. /\ m \in Renderer!Task /\ f \in Renderer!Task
        /\ \A kind \in {"paused", "playing"} : Renderer!Do(kind, p.id) \in Renderer!Task
    BY <1>1, StepsAreTasks DEF Renderer!EventKinds
  <1> HIDE DEF m, f
  <1>3. /\ <<>> \in Seq(Renderer!Task) /\ <<m>> \in Seq(Renderer!Task)
        /\ <<f>> \in Seq(Renderer!Task)
    BY <1>2
  <1>4. ASSUME NEW kind \in {"paused", "playing"}
        PROVE  Renderer!Report(p, kind) \o <<m>> \in Seq(Renderer!Task)
    <2>1. Renderer!Report(p, kind) \in Seq(Renderer!Task)
      BY <1>2, <1>3 DEF Renderer!Report
    <2> QED BY <1>3, <2>1
  <1>5. \E q, steps : /\ Renderer!ReadyWith(q, steps) /\ q.id = p.id
                      /\ steps \in Seq(Renderer!Task)
    <2>1. CASE Renderer!ReadyTooEarly
      BY <1>3, <2>1 DEF Renderer!ReadyTooEarly
    <2>2. CASE Renderer!ReadySeeks
      <3> DEFINE q == [p EXCEPT !.seeking = TRUE, !.rate = FALSE, !.running = FALSE]
      <3>1. Renderer!ReadyWith(q, <<m>>) BY <2>2 DEF Renderer!ReadySeeks, m
      <3>2. q.id = p.id BY <1>1 DEF Renderer!Player
      <3> HIDE DEF q
      <3> QED BY <1>3, <3>1, <3>2
    <2>3. CASE Renderer!ReadyPaused
      <3> DEFINE q == [p EXCEPT !.rate = FALSE, !.running = FALSE, !.reported = TRUE]
                 steps == Renderer!Report(p, "paused") \o <<m>>
      <3>1. Renderer!ReadyWith(q, steps) BY <2>3 DEF Renderer!ReadyPaused, m
      <3>2. q.id = p.id BY <1>1 DEF Renderer!Player
      <3>3. steps \in Seq(Renderer!Task) BY <1>4
      <3> HIDE DEF q, steps
      <3> QED BY <3>1, <3>2, <3>3
    <2>4. CASE Renderer!ReadyAtEnd
      BY <1>3, <2>4 DEF Renderer!ReadyAtEnd, f
    <2>5. CASE Renderer!ReadyPlays
      <3> DEFINE q == [p EXCEPT !.started = TRUE, !.reported = TRUE]
                 r == [p EXCEPT !.rate = TRUE]
                 steps == Renderer!Report(p, "playing") \o <<m>>
      <3>1. Renderer!ReadyWith(q, steps) \/ Renderer!ReadyWith(r, <<>>)
        BY <2>5 DEF Renderer!ReadyPlays, m
      <3>2. q.id = p.id /\ r.id = p.id BY <1>1 DEF Renderer!Player
      <3>3. steps \in Seq(Renderer!Task) BY <1>4
      <3> HIDE DEF q, r, steps
      <3> QED BY <1>3, <3>1, <3>2, <3>3
    <2> QED BY <2>1, <2>2, <2>3, <2>4, <2>5
  <1> QED BY <1>5, ReadyBelieves

\* A player that failed under an older scene is reported as it is dropped.
LEMMA ReadyFailsBelieves ==
  ASSUME Good, BeliefInv, svc' = svc, edit' = edit, Renderer!ReadyFails
  PROVE  BeliefInv'
  <1> DEFINE id == renderer.foreground.id
             a == Renderer!Do("error", id)
             m == Renderer!Do("mix", 0)
             steps == <<a, m>>
  <1>1. Renderer!ReadyWith(Renderer!NoPlayer, steps) BY DEF Renderer!ReadyFails
  <1>2. id \in Nat BY GoodFacts DEF Renderer!Player
  <1>3. /\ a \in Renderer!Task /\ m \in Renderer!Task /\ a.do = "error" /\ a.generation = id
    BY <1>2, StepsAreTasks DEF Renderer!EventKinds
  <1> HIDE DEF a, m
  <1>4. steps \in Seq(Renderer!Task) /\ 1 \in DOMAIN steps /\ steps[1] = a BY <1>3
  <1> HIDE DEF steps
  <1> QED BY <1>1, <1>3, <1>4, ReadyBelieves

\* mixScene says at most that nothing is heard any more.
LEMMA MixBelieves ==
  ASSUME Good, BeliefInv, svc' = svc, edit' = edit, Renderer!Mix
  PROVE  BeliefInv'
  <1> DEFINE a == Renderer!Do("stopped", renderer.applied.generation)
  <1>1. renderer \in Holder /\ renderer.applied.generation \in Nat
    BY GoodFacts DEF Holder, Renderer!Applied
  <1>2. a \in Renderer!Task BY <1>1, StepsAreTasks DEF Renderer!EventKinds
  <1> HIDE DEF a
  <1>3. \E steps \in {<<>>, <<a>>}, pending \in BOOLEAN :
          renderer' = [renderer EXCEPT !.stoppedPending = pending,
                                       !.todo = steps \o Tail(renderer.todo)]
    <2>1. CASE Renderer!StoppedIsDue
      <3>1. renderer' = [renderer EXCEPT !.stoppedPending = FALSE,
                                         !.todo = <<a>> \o Tail(renderer.todo)]
        BY <1>1, <2>1 DEF Renderer!Mix, Renderer!Continue, Holder, a
      <3> QED BY <3>1
    <2>2. CASE ~Renderer!StoppedIsDue
      <3>1. renderer' = [renderer EXCEPT !.stoppedPending = renderer.stoppedPending,
                                         !.todo = <<>> \o Tail(renderer.todo)]
        BY <1>1, <2>2 DEF Renderer!Mix, Renderer!Continue, Holder
      <3>2. renderer.stoppedPending \in BOOLEAN BY <1>1 DEF Holder
      <3> QED BY <3>1, <3>2
    <2> QED BY <2>1, <2>2
  <1>4. PICK steps \in {<<>>, <<a>>}, pending \in BOOLEAN :
          renderer' = [renderer EXCEPT !.stoppedPending = pending,
                                       !.todo = steps \o Tail(renderer.todo)]
    BY <1>3
  <1>5. steps \in Seq(Renderer!Task)
    <2>1. <<>> \in Seq(Renderer!Task) OBVIOUS
    <2>2. <<a>> \in Seq(Renderer!Task) BY <1>2
    <2> QED BY <2>1, <2>2, Zenon
  <1>6. /\ renderer.todo # <<>> /\ Head(renderer.todo).do = "mix" /\ events' = events
    BY DEF Renderer!Mix, Renderer!Doing, Renderer!Idle
  <1>7. /\ renderer'.applied = renderer.applied /\ renderer'.attempted = renderer.attempted
        /\ renderer'.escapedAt = renderer.escapedAt
        /\ renderer'.stageEnabled = renderer.stageEnabled
        /\ renderer'.foreground = renderer.foreground
        /\ renderer'.todo = steps \o Tail(renderer.todo)
    BY <1>1, <1>4 DEF Holder
  <1>8. "mix" \notin Renderer!EventKinds BY DEF Renderer!EventKinds
  <1> QED BY <1>5, <1>6, <1>7, <1>8, StepBelieves

\* finishSceneForeground says which source ended.
LEMMA FinishBelieves ==
  ASSUME Good, BeliefInv, svc' = svc, edit' = edit, Renderer!Finish
  PROVE  BeliefInv'
  <1> DEFINE p == renderer.foreground
             a == Renderer!Do("mix", 0)
             b == Renderer!Do("ended", p.id)
             ends == p.id # 0 /\ ~p.paused /\ p.seekRevision = p.soughtRevision /\ p.atEnd
             steps == IF ends THEN <<a, b>> ELSE <<>>
  <1>1. renderer \in Holder /\ p \in Renderer!Player /\ p.id \in Nat
    BY GoodFacts DEF Renderer!Player
  <1>2. /\ a \in Renderer!Task /\ b \in Renderer!Task /\ b.do = "ended" /\ b.generation = p.id
    BY <1>1, StepsAreTasks DEF Renderer!EventKinds
  <1>3. /\ renderer.todo # <<>> /\ Head(renderer.todo).do = "finish" /\ events' = events
    BY DEF Renderer!Finish, Renderer!Doing, Renderer!Idle
  <1>4. /\ renderer'.applied = renderer.applied /\ renderer'.attempted = renderer.attempted
        /\ renderer'.escapedAt = renderer.escapedAt
        /\ renderer'.stageEnabled = renderer.stageEnabled
        /\ ~ends => renderer'.foreground = p
        /\ renderer'.todo = steps \o Tail(renderer.todo)
    <2>1. CASE ends
      <3>1. renderer' = Renderer!Continue([renderer EXCEPT !.foreground = Renderer!NoPlayer,
                                                           !.endedID = p.id], <<a, b>>)
        BY <2>1 DEF Renderer!Finish
      <3> HIDE DEF a, b
      <3> QED BY <1>1, <2>1, <3>1 DEF Renderer!Continue, Holder
    <2>2. CASE ~ends
      <3>1. renderer' = Renderer!Continue(renderer, <<>>) BY <2>2 DEF Renderer!Finish
      <3> QED BY <1>1, <2>2, <3>1 DEF Renderer!Continue, Holder
    <2> QED BY <2>1, <2>2
  <1> HIDE DEF a, b, ends
  <1>5. steps \in Seq(Renderer!Task) BY <1>2
  <1>6. ends => 2 \in DOMAIN steps /\ steps[2] = b OBVIOUS
  <1> HIDE DEF steps
  <1>7. "finish" \notin Renderer!EventKinds BY DEF Renderer!EventKinds
  <1>8. CASE ends BY <1>2, <1>3, <1>4, <1>5, <1>6, <1>7, <1>8, StepBelieves
  <1>9. CASE ~ends BY <1>3, <1>4, <1>5, <1>7, <1>9, StepBelieves
  <1> QED BY <1>8, <1>9

\* Every step of a task of the main queue.
LEMMA StepsBelieve ==
  ASSUME Good, BeliefInv, svc' = svc, edit' = edit, Len(events) < EventLimit, Renderer!Step
  PROVE  BeliefInv'
  BY OvertakenBelieves, EmitBelieves, MixBelieves, FinishBelieves, ReadiesBelieve,
     ReadyFailsBelieves DEF Renderer!Step

-----------------------------------------------------------------------------
(* What begins a task, and what needs none. *)

\* The main queue turns to something else: nothing stands in the task.
LEMMA TurnBelieves ==
  ASSUME Good, BeliefInv, svc' = svc, edit' = edit, events' = events, renderer.todo = <<>>,
         renderer'.applied = renderer.applied, renderer'.attempted = renderer.attempted,
         renderer'.escapedAt = renderer.escapedAt,
         renderer.applied.revision # 0,
         renderer'.stageEnabled = renderer.stageEnabled \/ Wiped' \/ ~AppliedNow,
         \/ renderer'.foreground.id = renderer.foreground.id \/ Wiped' \/ ~AppliedNow
         \/ <<"error", renderer.foreground.id>> \in Due'
  PROVE  BeliefInv'
  <1>1. DOMAIN renderer.todo = {} OBVIOUS
  <1> QED BY <1>1, BelievesOn

\* What the decoder and the timers say changes nothing the service believes.
LEMMA PlainBelieves ==
  ASSUME Good, BeliefInv, svc' = svc, edit' = edit,
         \/ Renderer!Loads \/ Renderer!Runs \/ Renderer!Sought \/ Renderer!ReachesEnd
         \/ Renderer!BackgroundStarts \/ Renderer!FadesOut \/ Renderer!TailEnds
         \/ Renderer!BackgroundFails
  PROVE  BeliefInv'
  <1>1. /\ renderer \in Holder /\ renderer.foreground \in Renderer!Player /\ Holding
    BY GoodFacts
  <1>2. /\ events' = events /\ renderer.todo = <<>>
    BY DEF Renderer!Loads, Renderer!Runs, Renderer!Sought, Renderer!ReachesEnd,
       Renderer!Observe, Renderer!BackgroundStarts, Renderer!FadesOut, Renderer!TailEnds,
       Renderer!BackgroundFails, Renderer!Idle
  <1>3. /\ renderer'.applied = renderer.applied /\ renderer'.attempted = renderer.attempted
        /\ renderer'.escapedAt = renderer.escapedAt
        /\ renderer'.stageEnabled = renderer.stageEnabled
        /\ renderer'.foreground.id = renderer.foreground.id
    <2>1. CASE Renderer!Loads \/ Renderer!Runs \/ Renderer!Sought \/ Renderer!ReachesEnd
      <3>1. PICK p, steps : /\ p.id = renderer.foreground.id
                            /\ renderer' = [renderer EXCEPT !.foreground = p, !.todo = steps]
        <4>1. CASE Renderer!Loads
          <5> DEFINE p == [renderer.foreground EXCEPT !.loaded = TRUE]
          <5>1. p.id = renderer.foreground.id BY <1>1 DEF Renderer!Player
          <5> HIDE DEF p
          <5> QED BY <4>1, <5>1 DEF Renderer!Loads, Renderer!Observe, p
        <4>2. CASE Renderer!Runs
          <5> DEFINE p == [renderer.foreground EXCEPT !.running = TRUE]
          <5>1. p.id = renderer.foreground.id BY <1>1 DEF Renderer!Player
          <5> HIDE DEF p
          <5> QED BY <4>2, <5>1 DEF Renderer!Runs, Renderer!Observe, p
        <4>3. CASE Renderer!Sought
          <5>1. PICK atEnd \in BOOLEAN :
                  Renderer!Observe([renderer.foreground EXCEPT
                    !.seeking = FALSE, !.soughtRevision = renderer.foreground.seekRevision,
                    !.atEnd = atEnd], <<Renderer!Do("ready", 0)>>)
            BY <4>3 DEF Renderer!Sought
          <5> DEFINE p == [renderer.foreground EXCEPT
                    !.seeking = FALSE, !.soughtRevision = renderer.foreground.seekRevision,
                    !.atEnd = atEnd]
          <5>2. p.id = renderer.foreground.id BY <1>1 DEF Renderer!Player
          <5> HIDE DEF p
          <5> QED BY <5>1, <5>2 DEF Renderer!Observe, p
        <4>4. CASE Renderer!ReachesEnd
          <5> DEFINE p == [renderer.foreground EXCEPT
                    !.atEnd = TRUE, !.rate = FALSE, !.running = FALSE]
          <5>1. p.id = renderer.foreground.id BY <1>1 DEF Renderer!Player
          <5> HIDE DEF p
          <5> QED BY <4>4, <5>1 DEF Renderer!ReachesEnd, Renderer!Observe, p
        <4> QED BY <2>1, <4>1, <4>2, <4>3, <4>4
      <3> QED BY <1>1, <3>1 DEF Holder
    <2>2. CASE \/ Renderer!BackgroundStarts \/ Renderer!FadesOut \/ Renderer!TailEnds
               \/ Renderer!BackgroundFails
      BY <1>1, <2>2 DEF Renderer!BackgroundStarts, Renderer!FadesOut, Renderer!TailEnds,
         Renderer!BackgroundFails, Holder
    <2> QED BY <2>1, <2>2
  <1>4. renderer.applied.revision # 0
    <2>1. Attempts BY DEF BeliefInv
    <2>2. CASE Renderer!Loads \/ Renderer!Runs \/ Renderer!Sought \/ Renderer!ReachesEnd
      <3>1. renderer.foreground.id # 0
        <4>1. renderer.foreground.id = 0 =>
                /\ ~renderer.foreground.rate /\ ~renderer.foreground.seeking
                /\ ~renderer.foreground.started
          BY <1>1 DEF Holding, Renderer!NoPlayer, Renderer!NewPlayer
        <4> QED BY <2>2, <4>1 DEF Renderer!Loads, Renderer!Runs, Renderer!Sought,
                Renderer!ReachesEnd
      <3> QED BY <2>1, <3>1 DEF Attempts
    <2>3. CASE Renderer!BackgroundStarts \/ Renderer!FadesOut \/ Renderer!BackgroundFails
      BY <2>3 DEF Renderer!BackgroundStarts, Renderer!FadesOut, Renderer!BackgroundFails,
         Renderer!Current
    <2>4. CASE Renderer!TailEnds BY <2>1, <2>4 DEF Attempts, Renderer!TailEnds
    <2> QED BY <2>2, <2>3, <2>4
  <1> QED BY <1>2, <1>3, <1>4, TurnBelieves

\* The position is reported with what is so.
LEMMA ProgressesBelieves ==
  ASSUME Good, BeliefInv, svc' = svc, edit' = edit, Len(events) < EventLimit,
         Renderer!Progresses
  PROVE  BeliefInv'
  <1> DEFINE event == [kind |-> "progress", generation |-> renderer.foreground.id,
                       transportRevision |-> renderer.applied.transportRevision,
                       sceneRevision |-> renderer.applied.revision,
                       stageEnabled |-> renderer.stageEnabled]
             n == Len(events)
  <1>1. /\ renderer.todo = <<>> /\ renderer.applied.revision # 0 /\ renderer' = renderer
        /\ events' = Append(events, event)
    BY DEF Renderer!Progresses, Renderer!Idle, Renderer!Current, Renderer!Say, Renderer!Queue
  <1>2. events \in Seq(Message) /\ event \in Message
    BY GoodFacts DEF Holder, Renderer!Applied, Renderer!Player, Message, Renderer!EventKinds
  <1>3. /\ event.sceneRevision = renderer.applied.revision
        /\ event.transportRevision = renderer.applied.transportRevision
        /\ event.stageEnabled = renderer'.stageEnabled
    BY <1>1
  <1> HIDE DEF event
  <1>4. /\ DOMAIN events = 1 .. n /\ DOMAIN events' = 1 .. n + 1 /\ n \in Nat
        /\ \A i \in 1 .. n : events'[i] = events[i]
        /\ events'[n + 1] = event
    BY <1>1, <1>2, Queues DEF n
  <1> HIDE DEF n
  <1>5. \A i \in DOMAIN events : i \in DOMAIN events' /\ events'[i] = events[i]
    BY <1>4
  <1>6. \A i \in DOMAIN events' :
          \/ i \in DOMAIN events \/ events'[i].kind = "escape"
          \/ /\ events'[i].sceneRevision = renderer.applied.revision
             /\ events'[i].transportRevision = renderer.applied.transportRevision
             /\ events'[i].stageEnabled = renderer'.stageEnabled
    BY <1>3, <1>4
  <1>7. DOMAIN renderer.todo = {} BY <1>1
  <1> QED BY <1>1, <1>5, <1>6, <1>7, BelievesOn

\* A failed player is reported, or kept until a newer scene is applied.
LEMMA PlayerFailsBelieves ==
  ASSUME Good, BeliefInv, svc' = svc, edit' = edit, Renderer!PlayerFails
  PROVE  BeliefInv'
  <1> DEFINE p == renderer.foreground
             a == Renderer!Do("error", p.id)
             m == Renderer!Do("mix", 0)
             n == renderer.faults + 1
  <1>1. renderer \in Holder /\ p \in Renderer!Player /\ p.id \in Nat
    BY GoodFacts DEF Renderer!Player
  <1>2. renderer.todo = <<>> /\ events' = events /\ p.id # 0
    BY DEF Renderer!PlayerFails, Renderer!Idle
  <1>3. renderer.applied.revision # 0 BY <1>2 DEF BeliefInv, Attempts
  <1>4. CASE Renderer!Current
    <2>1. renderer' = [renderer EXCEPT !.foreground = Renderer!NoPlayer, !.faults = n,
                                       !.todo = <<a, m>>]
      BY <1>1, <1>4 DEF Renderer!PlayerFails, Holder
    <2>2. a.do = "error" /\ a.generation = p.id BY <1>1, StepsAreTasks DEF Renderer!EventKinds
    <2> HIDE DEF a, m, n
    <2>3. /\ renderer'.applied = renderer.applied /\ renderer'.attempted = renderer.attempted
          /\ renderer'.escapedAt = renderer.escapedAt
          /\ renderer'.stageEnabled = renderer.stageEnabled
          /\ renderer'.todo = <<a, m>>
      BY <1>1, <2>1 DEF Holder
    <2>4. 1 \in DOMAIN renderer'.todo /\ renderer'.todo[1] = a BY <2>3
    <2>5. AppliedNow BY <1>4 DEF Renderer!Current, AppliedNow
    <2>6. <<"error", p.id>> \in Due' BY <2>2, <2>3, <2>4, <2>5, StillDue
    <2> QED BY <1>2, <1>3, <2>3, <2>6, TurnBelieves
  <1>5. CASE ~Renderer!Current
    <2>1. renderer' = [renderer EXCEPT !.foreground.failed = TRUE, !.faults = n]
      BY <1>1, <1>5 DEF Renderer!PlayerFails, Holder
    <2> HIDE DEF n
    <2>2. /\ renderer'.applied = renderer.applied /\ renderer'.attempted = renderer.attempted
          /\ renderer'.escapedAt = renderer.escapedAt
          /\ renderer'.stageEnabled = renderer.stageEnabled
          /\ renderer'.foreground.id = p.id
      BY <1>1, <2>1 DEF Holder, Renderer!Player
    <2> QED BY <1>2, <1>3, <2>2, TurnBelieves
  <1> QED BY <1>4, <1>5

\* The output is gone, and that is said of the scene applied.
LEMMA LosesDeviceBelieves ==
  ASSUME Good, BeliefInv, svc' = svc, edit' = edit, Renderer!LosesDevice
  PROVE  BeliefInv'
  <1> DEFINE a == Renderer!Do("device-lost", renderer.applied.generation)
             u == Renderer!TearDown(renderer)
             n == renderer.faults + 1
  <1>1. /\ renderer \in Holder /\ Holding /\ renderer.applied.generation \in Nat
    BY GoodFacts DEF Holder, Renderer!Applied
  <1>2. /\ renderer.todo = <<>> /\ events' = events
        /\ renderer' = [u EXCEPT !.faults = n, !.todo = <<a>>]
        /\ renderer.stageEnabled \/ renderer.foreground.loaded \/ renderer.tail
    <2>1. u.faults = renderer.faults BY <1>1, TornDown
    <2>2. renderer' = [u EXCEPT !.faults = u.faults + 1, !.todo = <<a>>]
      BY DEF Renderer!LosesDevice
    <2> HIDE DEF a, u
    <2> QED BY <2>1, <2>2 DEF Renderer!LosesDevice, Renderer!Idle
  <1>3. a.do = "device-lost" /\ a.generation = renderer.applied.generation
    BY <1>1, StepsAreTasks DEF Renderer!EventKinds
  <1> HIDE DEF a, n
  <1>4. /\ renderer'.applied = renderer.applied /\ renderer'.attempted = renderer.attempted
        /\ renderer'.escapedAt = renderer.escapedAt /\ renderer'.todo = <<a>>
    BY <1>1, <1>2 DEF Holder, Renderer!TearDown
  <1>5. renderer.applied.revision # 0
    <2>1. Attempts BY DEF BeliefInv
    <2>2. renderer.foreground.id = 0 => ~renderer.foreground.loaded
      BY <1>1 DEF Holding, Renderer!NoPlayer, Renderer!NewPlayer
    <2> QED BY <1>2, <2>1, <2>2 DEF Attempts
  <1>6. ASSUME AppliedNow PROVE Wiped'
    <2>1. 1 \in DOMAIN renderer'.todo /\ renderer'.todo[1] = a BY <1>4
    <2>2. <<"device-lost", renderer.applied.generation>> \in Due'
      BY <1>3, <1>4, <1>6, <2>1, StillDue
    <2> QED BY <2>2, DueThen
  <1> QED BY <1>2, <1>4, <1>5, <1>6, TurnBelieves

\* Escape takes everything back, and is in the queue.
LEMMA PressEscapeBelieves ==
  ASSUME Good, BeliefInv, svc' = svc, edit' = edit, Len(events) < EventLimit,
         Renderer!PressEscape
  PROVE  BeliefInv'
  <1> DEFINE event == [kind |-> "escape", generation |-> renderer.applied.generation,
                       transportRevision |-> 0, sceneRevision |-> 0, stageEnabled |-> FALSE]
             u == Renderer!TearDown(renderer)
             at == IF renderer.applied.revision = 0 THEN renderer.escapedAt
                   ELSE svc.scene.revision
             n == Len(events)
             faults == renderer.faults + 1
  <1>1. renderer \in Holder BY GoodFacts
  <1>2. /\ renderer.todo = <<>> /\ events' = Append(events, event)
        /\ renderer' = [u EXCEPT !.faults = faults, !.escapedAt = at]
    <2>1. u.faults = renderer.faults BY <1>1, TornDown
    <2>2. u.escapedAt = renderer.escapedAt BY <1>1 DEF Renderer!TearDown, Holder
    <2>3. renderer' = [u EXCEPT !.faults = u.faults + 1,
                                !.escapedAt = IF renderer.applied.revision = 0 THEN u.escapedAt
                                              ELSE svc.scene.revision]
      BY DEF Renderer!PressEscape
    <2>4. renderer.todo = <<>> /\ events' = Append(events, event)
      BY DEF Renderer!PressEscape, Renderer!Queue, Renderer!Idle
    <2> HIDE DEF u, event
    <2> QED BY <2>1, <2>2, <2>3, <2>4
  <1>3. events \in Seq(Message) /\ event \in Message /\ event.kind = "escape"
    BY <1>1, GoodFacts DEF Holder, Renderer!Applied, Message
  <1> HIDE DEF event, faults
  <1>4. /\ renderer'.applied = renderer.applied /\ renderer'.attempted = renderer.attempted
        /\ renderer'.escapedAt = at /\ renderer'.todo = <<>>
        /\ renderer'.foreground = Renderer!NoPlayer
        /\ ~renderer'.stageEnabled /\ ~renderer'.tail
    BY <1>1, <1>2 DEF Holder, Renderer!TearDown
  <1>5. /\ DOMAIN events = 1 .. n /\ DOMAIN events' = 1 .. n + 1 /\ n \in Nat
        /\ \A i \in 1 .. n : events'[i] = events[i]
        /\ events'[n + 1] = event
    BY <1>2, <1>3, Queues DEF n
  <1> HIDE DEF n
  <1>6. EscapeIsDue' /\ Wiped'
    <2>1. n + 1 \in DOMAIN events' /\ events'[n + 1].kind = "escape" BY <1>3, <1>5
    <2>2. EscapeIsDue' BY <2>1 DEF EscapeIsDue
    <2> QED BY <2>2, DueThen
  <1>7. \A i \in DOMAIN events : i \in DOMAIN events' /\ events'[i] = events[i]
    BY <1>5
  <1>8. \A i \in DOMAIN events' : i \in DOMAIN events \/ events'[i].kind = "escape"
    BY <1>3, <1>5
  <1>9. renderer'.escapedAt = renderer.escapedAt \/ renderer'.escapedAt = svc.scene.revision
    BY <1>4
  <1>10. DOMAIN renderer.todo = {} BY <1>2
  <1> QED BY <1>4, <1>6, <1>7, <1>8, <1>9, <1>10, NoPlayerRests, BelievesOn

\* Every step of the renderer.
LEMMA RendererBelieves ==
  ASSUME Good, BeliefInv, svc' = svc, edit' = edit, Len(events) < EventLimit, Renderer!Next
  PROVE  BeliefInv'
  BY ApplyNothingBelieves, ApplyHardBelieves, ApplyWithoutDisplayBelieves, ApplySceneBelieves,
     StepsBelieve, PlainBelieves, ProgressesBelieves, PlayerFailsBelieves, LosesDeviceBelieves,
     PressEscapeBelieves
  DEF Renderer!Next, Renderer!Apply, Renderer!Decode, Renderer!Fade, Renderer!Faults

-----------------------------------------------------------------------------
(* Steps of the service. *)

\* A scene is handed over: the renderer knows nothing of it yet.
LEMMA HandedBelieves ==
  ASSUME Good, BeliefInv, Handed(svc, svc'), HandedOver(svc'), Trusts(svc'),
         LoadIsDark(svc', edit'), renderer' = renderer,
         \A i \in DOMAIN events' : \E j \in DOMAIN events : events'[i] = events[j]
  PROVE  BeliefInv'
  <1>1. Numbered /\ Attempts BY DEF BeliefInv
  <1>2. /\ renderer.applied.revision \in Nat /\ renderer.attempted \in Nat
        /\ renderer.escapedAt \in Nat /\ svc.scene.revision \in Nat
        /\ renderer.applied.revision <= svc.scene.revision
    BY GoodFacts, SceneIsKnown DEF Holder, Renderer!Applied, Holding
  <1>3. svc.scene.revision < svc'.scene.revision /\ svc'.scene.revision \in Nat
    BY DEF Handed, HandedOver, Good
  <1>4. ~AppliedNow' BY <1>2, <1>3 DEF AppliedNow
  <1>5. \A i \in DOMAIN events' : events'[i].kind # "escape" =>
          events'[i].sceneRevision <= renderer.applied.revision
    BY <1>1 DEF Numbered
  <1>6. events \in Seq(Message) BY GoodFacts
  <1>7. \A i \in DOMAIN events' : events'[i].sceneRevision \in Nat
    <2>1. \A j \in DOMAIN events : events[j] \in Message BY <1>6, Queues
    <2> QED BY <2>1 DEF Message
  <1>8. \A i \in DOMAIN events' : ~OfNewest(events[i])'
    BY <1>2, <1>3, <1>5, <1>7 DEF OfNewest
  <1>9. Numbered' BY <1>4, <1>5, <1>8 DEF Numbered
  <1>10. Attempts' BY <1>1, <1>2, <1>3 DEF Attempts
  <1>11. Trusts(svc)' /\ LoadIsDark(svc, edit)'
    BY DEF Trusts, AskedNow, Waits, LoadIsDark
  <1> QED BY <1>4, <1>8, <1>9, <1>10, <1>11
          DEF BeliefInv, SourceIsBelieved, StageIsBelieved, EventsAreTrue

\* The scene stays: what was due of it still is.
LEMMA MovedBelieves ==
  ASSUME BeliefInv, Moved(svc, svc'), Trusts(svc'), LoadIsDark(svc', edit'),
         renderer' = renderer, events' = events
  PROVE  BeliefInv'
  <1>1. /\ Numbered /\ Attempts /\ SourceIsBelieved /\ StageIsBelieved /\ EventsAreTrue
    BY DEF BeliefInv
  <1>2. /\ svc'.scene = svc.scene /\ svc'.closed = svc.closed
        /\ svc'.stageEnabled = svc.stageEnabled /\ (~Waits(svc') => ~Waits(svc))
    BY DEF Moved
  <1>3. AppliedNow' = AppliedNow BY <1>2 DEF AppliedNow
  <1>4. \A i \in DOMAIN events : OfNewest(events[i])' <=> OfNewest(events[i])
    BY <1>2 DEF OfNewest
  <1>5. EscapeIsDue' <=> EscapeIsDue BY DEF EscapeIsDue
  <1>6. ASSUME NEW do, NEW n PROVE <<do, n>> \in Due' <=> <<do, n>> \in Due
    <2>1. DueStep(do, n)' <=> DueStep(do, n) BY <1>3 DEF DueStep
    <2>2. DueEvent(do, n)' <=> DueEvent(do, n) BY <1>2 DEF DueEvent, OfNewest
    <2> QED BY <2>1, <2>2, DueSomewhere, DueThen
  <1>7. Wiped' <=> Wiped BY <1>5, <1>6, DueSomewhere, DueThen
  <1>8. (Gone' <=> Gone) /\ (Failed' <=> Failed) BY <1>2, <1>6 DEF Gone, Failed
  <1>9. Numbered' BY <1>1, <1>2 DEF Numbered, AppliedNow, OfNewest
  <1>10. Attempts' BY <1>1, <1>2, <1>5 DEF Attempts, AppliedNow
  <1>11. Trusts(svc)' /\ LoadIsDark(svc, edit)'
    BY DEF Trusts, AskedNow, Waits, LoadIsDark
  <1>12. Waits(svc)' <=> Waits(svc') BY DEF Waits
  <1>13. SourceIsBelieved'
    BY <1>1, <1>2, <1>3, <1>7, <1>8, <1>12 DEF SourceIsBelieved
  <1>14. StageIsBelieved'
    BY <1>1, <1>2, <1>3, <1>6, <1>7, <1>8, <1>12 DEF StageIsBelieved
  <1>15. EventsAreTrue'
    BY <1>1, <1>2, <1>4, <1>7 DEF EventsAreTrue
  <1> QED BY <1>9, <1>10, <1>11, <1>13, <1>14, <1>15 DEF BeliefInv

\* A critical section of the service.
LEMMA ServiceBelieves ==
  ASSUME SystemInv, BeliefInv,
         ByService(Commands \/ Preparation \/ Update \/ Stage \/ Show)
  PROVE  BeliefInv'
  <1>1. /\ Good /\ PlaybackInv /\ HandedOver(svc) /\ LoadRests(svc, edit)
    BY InvIsGood
  <1>2. /\ Commands \/ Preparation \/ Update \/ Stage \/ Show
        /\ renderer' = renderer /\ events' = events
    BY DEF ByService, rendererVars
  <1>3. LoadIsDark(svc, edit) /\ Trusts(svc) BY DEF BeliefInv
  <1>4. HandedOver(svc')
    BY <1>1, <1>2, ServiceAdvances DEF Advances, Follows
  <1>5. Calm(svc, svc') BY <1>1, <1>2, <1>3, ServiceCalm
  <1>6. Trusts(svc') BY <1>3, <1>5, CalmTrusts
  <1>7. LoadIsDark(svc', edit') BY <1>1, <1>2, <1>3, DarkStays
  <1>8. CASE Handed(svc, svc')
    BY <1>1, <1>2, <1>4, <1>6, <1>7, <1>8, HandedBelieves
  <1>9. CASE Moved(svc, svc') BY <1>2, <1>6, <1>7, <1>9, MovedBelieves
  <1> QED BY <1>5, <1>8, <1>9 DEF Calm

\* An event that hands over nothing was not needed, or the stage is as it says.
LEMMA NotedBelieves ==
  ASSUME Good, BeliefInv, events # <<>>, events' = Tail(events), renderer' = renderer,
         NEW e, e = events[1], Notes(svc, svc', e), ~Telling(svc, e),
         svc.closed => svc'.stageEnabled = svc.stageEnabled,
         ~svc.closed /\ e.kind \in {"stage", "background-error"}
           /\ e.sceneRevision = svc.sceneRevision => svc'.stageEnabled = e.stageEnabled,
         Trusts(svc'), LoadIsDark(svc', edit')
  PROVE  BeliefInv'
  <1> DEFINE n == Len(events)
  <1>1. /\ Numbered /\ Attempts /\ SourceIsBelieved /\ StageIsBelieved /\ EventsAreTrue
    BY DEF BeliefInv
  <1>2. /\ svc'.scene = svc.scene /\ svc'.closed = svc.closed /\ (~Waits(svc') => ~Waits(svc))
        /\ svc.scene.revision = svc.sceneRevision
    BY DEF Notes, Good, HandedOver
  <1>3. /\ n \in Nat \ {0} /\ DOMAIN events = 1 .. n /\ DOMAIN events' = 1 .. n - 1
        /\ \A i \in 1 .. n - 1 : events'[i] = events[i + 1]
    <2>1. events \in Seq(Message) BY GoodFacts
    <2> QED BY <2>1, Queues
  <1> HIDE DEF n
  <1>4. /\ \A i \in DOMAIN events' : i + 1 \in DOMAIN events /\ events'[i] = events[i + 1]
        /\ \A j \in DOMAIN events : j # 1 =>
             j - 1 \in DOMAIN events' /\ events'[j - 1] = events[j]
        /\ 1 \in DOMAIN events
    BY <1>3
  <1>5. AppliedNow' = AppliedNow BY <1>2 DEF AppliedNow
  <1>6. ASSUME NEW do, NEW k, <<do, k>> \in Due,
               ~(OfNewest(e) /\ e.kind = do /\ e.generation = k)
        PROVE  <<do, k>> \in Due'
    <2>1. CASE DueStep(do, k)
      <3>1. DueStep(do, k)' BY <1>5, <2>1 DEF DueStep
      <3> QED BY <3>1, DueThen
    <2>2. CASE DueEvent(do, k)
      <3>1. PICK j \in DOMAIN events : /\ OfNewest(events[j]) /\ events[j].kind = do
                                       /\ events[j].generation = k
        BY <2>2 DEF DueEvent
      <3>2. j # 1 BY <1>6, <3>1
      <3>3. /\ j - 1 \in DOMAIN events' /\ events'[j - 1] = events[j]
        BY <1>4, <3>2
      <3>4. DueEvent(do, k)' BY <1>2, <3>1, <3>3 DEF DueEvent, OfNewest
      <3> QED BY <3>4, DueThen
    <2> QED BY <1>6, <2>1, <2>2, DueSomewhere
  <1>7. ASSUME ~svc.closed, EscapeIsDue PROVE EscapeIsDue'
    <2>1. PICK j \in DOMAIN events : events[j].kind = "escape" BY <1>7 DEF EscapeIsDue
    <2>2. j # 1 BY <1>7, <2>1 DEF Telling
    <2> QED BY <1>4, <2>1, <2>2 DEF EscapeIsDue
  <1>8. ASSUME ~svc.closed, Wiped PROVE Wiped'
    <2>1. CASE EscapeIsDue BY <1>7, <1>8, <2>1, DueThen
    <2>2. CASE \E id : <<"device-lost", id>> \in Due
      <3>1. PICK id : <<"device-lost", id>> \in Due BY <2>2
      <3>2. ~(OfNewest(e) /\ e.kind = "device-lost")
        BY <1>2, <1>8 DEF Telling, OfNewest
      <3>3. <<"device-lost", id>> \in Due' BY <1>6, <3>1, <3>2
      <3> QED BY <3>3, DueThen
    <2> QED BY <1>8, <2>1, <2>2, DueSomewhere
  <1>9. OfNewest(e) => e.transportRevision = svc.scene.transportRevision
    BY <1>1, <1>4 DEF Numbered
  <1>10. ASSUME ~svc.closed, ~Waits(svc), Failed PROVE Failed'
    <2>1. svc.scene.stage /\ <<"error", svc.scene.generation>> \in Due
      BY <1>10 DEF Failed
    <2>2. ~(OfNewest(e) /\ e.kind = "error" /\ e.generation = svc.scene.generation)
      BY <1>2, <1>9, <1>10, <2>1 DEF Telling, OfNewest
    <2>3. <<"error", svc.scene.generation>> \in Due' BY <1>6, <2>1, <2>2
    <2> QED BY <1>2, <2>1, <2>3 DEF Failed
  <1>11. ASSUME ~svc.closed, ~Waits(svc), svc.scene.foregroundID # 0, Gone PROVE Gone'
    <2>1. ASSUME NEW do \in {"error", "ended"}, <<do, svc.scene.foregroundID>> \in Due
          PROVE  <<do, svc.scene.foregroundID>> \in Due'
      <3>1. ~(OfNewest(e) /\ e.kind = do /\ e.generation = svc.scene.foregroundID)
        BY <1>2, <1>9, <1>11, <2>1 DEF Telling, OfNewest
      <3> QED BY <1>6, <2>1, <3>1
    <2> QED BY <1>2, <1>10, <1>11, <2>1 DEF Gone
  <1>12. Numbered'
    <2>1. \A i \in DOMAIN events' :
            /\ events'[i].kind # "escape"
                 => events'[i].sceneRevision <= renderer.applied.revision
            /\ OfNewest(events[i])' => events'[i].transportRevision = svc.scene.transportRevision
      BY <1>1, <1>2, <1>4 DEF Numbered, OfNewest
    <2> QED BY <1>1, <1>2, <1>5, <2>1 DEF Numbered
  <1>13. Attempts' BY <1>1, <1>2, <1>5, <1>7 DEF Attempts
  <1>14. Trusts(svc)' /\ LoadIsDark(svc, edit)'
    BY DEF Trusts, AskedNow, Waits, LoadIsDark
  <1>15. Waits(svc)' <=> Waits(svc') BY DEF Waits
  <1>16. SourceIsBelieved'
    BY <1>1, <1>2, <1>5, <1>8, <1>11, <1>15 DEF SourceIsBelieved
  <1>17. ASSUME ~svc.closed, OfNewest(e)
         PROVE  e.stageEnabled = renderer.stageEnabled \/ Wiped
    BY <1>1, <1>4, <1>17 DEF EventsAreTrue
  <1>18. StageIsBelieved'
    <2> SUFFICES ASSUME AppliedNow, ~Waits(svc), ~svc.closed, ~Wiped',
                        svc'.stageEnabled # renderer.stageEnabled
                 PROVE  <<"stage", svc.scene.generation>> \in Due' \/ Failed'
      BY <1>2, <1>5, <1>15 DEF StageIsBelieved
    <2>1. ~(OfNewest(e) /\ svc'.stageEnabled = e.stageEnabled)
      BY <1>8, <1>17
    <2>2. svc'.stageEnabled = svc.stageEnabled
      BY <1>2, <2>1 DEF Notes, OfNewest
    <2>3. <<"stage", svc.scene.generation>> \in Due \/ Failed
      BY <1>1, <1>8, <2>2 DEF StageIsBelieved
    <2>4. ~(OfNewest(e) /\ e.kind = "stage") BY <1>2, <2>1 DEF OfNewest
    <2> QED BY <1>6, <1>10, <2>3, <2>4
  <1>19. EventsAreTrue'
    <2> SUFFICES ASSUME ~svc.closed, ~Wiped', NEW i \in DOMAIN events', OfNewest(events[i])'
                 PROVE  events'[i].stageEnabled = renderer.stageEnabled
      BY <1>2 DEF EventsAreTrue
    <2>1. OfNewest(events[i + 1]) BY <1>2, <1>4 DEF OfNewest
    <2> QED BY <1>1, <1>4, <1>8, <2>1 DEF EventsAreTrue
  <1> QED BY <1>12, <1>13, <1>14, <1>16, <1>18, <1>19 DEF BeliefInv

\* The service hears an event.
LEMMA HearingBelieves ==
  ASSUME SystemInv, BeliefInv, HearEvent
  PROVE  BeliefInv'
  <1> DEFINE e == Head(events)
             s == IF FromFault(e) THEN Input(svc) ELSE Enter(svc)
  <1>1. /\ e \in Event /\ e.kind # "devices" /\ EventIsSound(e) /\ events # <<>>
        /\ svc' = NativeEvent(s, e)
        /\ CommandOnly /\ renderer' = renderer /\ events' = Tail(events)
    BY HearsSoundly
  <1>2. Good /\ PlaybackInv /\ HandedOver(svc) /\ LoadRests(svc, edit) BY InvIsGood
  <1>3. /\ events \in Seq(Message) /\ e = events[1]
    BY <1>1, <1>2, GoodFacts, Queues
  <1> HIDE DEF e
  <1>4. LoadIsDark(svc, edit) /\ Trusts(svc) BY DEF BeliefInv
  <1>5. /\ Handed(svc, svc') \/ Notes(svc, svc', e)
        /\ Telling(svc, e) => Handed(svc, svc')
        /\ svc.closed => Notes(svc, svc', e) /\ svc'.stageEnabled = svc.stageEnabled
        /\ ~svc.closed /\ e.kind \in {"stage", "background-error"}
             /\ e.sceneRevision = svc.sceneRevision
           => svc'.stageEnabled = e.stageEnabled
    BY <1>1, <1>2, <1>4, EventTells
  <1>6. HandedOver(svc') BY <1>1, <1>2, Heard DEF Follows
  <1>7. Trusts(svc') BY <1>4, <1>5 DEF Trusts, Handed, Notes
  <1>8. LoadIsDark(svc', edit')
    <2>1. edit' = edit BY <1>1 DEF CommandOnly
    <2>2. svc \in Service /\ s \in Service BY <1>2, EntryFacts
    <2>3. Dims(s, svc') BY <1>1, <2>2, NativeEventDims
    <2>4. s.stageDesired = svc.stageDesired /\ s.pendingImage = svc.pendingImage
      BY <2>2 DEF Enter, Input, Service
    <2> QED BY <1>4, <2>1, <2>3, <2>4 DEF LoadIsDark, Dims
  <1>9. CASE Handed(svc, svc')
    <2>1. \A i \in DOMAIN events' : \E j \in DOMAIN events : events'[i] = events[j]
      <3>1. /\ DOMAIN events = 1 .. Len(events) /\ Len(events) \in Nat
            /\ DOMAIN events' = 1 .. Len(events) - 1
            /\ \A i \in 1 .. Len(events) - 1 : events'[i] = events[i + 1]
        BY <1>1, <1>3, Queues
      <3> TAKE i \in DOMAIN events'
      <3>2. i + 1 \in DOMAIN events /\ events'[i] = events[i + 1] BY <3>1
      <3> QED BY <3>2
    <2> QED BY <1>1, <1>2, <1>6, <1>7, <1>8, <1>9, <2>1, HandedBelieves
  <1>10. CASE ~Handed(svc, svc')
    BY <1>1, <1>2, <1>3, <1>5, <1>7, <1>8, <1>10, NotedBelieves
  <1> QED BY <1>9, <1>10

-----------------------------------------------------------------------------
(* The belief comes true. *)

\* In the beginning nothing is believed.
LEMMA BeliefStarts ==
  ASSUME SystemInit, SystemInv
  PROVE  BeliefInv
  <1> DEFINE s == InitialService
  <1>1. /\ svc = SelectBackground(s, InitialShow, InitialDefault) /\ edit = NoEdit
        /\ events = <<>>
    BY DEF SystemInit, Init, Renderer!Init
  <1>2. /\ renderer.applied.revision = 0 /\ renderer.attempted = 0 /\ renderer.escapedAt = 0
        /\ renderer.foreground.id = 0 /\ renderer.todo = <<>>
        /\ renderer.stageEnabled = FALSE /\ renderer.tail = FALSE
    BY NoPlayerRests DEF SystemInit, Renderer!Init
  <1>3. s \in Service
    BY CueAssumption, NoSourceType, NoJobType DEF InitialService, Service, Phases, CueRef, Scene
  <1>4. /\ s.state = "stopped" /\ s.stageEnabled = FALSE /\ ~s.scene.stage /\ s.scene.foregroundID = 0
        /\ s.sceneRevision = 0
    BY DEF InitialService
  <1>5. Calm(s, svc)
    <2>1. Silent(s, s) BY DEF Silent, Linked
    <2> HIDE DEF s
    <2>2. Silent(s, svc) \/ Handed(s, svc) BY <1>1, <1>3, <2>1, BackgroundCalms
    <2> QED BY <2>2, StillCalms DEF Calm
  <1>6. Good /\ HandedOver(svc) BY InvIsGood
  <1>7. svc.scene.revision \in Nat /\ svc.scene.revision = svc.sceneRevision
    BY <1>6, SceneIsKnown DEF HandedOver
  <1> HIDE DEF s
  <1>8. Trusts(svc)
    <2>1. Trusts(s) BY <1>4 DEF Trusts, AskedNow
    <2> QED BY <1>5, <2>1, CalmTrusts
  <1>9. AppliedNow =>
          /\ svc.scene.foregroundID = 0 /\ svc.stageEnabled = FALSE
          /\ svc.scene.generation = renderer.applied.generation
          /\ svc.scene.transportRevision = renderer.applied.transportRevision
    <2>1. CASE Handed(s, svc)
      <3>1. ~AppliedNow BY <1>2, <1>4, <1>7, <2>1 DEF Handed, AppliedNow
      <3> QED BY <3>1
    <2>2. CASE Moved(s, svc)
      <3>1. svc.scene = s.scene /\ svc.stageEnabled = s.stageEnabled BY <2>2 DEF Moved
      <3>2. s.scene.generation = 0 /\ s.scene.transportRevision = 0
        BY DEF s, InitialService
      <3>3. renderer.applied.generation = 0 /\ renderer.applied.transportRevision = 0
        BY DEF SystemInit, Renderer!Init
      <3> QED BY <1>4, <3>1, <3>2, <3>3
    <2> QED BY <1>5, <2>1, <2>2 DEF Calm
  <1>10. DOMAIN events = {} BY <1>1
  <1>11. LoadIsDark(svc, edit) BY <1>1 DEF LoadIsDark, NoEdit
  <1>12. Numbered /\ EventsAreTrue BY <1>9, <1>10 DEF Numbered, EventsAreTrue
  <1>13. Attempts BY <1>2, <1>7 DEF Attempts, AppliedNow
  <1>14. SourceIsBelieved /\ StageIsBelieved
    BY <1>2, <1>9 DEF SourceIsBelieved, StageIsBelieved
  <1> QED BY <1>8, <1>11, <1>12, <1>13, <1>14 DEF BeliefInv

\* Every step keeps the belief, as long as no event is dropped.
LEMMA BeliefKeeps ==
  ASSUME SystemInv, BeliefInv, Len(events) < EventLimit, [SystemNext]_systemVars
  PROVE  BeliefInv'
  <1>1. Good BY InvIsGood
  <1>2. CASE ByService(Commands \/ Preparation \/ Update \/ Stage \/ Show)
    BY <1>2, ServiceBelieves
  <1>3. CASE ByRenderer(Renderer!Next)
    <2>1. Renderer!Next /\ svc' = svc /\ edit' = edit BY <1>3 DEF ByRenderer, vars
    <2> QED BY <1>1, <2>1, RendererBelieves
  <1>4. CASE HearEvent BY <1>4, HearingBelieves
  <1>5. CASE UNCHANGED systemVars
    <2>1. svc' = svc /\ edit' = edit /\ renderer' = renderer /\ events' = events
      BY <1>5 DEF systemVars, vars
    <2>2. Trusts(svc') /\ LoadIsDark(svc', edit') BY <2>1 DEF BeliefInv
    <2>3. Moved(svc, svc') BY <2>1 DEF Moved
    <2> QED BY <2>1, <2>2, <2>3, MovedBelieves
  <1> QED BY <1>2, <1>3, <1>4, <1>5 DEF SystemNext

\* When nothing is under way, nothing is left to be told.
LEMMA BeliefShows ==
  ASSUME SystemInv, BeliefInv
  PROVE  BeliefIsReal
  <1>1. Good /\ PlaybackInv /\ HandedOver(svc) BY InvIsGood
  <1>2. Holding /\ renderer \in Holder BY <1>1, GoodFacts
  <1>3. /\ Attempts /\ SourceIsBelieved /\ StageIsBelieved BY DEF BeliefInv
  <1> SUFFICES ASSUME Renderer!Quiescent, ~svc.closed
               PROVE  /\ svc.state \in {"playing", "paused"} =>
                           renderer.foreground.id = svc.foreground.id
                      /\ svc.state \in {"stopped", "error"} => renderer.foreground.id = 0
                      /\ ~Waits(svc) => svc.stageEnabled = renderer.stageEnabled
    BY DEF BeliefIsReal
  <1>4. /\ renderer.todo = <<>> /\ events = <<>> /\ renderer.attempted = svc.scene.revision
    BY DEF Renderer!Quiescent, Renderer!Idle
  <1>5. DOMAIN renderer.todo = {} /\ DOMAIN events = {} BY <1>4
  <1>6. ~EscapeIsDue BY <1>5 DEF EscapeIsDue
  <1>7. \A do, n : <<do, n>> \notin Due BY <1>5, DueSomewhere DEF DueStep, DueEvent
  <1>8. ~Wiped /\ ~Gone /\ ~Failed BY <1>6, <1>7, DueSomewhere DEF Gone, Failed
  <1>9. AppliedNow
    <2>1. renderer.applied.revision \in Nat /\ svc.scene.revision \in Nat
      BY <1>1, <1>2, SceneIsKnown DEF Holder, Renderer!Applied
    <2> QED BY <1>3, <1>4, <1>6, <2>1 DEF Attempts, AppliedNow
  <1>10. /\ Resting(svc) => svc.foreground.id = 0
         /\ svc.state \in {"playing", "paused"} => svc.foreground.id # 0
    <2>1. Settled(svc, imageWorker, edit) BY <1>1 DEF PlaybackInv, ReservationInv
    <2>2. LoadsAgree(svc, loader) BY <1>1 DEF PlaybackInv, WorkAgrees
    <2>3. Resting(svc) => svc.foreground.id = 0 BY <2>1 DEF Settled
    <2> QED BY <2>2, <2>3 DEF LoadsAgree
  <1>11. svc.scene.foregroundID = svc.foreground.id BY <1>1 DEF HandedOver
  <1>12. renderer.foreground.id # 0 => renderer.foreground.id = svc.scene.foregroundID
    BY <1>2, <1>9 DEF Holding, AppliedNow
  <1>13. ASSUME svc.state \in {"playing", "paused"}
         PROVE  renderer.foreground.id = svc.foreground.id
    <2>1. ~Waits(svc) BY <1>13 DEF Waits
    <2>2. renderer.foreground.id # 0
      BY <1>3, <1>8, <1>9, <1>10, <1>11, <1>13, <2>1 DEF SourceIsBelieved
    <2> QED BY <1>11, <1>12, <2>2
  <1>14. ASSUME svc.state \in {"stopped", "error"} PROVE renderer.foreground.id = 0
    BY <1>10, <1>11, <1>12, <1>14 DEF Resting
  <1>15. ASSUME ~Waits(svc) PROVE svc.stageEnabled = renderer.stageEnabled
    BY <1>3, <1>7, <1>8, <1>9, <1>15 DEF StageIsBelieved
  <1> QED BY <1>13, <1>14, <1>15

\* As long as the queue does not fill, what the service believes comes true: once
\* nothing is under way, what it shows as playing or paused has a player, what rests
\* has none, and the stage is on exactly when it says so (eventLoop against emitScene,
\* applyScene and the faults in between).
THEOREM BeliefAlwaysReal ==
  SystemSpec /\ [](Len(events) < EventLimit) => []BeliefIsReal
  <1> DEFINE Room == Len(events) < EventLimit
             Believed == SystemInv /\ BeliefInv
  <1>1. SystemInit => Believed BY SystemStarts, BeliefStarts
  <1>2. Believed /\ Room /\ [SystemNext]_systemVars => Believed'
    BY SystemKeeps, BeliefKeeps
  <1>3. Believed => BeliefIsReal BY BeliefShows
  <1> HIDE DEF Room, Believed
  <1>4. SystemSpec /\ []Room => []BeliefIsReal
    BY <1>1, <1>2, <1>3, PTL DEF SystemSpec
  <1> QED BY <1>4 DEF Room

-----------------------------------------------------------------------------
(* How the answer to STOP travels. *)

\* The elements of a task that goes on.
LEMMA GoesOn ==
  ASSUME NEW S, NEW q \in Seq(S), q # <<>>, NEW steps \in Seq(S)
  PROVE  \A i \in DOMAIN (steps \o Tail(q)) :
           \/ \E j \in DOMAIN steps : (steps \o Tail(q))[i] = steps[j]
           \/ \E j \in DOMAIN q : (steps \o Tail(q))[i] = q[j]
  <1> DEFINE all == steps \o Tail(q)
             m == Len(steps)
             n == Len(q)
  <1>1. /\ m \in Nat /\ n \in Nat \ {0} /\ DOMAIN steps = 1 .. m /\ DOMAIN q = 1 .. n
        /\ Tail(q) \in Seq(S) /\ Len(Tail(q)) = n - 1
        /\ \A i \in 1 .. n - 1 : Tail(q)[i] = q[i + 1]
    BY Queues
  <1>2. DOMAIN all = 1 .. m + n - 1 BY <1>1
  <1>3. \A i \in 1 .. m : all[i] = steps[i] BY <1>1
  <1>4. \A i \in m + 1 .. m + n - 1 : all[i] = q[i - m + 1] BY <1>1
  <1> HIDE DEF all, m, n
  <1>5. ASSUME NEW i \in DOMAIN all
        PROVE  \/ \E j \in DOMAIN steps : all[i] = steps[j]
               \/ \E j \in DOMAIN q : all[i] = q[j]
    <2>1. CASE i <= m BY <1>1, <1>2, <1>3, <2>1
    <2>2. CASE ~(i <= m)
      <3>1. i \in m + 1 .. m + n - 1 /\ i - m + 1 \in 1 .. n BY <1>1, <1>2, <2>2
      <3> QED BY <1>1, <1>4, <3>1
    <2> QED BY <2>1, <2>2
  <1> QED BY <1>5 DEF all

\* The events of a queue that took one in, and dropped one perhaps.
LEMMA QueueHolds ==
  ASSUME events \in Seq(Message), NEW e \in Message, Renderer!Queue(e)
  PROVE  \A i \in DOMAIN events' : events'[i] = e \/ \E j \in DOMAIN events : events'[i] = events[j]
  <1>1. /\ Len(events) \in Nat /\ DOMAIN events = 1 .. Len(events)
        /\ EventLimit \in Nat \ {0}
    BY Queues, RendererAssumption
  <1>2. CASE Len(events) < EventLimit
    <2>1. events' = Append(events, e) BY <1>2 DEF Renderer!Queue
    <2>2. /\ DOMAIN events' = 1 .. Len(events) + 1 /\ events'[Len(events) + 1] = e
          /\ \A i \in 1 .. Len(events) : events'[i] = events[i]
      BY <2>1, Queues
    <2> TAKE i \in DOMAIN events'
    <2>3. i \in 1 .. Len(events) \/ i = Len(events) + 1 BY <1>1, <2>2
    <2> QED BY <1>1, <2>2, <2>3
  <1>3. CASE ~(Len(events) < EventLimit)
    <2> DEFINE q == Tail(events)
    <2>1. events # <<>> BY <1>1, <1>3
    <2>2. /\ q \in Seq(Message) /\ Len(q) = Len(events) - 1
          /\ \A i \in 1 .. Len(events) - 1 : q[i] = events[i + 1]
      BY <2>1, Queues
    <2>3. events' = Append(q, e) BY <1>3 DEF Renderer!Queue
    <2> HIDE DEF q
    <2>4. /\ DOMAIN events' = 1 .. Len(q) + 1 /\ events'[Len(q) + 1] = e
          /\ \A i \in 1 .. Len(q) : events'[i] = q[i]
      BY <2>2, <2>3, Queues
    <2> TAKE i \in DOMAIN events'
    <2>5. i \in 1 .. Len(events) - 1 \/ i = Len(q) + 1 BY <1>1, <2>2, <2>4
    <2>6. i \in 1 .. Len(events) - 1 => i + 1 \in DOMAIN events /\ events'[i] = events[i + 1]
      BY <1>1, <2>2, <2>4
    <2> QED BY <2>4, <2>5, <2>6
  <1> QED BY <1>2, <1>3

-----------------------------------------------------------------------------
(* What a step of the renderer has to show for the silence. *)

\* the steps but the answer to STOP
Quietly == {task \in Renderer!Task : task.do # "stopped"}

\* Under one and the same scene: nothing begins to play or to fade, and a "stopped"
\* is resolved on or said in silence.
LEMMA SilentOn ==
  ASSUME Good, SilenceInv, svc' = svc, renderer' \in Holder,
         renderer'.applied = renderer.applied, renderer'.attempted = renderer.attempted,
         renderer.foreground.id = 0 => renderer'.foreground.id = 0,
         renderer'.tail => renderer.tail,
         \A i \in DOMAIN renderer'.todo : renderer'.todo[i].do = "stopped" =>
           \/ \E j \in DOMAIN renderer.todo : renderer'.todo[i] = renderer.todo[j]
           \/ renderer'.foreground.id = 0 /\ ~renderer'.tail,
         \A i \in DOMAIN events' :
           \/ \E j \in DOMAIN events : events'[i] = events[j]
           \/ events'[i].kind = "escape"
           \/ /\ events'[i].sceneRevision = renderer.applied.revision
              /\ events'[i].kind = "stopped" =>
                   \/ renderer.todo # <<>> /\ Told(renderer.todo[1]) = Said(events'[i])
                   \/ renderer'.foreground.id = 0 /\ ~renderer'.tail
  PROVE  SilenceInv'
  <1>1. SaidInOrder /\ AnswersAreSilent BY DEF SilenceInv
  <1>2. /\ renderer.todo \in Seq(Renderer!Task) /\ renderer.applied.revision \in Nat
        /\ renderer.tail \in BOOLEAN /\ renderer'.tail \in BOOLEAN
    BY GoodFacts DEF Holder, Renderer!Applied
  <1>3. renderer.todo # <<>> => 1 \in DOMAIN renderer.todo BY <1>2
  <1>4. SaidInOrder' BY <1>1, <1>2 DEF SaidInOrder
  <1>5. AnswersAreSilent'
    <2> SUFFICES ASSUME svc.state = "stopping"
                 PROVE  /\ \A i \in DOMAIN renderer'.todo :
                             Told(renderer'.todo[i]) = <<"stopped", svc.generation>>
                               => renderer'.foreground.id = 0 /\ ~renderer'.tail
                        /\ \A i \in DOMAIN events' :
                             Said(events'[i]) = <<"stopped", svc.generation>>
                               => QuietSince(events[i])'
      BY DEF AnswersAreSilent, Told, Said
    <2>1. ASSUME NEW i \in DOMAIN renderer.todo,
                 Told(renderer.todo[i]) = <<"stopped", svc.generation>>
          PROVE  renderer'.foreground.id = 0 /\ ~renderer'.tail
      BY <1>1, <1>2, <2>1 DEF AnswersAreSilent
    <2>2. ASSUME NEW i \in DOMAIN renderer'.todo,
                 Told(renderer'.todo[i]) = <<"stopped", svc.generation>>
          PROVE  renderer'.foreground.id = 0 /\ ~renderer'.tail
      <3>1. renderer'.todo[i].do = "stopped" BY <2>2 DEF Told
      <3> QED BY <2>1, <2>2, <3>1
    <2>3. ASSUME NEW i \in DOMAIN events',
                 Said(events'[i]) = <<"stopped", svc.generation>>
          PROVE  QuietSince(events[i])'
      <3>1. events'[i].kind = "stopped" BY <2>3 DEF Said
      <3>2. CASE \E j \in DOMAIN events : events'[i] = events[j]
        <4>1. PICK j \in DOMAIN events : events'[i] = events[j] BY <3>2
        <4>2. QuietSince(events[j]) BY <1>1, <2>3, <4>1 DEF AnswersAreSilent
        <4> QED BY <1>2, <4>1, <4>2 DEF QuietSince
      <3>3. CASE ~(\E j \in DOMAIN events : events'[i] = events[j])
        <4>1. \/ renderer.todo # <<>> /\ Told(renderer.todo[1]) = Said(events'[i])
              \/ renderer'.foreground.id = 0 /\ ~renderer'.tail
          BY <3>1, <3>3
        <4>2. renderer'.foreground.id = 0 /\ ~renderer'.tail
          BY <1>3, <2>1, <2>3, <4>1
        <4> QED BY <4>2 DEF QuietSince
      <3> QED BY <3>2, <3>3
    <2> QED BY <2>2, <2>3
  <1> QED BY <1>4, <1>5 DEF SilenceInv

\* A step that says nothing leads to others and to the rest of its task.
LEMMA StepIsSilent ==
  ASSUME Good, SilenceInv, svc' = svc, renderer' \in Holder, events' = events,
         renderer.todo # <<>>,
         NEW steps \in Seq(Renderer!Task), renderer'.todo = steps \o Tail(renderer.todo),
         \A i \in DOMAIN steps : steps[i].do = "stopped" =>
           renderer'.foreground.id = 0 /\ ~renderer'.tail,
         renderer'.applied = renderer.applied, renderer'.attempted = renderer.attempted,
         renderer.foreground.id = 0 => renderer'.foreground.id = 0,
         renderer'.tail => renderer.tail
  PROVE  SilenceInv'
  <1> DEFINE q == renderer.todo
  <1>1. /\ q \in Seq(Renderer!Task) /\ q # <<>> /\ renderer'.todo = steps \o Tail(q)
    BY GoodFacts DEF Holder
  <1> HIDE DEF q
  <1>2. \A i \in DOMAIN (steps \o Tail(q)) :
          \/ \E j \in DOMAIN steps : (steps \o Tail(q))[i] = steps[j]
          \/ \E k \in DOMAIN q : (steps \o Tail(q))[i] = q[k]
    BY <1>1, GoesOn
  <1>3. \A i \in DOMAIN renderer'.todo :
          \/ \E j \in DOMAIN steps : renderer'.todo[i] = steps[j]
          \/ \E k \in DOMAIN renderer.todo : renderer'.todo[i] = renderer.todo[k]
    <2> DEFINE all == steps \o Tail(q)
    <2>1. renderer'.todo = all BY <1>1
    <2>2. \A i \in DOMAIN all : \/ \E j \in DOMAIN steps : all[i] = steps[j]
                                \/ \E j \in DOMAIN q : all[i] = q[j]
      BY <1>2
    <2> HIDE DEF all
    <2> QED BY <2>1, <2>2 DEF q
  <1>4. \A i \in DOMAIN renderer'.todo : renderer'.todo[i].do = "stopped" =>
          \/ \E j \in DOMAIN renderer.todo : renderer'.todo[i] = renderer.todo[j]
          \/ renderer'.foreground.id = 0 /\ ~renderer'.tail
    BY <1>3
  <1>5. \A i \in DOMAIN events' : \E j \in DOMAIN events : events'[i] = events[j] OBVIOUS
  <1> QED BY <1>4, <1>5, SilentOn

\* Another task begins, or the one there is stays.
LEMMA TurnIsSilent ==
  ASSUME Good, SilenceInv, svc' = svc, renderer' \in Holder, events' = events,
         renderer'.todo = renderer.todo \/ renderer'.todo \in Seq(Quietly),
         renderer'.applied = renderer.applied, renderer'.attempted = renderer.attempted,
         renderer.foreground.id = 0 => renderer'.foreground.id = 0,
         renderer'.tail => renderer.tail
  PROVE  SilenceInv'
  <1>1. \A i \in DOMAIN renderer'.todo : renderer'.todo[i].do = "stopped" =>
          \E j \in DOMAIN renderer.todo : renderer'.todo[i] = renderer.todo[j]
    <2>1. CASE renderer'.todo = renderer.todo BY <2>1
    <2>2. CASE renderer'.todo \in Seq(Quietly)
      <3>1. \A i \in DOMAIN renderer'.todo : renderer'.todo[i] \in Quietly BY <2>2, Queues
      <3> QED BY <3>1 DEF Quietly
    <2> QED BY <2>1, <2>2
  <1>2. \A i \in DOMAIN events' : \E j \in DOMAIN events : events'[i] = events[j] OBVIOUS
  <1> QED BY <1>1, <1>2, SilentOn

\* A newer scene: what was said before was said of an older one.
LEMMA SilentAnew ==
  ASSUME SystemInv, SilenceInv, svc' = svc, renderer' \in Holder, events' = events,
         renderer.attempted < svc.scene.revision, renderer'.attempted = svc.scene.revision,
         renderer'.applied.revision = svc.scene.revision,
         renderer'.foreground.id \in {0, svc.scene.foregroundID},
         renderer'.tail => renderer'.todo \in Seq(Quietly),
         \A i \in DOMAIN renderer'.todo : renderer'.todo[i] \in Renderer!Task
  PROVE  SilenceInv'
  <1>1. SaidInOrder BY DEF SilenceInv
  <1>2. /\ renderer \in Holder /\ renderer.applied.revision \in Nat /\ renderer.attempted \in Nat
        /\ svc.scene.revision \in Nat /\ events \in Seq(Message)
    BY InvIsGood, GoodFacts, SceneIsKnown DEF Holder, Renderer!Applied
  <1>3. \A i \in DOMAIN events : events[i].sceneRevision \in Nat
    <2>1. \A i \in DOMAIN events : events[i] \in Message BY <1>2, Queues
    <2> QED BY <2>1 DEF Message
  <1>4. \A i \in DOMAIN events : events[i].kind # "escape" =>
          events[i].sceneRevision < svc.scene.revision
    BY <1>1, <1>2, <1>3 DEF SaidInOrder
  <1>5. SaidInOrder'
    BY <1>2, <1>3, <1>4 DEF SaidInOrder
  <1>6. AnswersAreSilent'
    <2> SUFFICES ASSUME svc.state = "stopping"
                 PROVE  /\ \A i \in DOMAIN renderer'.todo :
                             Told(renderer'.todo[i]) = <<"stopped", svc.generation>>
                               => renderer'.foreground.id = 0 /\ ~renderer'.tail
                        /\ \A i \in DOMAIN events' :
                             Said(events'[i]) = <<"stopped", svc.generation>>
                               => QuietSince(events[i])'
      BY DEF AnswersAreSilent, Told, Said
    <2>1. renderer'.foreground.id = 0
      <3>1. Settled(svc, imageWorker, edit) /\ HandedOver(svc)
        BY InvIsGood DEF PlaybackInv, ReservationInv
      <3>2. svc.foreground.id = 0 BY <3>1 DEF Settled, Resting
      <3> QED BY <3>1, <3>2 DEF HandedOver
    <2>2. ASSUME NEW i \in DOMAIN renderer'.todo,
                 Told(renderer'.todo[i]) = <<"stopped", svc.generation>>
          PROVE  ~renderer'.tail
      <3>1. renderer'.todo[i].do = "stopped" BY <2>2 DEF Told
      <3> SUFFICES ASSUME renderer'.todo \in Seq(Quietly) PROVE FALSE OBVIOUS
      <3>2. renderer'.todo[i] \in Quietly BY Queues
      <3> QED BY <3>1, <3>2 DEF Quietly
    <2>3. ASSUME NEW i \in DOMAIN events,
                 Said(events[i]) = <<"stopped", svc.generation>>
          PROVE  events[i].sceneRevision < svc.scene.revision
      <3>1. events[i].kind = "stopped" BY <2>3 DEF Said
      <3> QED BY <1>4, <3>1
    <2> QED BY <2>1, <2>2, <2>3 DEF QuietSince
  <1> QED BY <1>5, <1>6 DEF SilenceInv

-----------------------------------------------------------------------------
(* Every action of the renderer. *)

\* The types hold after a step as before.
LEMMA StaysHolder ==
  ASSUME Good, svc' = svc, Renderer!Next
  PROVE  renderer' \in Holder
  <1>1. Renderer!TypeOK' BY RendererKeeps DEF Both
  <1>2. (Renderer!TypeOK <=>
           renderer \in Holder /\ events \in Seq(Message) /\ Len(events) <= EventLimit)'
    BY Halves, PTL
  <1> QED BY <1>1, <1>2

\* Tasks of steps that are not the answer.
LEMMA QuietSteps ==
  ASSUME NEW id \in Nat
  PROVE  /\ <<>> \in Seq(Quietly)
         /\ \A do \in {"ready", "finish", "mix"} : <<Renderer!Do(do, 0)>> \in Seq(Quietly)
         /\ \A do \in {"playing", "paused", "error", "ended", "background-error", "stage",
                       "device-lost"} :
              /\ <<Renderer!Do(do, id)>> \in Seq(Quietly)
              /\ <<Renderer!Do(do, id), Renderer!Do("mix", 0)>> \in Seq(Quietly)
              /\ <<Renderer!Do("mix", 0), Renderer!Do(do, id)>> \in Seq(Quietly)
              /\ <<Renderer!Do(do, id)>> \o <<Renderer!Do("mix", 0)>> \in Seq(Quietly)
         /\ <<>> \o <<Renderer!Do("mix", 0)>> \in Seq(Quietly)
         /\ Seq(Quietly) \subseteq Seq(Renderer!Task)
         /\ \A steps \in Seq(Quietly) : \A i \in DOMAIN steps : steps[i].do # "stopped"
  <1>1. \A do \in {"ready", "finish", "mix"} : Renderer!Do(do, 0) \in Quietly
    BY DEF Renderer!Do, Renderer!Task, Quietly
  <1>2. \A do \in {"playing", "paused", "error", "ended", "background-error", "stage",
                  "device-lost"} : Renderer!Do(do, id) \in Quietly
    BY DEF Renderer!Do, Renderer!Task, Renderer!EventKinds, Quietly
  <1>3. Quietly \subseteq Renderer!Task /\ \A task \in Quietly : task.do # "stopped"
    BY DEF Quietly
  <1> HIDE DEF Quietly
  <1>4. \A a, b \in Quietly : /\ <<a>> \in Seq(Quietly) /\ <<a, b>> \in Seq(Quietly)
                              /\ <<a>> \o <<b>> \in Seq(Quietly) /\ <<>> \o <<b>> \in Seq(Quietly)
                              /\ <<>> \in Seq(Quietly)
    OBVIOUS
  <1>5. \A steps \in Seq(Quietly) : /\ \A i \in DOMAIN steps : steps[i] \in Quietly
                                   /\ steps \in Seq(Renderer!Task)
    BY <1>3
  <1> QED BY <1>1, <1>2, <1>3, <1>4, <1>5

\* readyForeground keeps its player or drops it, and does not answer STOP.
LEMMA ReadyIsSilent ==
  ASSUME Good, SilenceInv, svc' = svc, renderer' \in Holder,
         NEW p, NEW steps \in Seq(Quietly), Renderer!ReadyWith(p, steps),
         p.id \in {0, renderer.foreground.id}
  PROVE  SilenceInv'
  <1>1. renderer \in Holder BY GoodFacts
  <1>2. /\ renderer.todo # <<>> /\ events' = events
        /\ renderer' = [renderer EXCEPT !.foreground = p, !.todo = steps \o Tail(renderer.todo)]
    BY <1>1 DEF Renderer!ReadyWith, Renderer!Doing, Renderer!Idle, Renderer!Continue, Holder
  <1>3. /\ renderer'.applied = renderer.applied /\ renderer'.attempted = renderer.attempted
        /\ renderer'.tail = renderer.tail
        /\ renderer'.foreground = p /\ renderer'.todo = steps \o Tail(renderer.todo)
    BY <1>1, <1>2 DEF Holder
  <1>4. /\ steps \in Seq(Renderer!Task) /\ \A i \in DOMAIN steps : steps[i].do # "stopped"
    <2>1. 0 \in Nat OBVIOUS
    <2> QED BY <2>1, QuietSteps
  <1> QED BY <1>2, <1>3, <1>4, StepIsSilent

\* What readyForeground does.
LEMMA ReadiesAreSilent ==
  ASSUME Good, SilenceInv, svc' = svc, renderer' \in Holder,
         \/ Renderer!ReadyTooEarly \/ Renderer!ReadySeeks \/ Renderer!ReadyPaused
         \/ Renderer!ReadyAtEnd \/ Renderer!ReadyPlays \/ Renderer!ReadyFails
  PROVE  SilenceInv'
  <1> DEFINE p == renderer.foreground
             m == Renderer!Do("mix", 0)
             f == Renderer!Do("finish", 0)
  <1>1. p \in Renderer!Player /\ p.id \in Nat BY GoodFacts DEF Renderer!Player
  <1>2. /\ <<>> \in Seq(Quietly) /\ <<m>> \in Seq(Quietly) /\ <<f>> \in Seq(Quietly)
        /\ <<Renderer!Do("error", p.id), m>> \in Seq(Quietly)
        /\ \A kind \in {"paused", "playing"} : Renderer!Report(p, kind) \o <<m>> \in Seq(Quietly)
    BY <1>1, QuietSteps DEF Renderer!Report
  <1> HIDE DEF m, f
  <1>3. \E q, steps : /\ Renderer!ReadyWith(q, steps) /\ q.id \in {0, p.id}
                      /\ steps \in Seq(Quietly)
    <2>1. CASE Renderer!ReadyTooEarly
      BY <1>2, <2>1 DEF Renderer!ReadyTooEarly
    <2>2. CASE Renderer!ReadySeeks
      <3> DEFINE q == [p EXCEPT !.seeking = TRUE, !.rate = FALSE, !.running = FALSE]
      <3>1. Renderer!ReadyWith(q, <<m>>) BY <2>2 DEF Renderer!ReadySeeks, m
      <3>2. q.id = p.id BY <1>1 DEF Renderer!Player
      <3> HIDE DEF q
      <3> QED BY <1>2, <3>1, <3>2
    <2>3. CASE Renderer!ReadyPaused
      <3> DEFINE q == [p EXCEPT !.rate = FALSE, !.running = FALSE, !.reported = TRUE]
                 steps == Renderer!Report(p, "paused") \o <<m>>
      <3>1. Renderer!ReadyWith(q, steps) BY <2>3 DEF Renderer!ReadyPaused, m
      <3>2. q.id = p.id BY <1>1 DEF Renderer!Player
      <3>3. steps \in Seq(Quietly) BY <1>2
      <3> HIDE DEF q, steps
      <3> QED BY <3>1, <3>2, <3>3
    <2>4. CASE Renderer!ReadyAtEnd
      BY <1>2, <2>4 DEF Renderer!ReadyAtEnd, f
    <2>5. CASE Renderer!ReadyPlays
      <3> DEFINE q == [p EXCEPT !.started = TRUE, !.reported = TRUE]
                 r == [p EXCEPT !.rate = TRUE]
                 steps == Renderer!Report(p, "playing") \o <<m>>
      <3>1. Renderer!ReadyWith(q, steps) \/ Renderer!ReadyWith(r, <<>>)
        BY <2>5 DEF Renderer!ReadyPlays, m
      <3>2. q.id = p.id /\ r.id = p.id BY <1>1 DEF Renderer!Player
      <3>3. steps \in Seq(Quietly) BY <1>2
      <3> HIDE DEF q, r, steps
      <3> QED BY <1>2, <3>1, <3>2, <3>3
    <2>6. CASE Renderer!ReadyFails
      <3>1. Renderer!ReadyWith(Renderer!NoPlayer, <<Renderer!Do("error", p.id), m>>)
        BY <2>6 DEF Renderer!ReadyFails, m
      <3> QED BY <1>2, <3>1, NoPlayerRests
    <2> QED BY <2>1, <2>2, <2>3, <2>4, <2>5, <2>6
  <1> QED BY <1>3, ReadyIsSilent

\* A step whose scene was overtaken is dropped, and one that has its say is said.
LEMMA SayingIsSilent ==
  ASSUME Good, SilenceInv, svc' = svc, renderer' \in Holder,
         Renderer!StepOvertaken \/ Renderer!Emit
  PROVE  SilenceInv'
  <1> DEFINE q == renderer.todo
             e == [kind |-> Head(q).do, generation |-> Head(q).generation,
                   transportRevision |-> renderer.applied.transportRevision,
                   sceneRevision |-> renderer.applied.revision,
                   stageEnabled |-> renderer.stageEnabled]
  <1>1. /\ q \in Seq(Renderer!Task) /\ renderer \in Holder /\ events \in Seq(Message)
    BY GoodFacts DEF Holder
  <1>2. q # <<>> /\ renderer' = [renderer EXCEPT !.todo = <<>> \o Tail(q)]
    BY <1>1 DEF Renderer!StepOvertaken, Renderer!Emit, Renderer!Idle, Renderer!Continue, Holder
  <1>3. /\ renderer'.applied = renderer.applied /\ renderer'.attempted = renderer.attempted
        /\ renderer'.foreground = renderer.foreground /\ renderer'.tail = renderer.tail
        /\ renderer'.todo = <<>> \o Tail(q)
    BY <1>1, <1>2 DEF Holder
  <1>4. CASE Renderer!StepOvertaken
    <2>1. events' = events BY <1>4 DEF Renderer!StepOvertaken
    <2>2. <<>> \in Seq(Renderer!Task) /\ DOMAIN <<>> = {} OBVIOUS
    <2> QED BY <1>2, <1>3, <2>1, <2>2, StepIsSilent
  <1>5. CASE Renderer!Emit
    <2>1. Renderer!Queue(e) BY <1>5 DEF Renderer!Emit, Renderer!Say
    <2>2. Head(q) = q[1] /\ Head(q) \in Renderer!Task BY <1>1, <1>2, Queues
    <2>3. Head(q).do \in Renderer!EventKinds BY <1>5 DEF Renderer!Emit
    <2>4. /\ e \in Message /\ e.sceneRevision = renderer.applied.revision
          /\ Said(e) = Told(q[1])
      BY <1>1, <2>2, <2>3 DEF Message, Said, Told, Holder, Renderer!Applied, Renderer!Task
    <2>5. \A i \in DOMAIN renderer'.todo : \E j \in DOMAIN q : renderer'.todo[i] = q[j]
      <3>1. /\ Tail(q) \in Seq(Renderer!Task) /\ Len(q) \in Nat /\ DOMAIN q = 1 .. Len(q)
            /\ DOMAIN Tail(q) = 1 .. Len(q) - 1
            /\ \A i \in 1 .. Len(q) - 1 : Tail(q)[i] = q[i + 1]
        BY <1>1, <1>2, Queues
      <3>2. renderer'.todo = Tail(q) BY <1>3, <3>1
      <3> TAKE i \in DOMAIN renderer'.todo
      <3>3. i + 1 \in DOMAIN q /\ renderer'.todo[i] = q[i + 1] BY <3>1, <3>2
      <3> QED BY <3>3
    <2> HIDE DEF e
    <2>6. \A i \in DOMAIN events' :
            events'[i] = e \/ \E j \in DOMAIN events : events'[i] = events[j]
      BY <1>1, <2>1, <2>4, QueueHolds
    <2>7. \A i \in DOMAIN events' :
            \/ \E j \in DOMAIN events : events'[i] = events[j]
            \/ events'[i].kind = "escape"
            \/ /\ events'[i].sceneRevision = renderer.applied.revision
               /\ events'[i].kind = "stopped" =>
                    \/ renderer.todo # <<>> /\ Told(renderer.todo[1]) = Said(events'[i])
                    \/ renderer'.foreground.id = 0 /\ ~renderer'.tail
      BY <1>2, <2>4, <2>6
    <2> QED BY <1>3, <2>5, <2>7, SilentOn
  <1> QED BY <1>4, <1>5

\* mixScene resolves to answer STOP in silence only.
LEMMA MixIsSilent ==
  ASSUME Good, SilenceInv, svc' = svc, renderer' \in Holder, Renderer!Mix
  PROVE  SilenceInv'
  <1> DEFINE a == Renderer!Do("stopped", renderer.applied.generation)
  <1>1. renderer \in Holder /\ renderer.applied.generation \in Nat
    BY GoodFacts DEF Holder, Renderer!Applied
  <1>2. a \in Renderer!Task BY <1>1, StepsAreTasks DEF Renderer!EventKinds
  <1> HIDE DEF a
  <1>3. /\ renderer.todo # <<>> /\ events' = events
    BY DEF Renderer!Mix, Renderer!Doing, Renderer!Idle
  <1>4. CASE Renderer!StoppedIsDue
    <2>1. renderer' = [renderer EXCEPT !.stoppedPending = FALSE,
                                       !.todo = <<a>> \o Tail(renderer.todo)]
      BY <1>1, <1>4 DEF Renderer!Mix, Renderer!Continue, Holder, a
    <2>2. /\ renderer'.applied = renderer.applied /\ renderer'.attempted = renderer.attempted
          /\ renderer'.foreground = renderer.foreground /\ renderer'.tail = renderer.tail
          /\ renderer'.todo = <<a>> \o Tail(renderer.todo)
      BY <1>1, <2>1 DEF Holder
    <2>3. renderer'.foreground.id = 0 /\ ~renderer'.tail
      BY <1>4, <2>2 DEF Renderer!StoppedIsDue
    <2>4. <<a>> \in Seq(Renderer!Task) BY <1>2
    <2> QED BY <1>3, <2>2, <2>3, <2>4, StepIsSilent
  <1>5. CASE ~Renderer!StoppedIsDue
    <2>1. renderer' = [renderer EXCEPT !.todo = <<>> \o Tail(renderer.todo)]
      BY <1>1, <1>5 DEF Renderer!Mix, Renderer!Continue, Holder
    <2>2. /\ renderer'.applied = renderer.applied /\ renderer'.attempted = renderer.attempted
          /\ renderer'.foreground = renderer.foreground /\ renderer'.tail = renderer.tail
          /\ renderer'.todo = <<>> \o Tail(renderer.todo)
      BY <1>1, <2>1 DEF Holder
    <2>3. <<>> \in Seq(Renderer!Task) /\ DOMAIN <<>> = {} OBVIOUS
    <2> QED BY <1>3, <2>2, <2>3, StepIsSilent
  <1> QED BY <1>4, <1>5

\* finishSceneForeground retires a source and reports that alone.
LEMMA FinishIsSilent ==
  ASSUME Good, SilenceInv, svc' = svc, renderer' \in Holder, Renderer!Finish
  PROVE  SilenceInv'
  <1> DEFINE p == renderer.foreground
             done == <<Renderer!Do("mix", 0), Renderer!Do("ended", p.id)>>
  <1>1. renderer \in Holder /\ p \in Renderer!Player /\ p.id \in Nat
    BY GoodFacts DEF Renderer!Player
  <1>2. /\ done \in Seq(Quietly) /\ <<>> \in Seq(Quietly)
        /\ \A steps \in Seq(Quietly) : /\ steps \in Seq(Renderer!Task)
                                       /\ \A i \in DOMAIN steps : steps[i].do # "stopped"
    BY <1>1, QuietSteps
  <1> HIDE DEF done
  <1>3. renderer.todo # <<>> /\ events' = events
    BY DEF Renderer!Finish, Renderer!Doing, Renderer!Idle
  <1>4. \/ renderer' = Renderer!Continue([renderer EXCEPT !.foreground = Renderer!NoPlayer,
                                                          !.endedID = p.id], done)
        \/ renderer' = Renderer!Continue(renderer, <<>>)
    BY DEF Renderer!Finish, done
  <1>5. \E steps \in Seq(Quietly) :
          /\ renderer'.todo = steps \o Tail(renderer.todo)
          /\ renderer'.foreground \in {p, Renderer!NoPlayer}
          /\ renderer'.applied = renderer.applied /\ renderer'.attempted = renderer.attempted
          /\ renderer'.tail = renderer.tail
    BY <1>1, <1>2, <1>4 DEF Renderer!Continue, Holder
  <1> QED BY <1>2, <1>3, <1>5, NoPlayerRests, StepIsSilent

\* What the decoder, the timers and the failures begin.
LEMMA TasksAreSilent ==
  ASSUME Good, SilenceInv, svc' = svc, renderer' \in Holder,
         \/ Renderer!Decode \/ Renderer!Fade \/ Renderer!PlayerFails
         \/ Renderer!BackgroundFails \/ Renderer!LosesDevice
  PROVE  SilenceInv'
  <1> DEFINE p == renderer.foreground
  <1>1. /\ renderer \in Holder /\ p \in Renderer!Player /\ p.id \in Nat
        /\ renderer.applied.generation \in Nat
    BY GoodFacts DEF Renderer!Player, Holder, Renderer!Applied
  <1>2. /\ events' = events
        /\ renderer'.applied = renderer.applied /\ renderer'.attempted = renderer.attempted
        /\ renderer'.foreground.id \in {0, p.id} /\ (renderer'.tail => renderer.tail)
        /\ renderer'.todo = renderer.todo \/ renderer'.todo \in Seq(Quietly)
    <2>1. CASE Renderer!Loads \/ Renderer!Runs \/ Renderer!Sought \/ Renderer!ReachesEnd
      <3> DEFINE ready == <<Renderer!Do("ready", 0)>>
                 finish == <<Renderer!Do("finish", 0)>>
      <3>1. ready \in Seq(Quietly) /\ finish \in Seq(Quietly) BY <1>1, QuietSteps
      <3>2. PICK q, steps : /\ q.id = p.id /\ steps \in Seq(Quietly)
                            /\ Renderer!Observe(q, steps)
        <4>1. CASE Renderer!Loads
          <5> DEFINE q == [p EXCEPT !.loaded = TRUE]
          <5>1. q.id = p.id BY <1>1 DEF Renderer!Player
          <5>2. Renderer!Observe(q, ready) BY <4>1 DEF Renderer!Loads
          <5> HIDE DEF q, ready
          <5> QED BY <3>1, <5>1, <5>2
        <4>2. CASE Renderer!Runs
          <5> DEFINE q == [p EXCEPT !.running = TRUE]
          <5>1. q.id = p.id BY <1>1 DEF Renderer!Player
          <5>2. Renderer!Observe(q, ready) BY <4>2 DEF Renderer!Runs
          <5> HIDE DEF q, ready
          <5> QED BY <3>1, <5>1, <5>2
        <4>3. CASE Renderer!Sought
          <5> DEFINE q(end) == [p EXCEPT !.seeking = FALSE, !.soughtRevision = p.seekRevision,
                                         !.atEnd = end]
          <5>1. \A end \in BOOLEAN : q(end).id = p.id BY <1>1 DEF Renderer!Player
          <5>2. \E end \in BOOLEAN : Renderer!Observe(q(end), ready)
            BY <4>3 DEF Renderer!Sought
          <5> HIDE DEF q, ready
          <5> QED BY <3>1, <5>1, <5>2
        <4>4. CASE Renderer!ReachesEnd
          <5> DEFINE q == [p EXCEPT !.atEnd = TRUE, !.rate = FALSE, !.running = FALSE]
          <5>1. q.id = p.id BY <1>1 DEF Renderer!Player
          <5>2. Renderer!Observe(q, finish) BY <4>4 DEF Renderer!ReachesEnd
          <5> HIDE DEF q, finish
          <5> QED BY <3>1, <5>1, <5>2
        <4> QED BY <2>1, <4>1, <4>2, <4>3, <4>4
      <3>3. events' = events /\ renderer' = [renderer EXCEPT !.foreground = q, !.todo = steps]
        BY <3>2 DEF Renderer!Observe
      <3> QED BY <1>1, <3>2, <3>3 DEF Holder
    <2>2. CASE Renderer!BackgroundStarts \/ Renderer!Fade
      <3> DEFINE steps == <<Renderer!Do("mix", 0)>>
      <3>1. steps \in Seq(Quietly) BY <1>1, QuietSteps
      <3>2. /\ events' = events
            /\ \/ renderer' = [renderer EXCEPT !.background.started = TRUE, !.todo = steps]
               \/ renderer' = [renderer EXCEPT !.tail = FALSE, !.todo = steps]
        BY <2>2 DEF Renderer!BackgroundStarts, Renderer!Fade, Renderer!FadesOut,
                    Renderer!TailEnds
      <3> HIDE DEF steps
      <3> QED BY <1>1, <3>1, <3>2 DEF Holder
    <2>3. CASE Renderer!BackgroundFails
      <3> DEFINE steps == <<Renderer!Do("background-error", renderer.applied.generation),
                            Renderer!Do("mix", 0)>>
      <3>1. steps \in Seq(Quietly) BY <1>1, QuietSteps
      <3>2. /\ events' = events
            /\ renderer' = [renderer EXCEPT !.background = Renderer!NoBackground,
                                            !.faults = @ + 1, !.todo = steps]
        BY <2>3 DEF Renderer!BackgroundFails
      <3> HIDE DEF steps
      <3> QED BY <1>1, <3>1, <3>2 DEF Holder
    <2>4. CASE Renderer!PlayerFails
      <3> DEFINE steps == <<Renderer!Do("error", p.id), Renderer!Do("mix", 0)>>
      <3>1. steps \in Seq(Quietly) BY <1>1, QuietSteps
      <3>2. /\ events' = events
            /\ \/ renderer' = [renderer EXCEPT !.foreground = Renderer!NoPlayer,
                                               !.faults = @ + 1, !.todo = steps]
               \/ renderer' = [renderer EXCEPT !.foreground.failed = TRUE, !.faults = @ + 1]
        BY <2>4 DEF Renderer!PlayerFails
      <3> HIDE DEF steps
      <3>3. CASE renderer' = [renderer EXCEPT !.foreground = Renderer!NoPlayer,
                                              !.faults = @ + 1, !.todo = steps]
        BY <1>1, <3>1, <3>2, <3>3, NoPlayerRests DEF Holder
      <3>4. CASE renderer' = [renderer EXCEPT !.foreground.failed = TRUE, !.faults = @ + 1]
        BY <1>1, <3>2, <3>4 DEF Holder, Renderer!Player
      <3> QED BY <3>2, <3>3, <3>4
    <2>5. CASE Renderer!LosesDevice
      <3> DEFINE steps == <<Renderer!Do("device-lost", renderer.applied.generation)>>
      <3>1. steps \in Seq(Quietly) BY <1>1, QuietSteps
      <3>2. /\ events' = events
            /\ renderer' = [Renderer!TearDown(renderer) EXCEPT !.faults = @ + 1, !.todo = steps]
        BY <2>5 DEF Renderer!LosesDevice
      <3> HIDE DEF steps
      <3> QED BY <1>1, <3>1, <3>2, NoPlayerRests DEF Holder, Renderer!TearDown
    <2> QED BY <2>1, <2>2, <2>3, <2>4, <2>5 DEF Renderer!Decode
  <1> QED BY <1>2, TurnIsSilent

\* The position and Escape are said, and Escape silences.
LEMMA OthersAreSilent ==
  ASSUME Good, SilenceInv, svc' = svc, renderer' \in Holder,
         Renderer!Progresses \/ Renderer!PressEscape
  PROVE  SilenceInv'
  <1>1. renderer \in Holder /\ events \in Seq(Message) BY GoodFacts
  <1>2. CASE Renderer!Progresses
    <2> DEFINE e == [kind |-> "progress", generation |-> renderer.foreground.id,
                     transportRevision |-> renderer.applied.transportRevision,
                     sceneRevision |-> renderer.applied.revision,
                     stageEnabled |-> renderer.stageEnabled]
    <2>1. Renderer!Queue(e) /\ renderer' = renderer
      BY <1>2 DEF Renderer!Progresses, Renderer!Say
    <2>2. /\ e \in Message /\ e.sceneRevision = renderer.applied.revision
          /\ e.kind # "stopped"
      BY <1>1, GoodFacts DEF Holder, Renderer!Applied, Renderer!Player, Message,
                             Renderer!EventKinds
    <2> HIDE DEF e
    <2>3. \A i \in DOMAIN events' :
            events'[i] = e \/ \E j \in DOMAIN events : events'[i] = events[j]
      BY <1>1, <2>1, <2>2, QueueHolds
    <2> QED BY <2>1, <2>2, <2>3, SilentOn
  <1>3. CASE Renderer!PressEscape
    <2> DEFINE e == [kind |-> "escape", generation |-> renderer.applied.generation,
                     transportRevision |-> 0, sceneRevision |-> 0, stageEnabled |-> FALSE]
               at == IF renderer.applied.revision = 0 THEN Renderer!TearDown(renderer).escapedAt
                     ELSE svc.scene.revision
    <2>1. /\ Renderer!Queue(e)
          /\ renderer' = [Renderer!TearDown(renderer) EXCEPT !.faults = @ + 1, !.escapedAt = at]
      BY <1>3 DEF Renderer!PressEscape
    <2>2. e \in Message /\ e.kind = "escape"
      BY <1>1 DEF Holder, Renderer!Applied, Message
    <2> HIDE DEF e, at
    <2>3. /\ renderer'.applied = renderer.applied /\ renderer'.attempted = renderer.attempted
          /\ renderer'.todo = renderer.todo /\ renderer'.foreground.id = 0
          /\ ~renderer'.tail
      BY <1>1, <2>1, NoPlayerRests DEF Holder, Renderer!TearDown
    <2>4. \A i \in DOMAIN events' :
            events'[i] = e \/ \E j \in DOMAIN events : events'[i] = events[j]
      BY <1>1, <2>1, <2>2, QueueHolds
    <2> QED BY <2>2, <2>3, <2>4, SilentOn
  <1> QED BY <1>2, <1>3

\* applyScene.
LEMMA ScenesAreSilent ==
  ASSUME SystemInv, SilenceInv, svc' = svc, renderer' \in Holder, Renderer!Apply
  PROVE  SilenceInv'
  <1> DEFINE a == Renderer!Accept(renderer)
             n == svc.scene.generation
  <1>1. Good /\ renderer \in Holder /\ n \in Nat /\ svc.scene.foregroundID \in Nat
    BY InvIsGood, GoodFacts, SceneIsKnown
  <1>2. renderer.attempted < svc.scene.revision /\ events' = events
    BY DEF Renderer!Apply, Renderer!ApplyNothing, Renderer!ApplyHard,
           Renderer!ApplyWithoutDisplay, Renderer!ApplyScene, Renderer!Pending
  <1>3. \A i \in DOMAIN renderer'.todo : renderer'.todo[i] \in Renderer!Task
    <2>1. renderer'.todo \in Seq(Renderer!Task) BY DEF Holder
    <2> QED BY <2>1, Queues
  <1>4. CASE Renderer!ApplyNothing
    <2>1. /\ renderer'.applied = renderer.applied /\ renderer'.attempted = svc.scene.revision
          /\ renderer'.todo = renderer.todo
          /\ renderer'.foreground = renderer.foreground /\ renderer'.tail = renderer.tail
      BY <1>1, <1>4 DEF Renderer!ApplyNothing, Holder
    <2>2. /\ renderer.applied.revision \in Nat /\ renderer.attempted \in Nat
          /\ svc.scene.revision \in Nat
      BY <1>1, SceneIsKnown DEF Holder, Renderer!Applied
    <2>3. SaidInOrder'
      BY <1>2, <2>1, <2>2 DEF SilenceInv, SaidInOrder
    <2>4. AnswersAreSilent'
      BY <1>2, <2>1 DEF SilenceInv, AnswersAreSilent, Told, Said, QuietSince
    <2> QED BY <2>3, <2>4 DEF SilenceInv
  <1>5. CASE Renderer!ApplyHard \/ Renderer!ApplyWithoutDisplay
    <2>1. PICK steps, faults :
            renderer' = [Renderer!TearDown(a) EXCEPT !.faults = faults, !.todo = steps]
      <3>1. CASE Renderer!ApplyHard
        <4> DEFINE steps == <<Renderer!Do("stage", n), Renderer!Do("stopped", n)>>
        <4>1. renderer' = [Renderer!TearDown(a) EXCEPT !.todo = steps]
          BY <3>1 DEF Renderer!ApplyHard
        <4> HIDE DEF steps
        <4>2. renderer' = [Renderer!TearDown(a) EXCEPT !.faults = renderer.faults, !.todo = steps]
          BY <1>1, <4>1 DEF Holder, Renderer!Accept, Renderer!TearDown
        <4> QED BY <4>2
      <3>2. CASE Renderer!ApplyWithoutDisplay
        BY <3>2 DEF Renderer!ApplyWithoutDisplay
      <3> QED BY <1>5, <3>1, <3>2
    <2>2. /\ renderer'.attempted = svc.scene.revision /\ ~renderer'.tail
          /\ renderer'.applied.revision = svc.scene.revision
          /\ renderer'.foreground.id = 0
      BY <1>1, <2>1, NoPlayerRests DEF Holder, Renderer!Accept, Renderer!TearDown
    <2> QED BY <1>2, <1>3, <2>2, SilentAnew
  <1>6. CASE Renderer!ApplyScene
    <2> DEFINE player == Renderer!Transport(Renderer!Choose(svc.scene), svc.scene)
               first == <<Renderer!Do("ready", 0), Renderer!Do("mix", 0),
                          Renderer!Do("stage", n)>>
               steps == first \o Renderer!Reminder(svc.scene)
    <2>1. player.id \in {0, svc.scene.foregroundID}
      BY <1>1, ChosenPlayer, NoPlayerRests
    <2>2. steps \in Seq(Quietly)
      <3>1. /\ Renderer!Do("ready", 0) \in Quietly /\ Renderer!Do("mix", 0) \in Quietly
            /\ Renderer!Do("stage", n) \in Quietly
            /\ Renderer!Do("ended", svc.scene.foregroundID) \in Quietly
        BY <1>1, StepsAreTasks DEF Renderer!EventKinds, Quietly
      <3>2. first \in Seq(Quietly) BY <3>1
      <3>3. Renderer!Reminder(svc.scene) \in Seq(Quietly)
        BY <3>1 DEF Renderer!Reminder
      <3> HIDE DEF first
      <3> QED BY <3>2, <3>3
    <2>3. PICK fades \in {FALSE, Renderer!Retires(svc.scene)} :
            renderer' = [a EXCEPT
              !.stageEnabled = svc.scene.stage,
              !.stoppedPending = svc.scene.foregroundID = 0,
              !.foreground = player,
              !.background = Renderer!ChooseBackground(svc.scene),
              !.tail = (@ \/ fades) /\ (player.id # 0 => ~player.paused),
              !.todo = steps]
      BY <1>6 DEF Renderer!ApplyScene
    <2> HIDE DEF player, steps
    <2>4. /\ renderer'.attempted = svc.scene.revision
          /\ renderer'.applied.revision = svc.scene.revision
          /\ renderer'.foreground = player /\ renderer'.todo = steps
      BY <1>1, <2>3 DEF Holder, Renderer!Accept
    <2> QED BY <1>2, <1>3, <2>1, <2>2, <2>4, SilentAnew
  <1> QED BY <1>4, <1>5, <1>6 DEF Renderer!Apply

\* Every step of the renderer.
LEMMA RendererIsSilent ==
  ASSUME SystemInv, SilenceInv, svc' = svc, Renderer!Next
  PROVE  SilenceInv'
  <1>1. Good /\ renderer' \in Holder BY InvIsGood, StaysHolder
  <1> QED BY <1>1, ScenesAreSilent, SayingIsSilent, MixIsSilent, FinishIsSilent, ReadiesAreSilent,
             TasksAreSilent, OthersAreSilent
          DEF Renderer!Next, Renderer!Step, Renderer!Faults

-----------------------------------------------------------------------------
(* Steps of the service. *)

\* The service may stop anew, under a generation nothing was said of, and may
\* have taken an event.
LEMMA SilentOnward ==
  ASSUME Good, SilenceInv, StopsAnew(svc, svc'), renderer' = renderer,
         \A i \in DOMAIN events' : \E j \in DOMAIN events : events'[i] = events[j]
  PROVE  SilenceInv'
  <1>1. SaidInOrder /\ AnswersAreSilent BY DEF SilenceInv
  <1>2. SaidInOrder' BY <1>1 DEF SaidInOrder
  <1>3. /\ svc.generation \in Nat /\ svc.scene.generation \in Nat
        /\ svc.scene.generation <= svc.generation
    BY GoodFacts DEF Good, HandedOver
  <1>4. \A i \in DOMAIN renderer.todo : renderer.todo[i].generation \in Nat
                                      /\ renderer.todo[i].generation <= svc.generation
    <2> TAKE i \in DOMAIN renderer.todo
    <2>1. renderer.todo[i] \in SoundTasks BY GoodFacts, Queues
    <2>2. /\ renderer.todo[i].generation \in Nat
          /\ renderer.todo[i].generation <= svc.scene.generation
      BY <2>1 DEF SoundTasks, TaskIsSound, Renderer!Task
    <2> QED BY <1>3, <2>2
  <1>5. \A i \in DOMAIN events : events[i].kind = "stopped" =>
          events[i].generation \in Nat /\ events[i].generation <= svc.generation
    <2> TAKE i \in DOMAIN events
    <2>1. events[i] \in SoundMessages BY GoodFacts, Queues
    <2>2. /\ events[i].generation \in Nat
          /\ events[i].kind = "stopped" => events[i].generation <= svc.scene.generation
      BY <2>1 DEF SoundMessages, EventIsSound, Message
    <2> QED BY <1>3, <2>2
  <1>6. AnswersAreSilent'
    <2> SUFFICES ASSUME svc'.state = "stopping"
                 PROVE  /\ \A i \in DOMAIN renderer.todo :
                             Told(renderer.todo[i]) = <<"stopped", svc'.generation>>
                               => renderer.foreground.id = 0 /\ ~renderer.tail
                        /\ \A i \in DOMAIN events' :
                             Said(events'[i]) = <<"stopped", svc'.generation>>
                               => QuietSince(events'[i])
      BY DEF AnswersAreSilent, Told, Said, QuietSince
    <2>1. CASE svc.state = "stopping" /\ svc'.generation = svc.generation
      BY <1>1, <2>1 DEF AnswersAreSilent
    <2>2. CASE svc.generation < svc'.generation
      <3>1. \A i \in DOMAIN renderer.todo : renderer.todo[i].generation # svc'.generation
        BY <1>3, <1>4, <2>2
      <3>2. \A i \in DOMAIN events :
              events[i].kind = "stopped" => events[i].generation # svc'.generation
        BY <1>3, <1>5, <2>2
      <3> QED BY <3>1, <3>2 DEF Told, Said
    <2> QED BY <2>1, <2>2 DEF StopsAnew
  <1> QED BY <1>2, <1>6 DEF SilenceInv

\* A critical section of the service.
LEMMA ServiceIsSilent ==
  ASSUME SystemInv, SilenceInv,
         ByService(Commands \/ Preparation \/ Update \/ Stage \/ Show)
  PROVE  SilenceInv' /\ events' = events
  <1>1. /\ Commands \/ Preparation \/ Update \/ Stage \/ Show
        /\ renderer' = renderer /\ events' = events
    BY DEF ByService, rendererVars
  <1>2. Good /\ StopsAnew(svc, svc') BY <1>1, InvIsGood, ServiceStops
  <1>3. \A i \in DOMAIN events' : \E j \in DOMAIN events : events'[i] = events[j] BY <1>1
  <1> QED BY <1>1, <1>2, <1>3, SilentOnward

\* Only the answer to STOP turns "stopping" into "stopped".
LEMMA AnswerIsStopped ==
  ASSUME NEW s \in Service, NEW e \in Event, s.state = "stopping",
         NativeEvent(s, e).state = "stopped"
  PROVE  e.kind = "stopped" /\ e.generation = s.generation
  <1> DEFINE fault == [s EXCEPT !.outputFault = TRUE]
             noted == [s EXCEPT !.stageEnabled = e.stageEnabled,
                                  !.stageEnablePending = FALSE]
             u == NoteStage(s, e)
             v == [u EXCEPT !.outputFault = TRUE]
  <1>1. DOMAIN s = DOMAIN InitialService BY DEF Service, InitialService
  <1>2. \A x \in {fault, noted, u, v} : DOMAIN x = DOMAIN InitialService /\ x.state = "stopping"
    <2>1. Abides(s, fault) /\ Abides(s, noted) BY DEF Abides, Service
    <2>2. Abides(s, u) BY <1>1, HelpersAbide
    <2>3. Abides(s, v)
      <3> HIDE DEF u
      <3> QED BY <2>2 DEF Abides, Service
    <2> QED BY <1>1, <2>1, <2>2, <2>3 DEF Abides
  <1>3. \/ NativeEvent(s, e) \in {s, Changed(s), Escape(s), Changed(noted), Fail(fault), Fail(s)}
        \/ Fresh(s, e) /\ NativeEvent(s, e) = Follow(u, e)
    BY Zenon DEF NativeEvent, fault, noted, u
  <1>4. e.kind # "stopped" => Follow(u, e) \in {u, Changed(u), Fail(u), Fail(v)}
    BY <1>2 DEF Follow
  <1> HIDE DEF fault, noted, u, v
  <1>5. \A x \in {fault, noted, u, v, s} :
          /\ x.state # "stopped" /\ Changed(x).state # "stopped"
          /\ Fail(x).state # "stopped" /\ Escape(x).state # "stopped"
    BY <1>1, <1>2, EventPhases
  <1>6. Fresh(s, e) /\ e.kind = "stopped" BY <1>3, <1>4, <1>5
  <1> QED BY <1>6 DEF Fresh, Expected

\* The service hears an event: where it takes it for the answer to STOP, all is quiet.
LEMMA HearingIsSilent ==
  ASSUME SystemInv, SilenceInv, HearEvent
  PROVE  /\ SilenceInv'
         /\ svc.state = "stopping" /\ svc'.state = "stopped" => QuietSince(Head(events))
  <1> DEFINE e == Head(events)
             s == IF FromFault(e) THEN Input(svc) ELSE Enter(svc)
  <1>1. /\ e \in Event /\ events # <<>> /\ svc' = NativeEvent(s, e)
        /\ renderer' = renderer /\ events' = Tail(events)
    BY HearsSoundly
  <1>2. Good /\ PlaybackInv BY InvIsGood
  <1>3. /\ events \in Seq(Message) /\ e = events[1] /\ 1 \in DOMAIN events
        /\ \A i \in DOMAIN Tail(events) : \E j \in DOMAIN events : Tail(events)[i] = events[j]
    <2>1. /\ events \in Seq(Message) /\ Len(events) \in Nat \ {0}
          /\ DOMAIN events = 1 .. Len(events) /\ e = events[1]
          /\ DOMAIN Tail(events) = 1 .. Len(events) - 1
          /\ \A i \in 1 .. Len(events) - 1 : Tail(events)[i] = events[i + 1]
      BY <1>1, <1>2, GoodFacts, Queues
    <2>2. ASSUME NEW i \in DOMAIN Tail(events)
          PROVE  \E j \in DOMAIN events : Tail(events)[i] = events[j]
      <3>1. i + 1 \in DOMAIN events /\ Tail(events)[i] = events[i + 1] BY <2>1
      <3> QED BY <3>1
    <2> QED BY <2>1, <2>2
  <1> HIDE DEF e
  <1>4. s \in Service /\ Abides(svc, s)
    <2>1. svc \in Service /\ s \in Service BY <1>2, EntryFacts
    <2>2. DOMAIN svc = DOMAIN InitialService BY <2>1 DEF Service, InitialService
    <2> QED BY <2>1, <2>2, HelpersAbide
  <1> HIDE DEF s
  <1>5. StopsAnew(svc, svc') BY <1>1, <1>4, EventStops, AbidesOn
  <1>6. SilenceInv' BY <1>1, <1>2, <1>3, <1>5, SilentOnward
  <1>7. ASSUME svc.state = "stopping", svc'.state = "stopped" PROVE QuietSince(e)
    <2>1. e.kind = "stopped" /\ e.generation = svc.generation
      BY <1>1, <1>4, <1>7, AnswerIsStopped DEF Abides
    <2> QED BY <1>3, <1>7, <2>1 DEF SilenceInv, AnswersAreSilent, Said
  <1> QED BY <1>6, <1>7 DEF e

-----------------------------------------------------------------------------
(* "stopped" confirms silence. *)

\* In the beginning nothing was said.
LEMMA SilenceStarts ==
  ASSUME SystemInit
  PROVE  SilenceInv
  <1>1. /\ renderer.applied.revision = 0 /\ renderer.attempted = 0
        /\ renderer.todo = <<>> /\ events = <<>>
    BY DEF SystemInit, Renderer!Init
  <1>2. DOMAIN renderer.todo = {} /\ DOMAIN events = {} BY <1>1
  <1> QED BY <1>1, <1>2 DEF SilenceInv, SaidInOrder, AnswersAreSilent

\* Every step keeps the silence, and takes "stopped" for an answer in silence only.
LEMMA SilenceKeeps ==
  ASSUME SystemInv, SilenceInv, [SystemNext]_systemVars
  PROVE  /\ SilenceInv'
         /\ svc.state = "stopping" /\ svc'.state = "stopped" /\ events' # events
              => QuietSince(Head(events))
  <1>1. CASE ByService(Commands \/ Preparation \/ Update \/ Stage \/ Show)
    BY <1>1, ServiceIsSilent
  <1>2. CASE ByRenderer(Renderer!Next)
    <2>1. Renderer!Next /\ svc' = svc BY <1>2 DEF ByRenderer, vars
    <2> QED BY <2>1, RendererIsSilent
  <1>3. CASE HearEvent BY <1>3, HearingIsSilent
  <1>4. CASE UNCHANGED systemVars
    <2>1. svc' = svc /\ renderer' = renderer /\ events' = events
      BY <1>4 DEF systemVars, vars
    <2> QED BY <2>1 DEF SilenceInv, SaidInOrder, AnswersAreSilent, QuietSince, Told, Said
  <1> QED BY <1>1, <1>2, <1>3, <1>4 DEF SystemNext

\* Whatever is played, fails or is dropped: when the service takes "stopped" for the
\* answer to STOP, nothing plays, and nothing fades but what a newer scene replaced
\* since (mixScene, completeSceneFade, emitScene against nativeEvent).
THEOREM StoppedAlwaysSilent == SystemSpec => StoppedIsSilent
  <1> DEFINE Held == SystemInv /\ SilenceInv
             Answered == svc.state = "stopping" /\ svc'.state = "stopped" /\ events' # events
                           => QuietSince(Head(events))
  <1>1. SystemInit => Held BY SystemStarts, SilenceStarts
  <1>2. Held /\ [SystemNext]_systemVars => Held' /\ Answered
    BY SystemKeeps, SilenceKeeps
  <1>3. StoppedIsSilent <=> [][Answered]_systemVars BY PTL DEF StoppedIsSilent
  <1> HIDE DEF Held, Answered
  <1>4. SystemSpec => [][Answered]_systemVars
    BY <1>1, <1>2, PTL DEF SystemSpec
  <1> QED BY <1>3, <1>4
=============================================================================
