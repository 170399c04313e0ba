---------------------------- MODULE DesktopProofs ----------------------------
(***************************************************************************)
(* What the parts of the native side on Windows promise, for every value   *)
(* of their constants.                                                     *)
(*                                                                         *)
(* The user-interface thread: ShellInv is inductive.  A request for a      *)
(* playlist dialog is followed from the controller to the task queue, to   *)
(* the stack of message loops and back with its answer: at every moment it *)
(* is in one of these places, and of the loops one at most is a dialog.    *)
(* The thread's own functions are described as steps from shell to shell   *)
(* (Sound), the handing over between the threads on top of that.           *)
(*                                                                         *)
(* The Admin window: AdminInv ties every browser that is alive to an       *)
(* environment the window keeps, so the tear-down knows whose exit it has  *)
(* to see before the profile may go.                                       *)
(*                                                                         *)
(* The pictures of the stage: PicturesInv says in which window each player *)
(* may draw and which windows are promised.  Handlers only move players,   *)
(* drop them, or ask for a window (Tidy, Leads); that a window is left is  *)
(* a count of who can hold one at that moment (SourcesHaveOne,             *)
(* BackgroundsHaveOne).                                                    *)
(***************************************************************************)
EXTENDS MCDesktop, Sequences, FiniteSets, FiniteSetTheorems, TLAPS

-----------------------------------------------------------------------------
(* The user-interface thread.  Its functions take a shell and give one; what they *)
(* keep is said of shells, and of what one may become.                            *)

PumpKinds == {"media", "playlist", "confirm", "menu"}
Pumps == [kind : PumpKinds, id : Shell!Ids, phase : {"creating", "showing", "visible", "dismissed"}]
Tasks == [kind : {"media", "playlist", "admin"}, id : Shell!Ids]

ShellType ==
  [ready : BOOLEAN, stopping : BOOLEAN, over : BOOLEAN, ended : BOOLEAN, scheduled : BOOLEAN,
   timer : BOOLEAN, shutdown : BOOLEAN, quitRequested : BOOLEAN, accepted : BOOLEAN,
   stranded : BOOLEAN, request : Shell!Ids, result : Shell!Results, tasks : Seq(Tasks), wakes : Nat, pumps : Seq(Pumps)]

\* Of the pumps one at most is no menu.
OnePump(pumps) ==
  \A i, j \in DOMAIN pumps : pumps[i].kind # "menu" /\ pumps[j].kind # "menu" => i = j

\* A shell by itself: one dialog, an answer belongs to the request, and a shell that
\* stops has answered it.
ShellOK(s) ==
  /\ s \in ShellType
  /\ OnePump(s.pumps)
  /\ s.over => s.stopping
  /\ s.result.id = 0 => s.result = Shell!NoResult
  /\ s.request # 0 /\ s.result.id # 0 => s.result.id = s.request
  /\ s.stopping /\ s.request # 0 => s.result.id = s.request

InDialog(s, id) == \E i \in DOMAIN s.pumps : s.pumps[i].kind = "playlist" /\ s.pumps[i].id = id
Held(s, id) == s.result.id = id \/ InDialog(s, id)

\* What the thread may make of a shell without looking at its tasks: the request
\* stays, an answer stays, and the request is answered or in its dialog as before.
Onward(s, t) ==
  /\ t.request = s.request /\ t.tasks = s.tasks /\ t.wakes = s.wakes /\ t.stranded = s.stranded
  /\ s.stopping => t.stopping
  /\ s.result.id # 0 => t.result = s.result
  /\ t.result.id # 0 => t.result.id \in {s.result.id, s.request}
  /\ s.request # 0 /\ Held(s, s.request) => Held(t, s.request)

Sound(s, t) == ShellOK(t) /\ Onward(s, t)

\* A loop on top of the stack.
LEMMA Push ==
  ASSUME NEW pumps \in Seq(Pumps), NEW pump \in Pumps
  PROVE  /\ Append(pumps, pump) \in Seq(Pumps)
         /\ DOMAIN Append(pumps, pump) = 1..Len(pumps) + 1
         /\ DOMAIN pumps = 1..Len(pumps)
         /\ Len(pumps) \in Nat
         /\ \A i \in 1..Len(pumps) : Append(pumps, pump)[i] = pumps[i]
         /\ Append(pumps, pump)[Len(pumps) + 1] = pump
  OBVIOUS

\* The innermost loop leaves the stack.
LEMMA Pop ==
  ASSUME NEW pumps \in Seq(Pumps), pumps # <<>>
  PROVE  /\ SubSeq(pumps, 1, Len(pumps) - 1) \in Seq(Pumps)
         /\ DOMAIN SubSeq(pumps, 1, Len(pumps) - 1) = 1..Len(pumps) - 1
         /\ DOMAIN pumps = 1..Len(pumps)
         /\ Len(pumps) \in Nat \ {0}
         /\ pumps[Len(pumps)] \in Pumps
         /\ \A i \in 1..Len(pumps) - 1 : SubSeq(pumps, 1, Len(pumps) - 1)[i] = pumps[i]
  OBVIOUS

\* The numbers of the instance.
LEMMA ZeroIsId == 0 \in Shell!Ids /\ MaxInputs \in Nat /\ TaskLimit \in Nat \ {0}
  BY DesktopAssumption DEF Shell!Ids, Shell!ShellAssumption

\* Windows takes a message or refuses it.
LEMMA Answers == Shell!Posted \subseteq BOOLEAN
  BY DEF Shell!Posted

\* What a place of the stack holds.
LEMMA PumpKind ==
  ASSUME NEW pumps \in Seq(Pumps), NEW i \in DOMAIN pumps
  PROVE  pumps[i] \in Pumps /\ pumps[i].kind \in PumpKinds /\ pumps[i].id \in Shell!Ids
<1>1. pumps[i] \in Pumps
  OBVIOUS
<1> QED
  BY <1>1 DEF Pumps

\* A function on 1..n is a stack.
LEMMA AreSeq ==
  ASSUME NEW n \in Nat, NEW pumps \in [1..n -> Pumps]
  PROVE  pumps \in Seq(Pumps) /\ DOMAIN pumps = 1..n
  OBVIOUS

\* An answer of the request.
LEMMA FinishSound ==
  ASSUME NEW s, ShellOK(s), NEW id \in Shell!Ids, NEW outcome \in Shell!Outcomes
  PROVE  /\ Sound(s, Shell!Finish(s, id, outcome))
         /\ Shell!Finish(s, id, outcome).pumps = s.pumps
         /\ Shell!Finish(s, id, outcome).stopping = s.stopping
         /\ Shell!Finish(s, id, outcome).over = s.over
         /\ id # 0 /\ id = s.request => Shell!Finish(s, id, outcome).result.id = id
<1> DEFINE r == [id |-> id, outcome |-> outcome]
           t == [s EXCEPT !.result = r]
<1>1. r \in Shell!Results /\ r.id = id
  BY DEF Shell!Results
<1> HIDE DEF r
<1>2. Sound(s, s)
  BY DEF Sound, Onward
<1>3. ASSUME id # 0, s.request = id, s.result = Shell!NoResult
      PROVE  /\ Sound(s, t) /\ t.pumps = s.pumps /\ t.stopping = s.stopping /\ t.over = s.over
             /\ t.result.id = id
  <2>1. t \in ShellType
    BY <1>1 DEF ShellOK, ShellType
  <2>2. /\ t.result = r /\ t.request = s.request /\ t.pumps = s.pumps /\ t.stopping = s.stopping
        /\ t.over = s.over /\ t.tasks = s.tasks /\ t.wakes = s.wakes /\ t.stranded = s.stranded
    BY DEF ShellOK, ShellType
  <2>3. s.result.id = 0
    BY <1>3 DEF Shell!NoResult
  <2> HIDE DEF t
  <2>4. ShellOK(t)
    BY <1>1, <1>3, <2>1, <2>2 DEF ShellOK
  <2>5. Onward(s, t)
    BY <1>1, <1>3, <2>2, <2>3 DEF Onward, Held
  <2> QED
    BY <1>1, <2>2, <2>4, <2>5 DEF Sound
<1>4. s.result # Shell!NoResult /\ id = s.request /\ id # 0 => s.result.id = id
  BY DEF ShellOK
<1> QED
  BY <1>2, <1>3, <1>4 DEF Shell!Finish, r

\* One function after another.
LEMMA Trans == ASSUME NEW s, NEW t, NEW u, Sound(s, t), Sound(t, u) PROVE Sound(s, u)
  BY DEF Sound, Onward

\* Only the flags that nothing here depends on.
LEMMA FlagsSound ==
  ASSUME NEW s, NEW t, ShellOK(s), t \in ShellType,
         t.request = s.request, t.tasks = s.tasks, t.wakes = s.wakes, t.stranded = s.stranded,
         t.result = s.result, t.pumps = s.pumps, t.stopping = s.stopping, t.over => t.stopping
  PROVE  Sound(s, t)
  BY DEF Sound, Onward, ShellOK, Held, InDialog

\* A menu opens over anything, a dialog where there is none.
LEMMA OpenedSound ==
  ASSUME NEW s, ShellOK(s), NEW pump \in Pumps,
         pump.kind = "menu" \/ (~Shell!ChooserActive(s) /\ ~Shell!Confirming(s))
  PROVE  /\ Sound(s, Shell!Opened(s, pump))
         /\ pump.kind = "playlist" => InDialog(Shell!Opened(s, pump), pump.id)
<1> DEFINE t == Shell!Opened(s, pump)  n == Len(s.pumps)
<1>1. s.pumps \in Seq(Pumps)
  BY DEF ShellOK, ShellType
<1>2. /\ t \in ShellType /\ t.pumps = Append(s.pumps, pump)
      /\ t.request = s.request /\ t.tasks = s.tasks /\ t.wakes = s.wakes /\ t.result = s.result
      /\ t.stopping = s.stopping /\ t.over = s.over /\ t.stranded = s.stranded
  BY <1>1, Push DEF ShellOK, ShellType, Shell!Opened
<1> HIDE DEF t
<1>3. /\ DOMAIN t.pumps = 1..n + 1 /\ DOMAIN s.pumps = 1..n /\ n \in Nat
      /\ \A i \in 1..n : t.pumps[i] = s.pumps[i]
      /\ t.pumps[n + 1] = pump
  BY <1>1, <1>2, Push
<1>4. pump.kind # "menu" => \A i \in 1..n : s.pumps[i].kind = "menu"
  <2> SUFFICES ASSUME pump.kind # "menu", NEW i \in 1..n PROVE s.pumps[i].kind = "menu"
    OBVIOUS
  <2>1. s.pumps[i].kind \in PumpKinds
    BY <1>1, <1>3, PumpKind
  <2>2. s.pumps[i].kind \notin Shell!Dialogs /\ s.pumps[i].kind # "confirm"
    BY <1>3 DEF Shell!ChooserActive, Shell!Confirming, Shell!Kinds
  <2> QED
    BY <2>1, <2>2 DEF PumpKinds, Shell!Dialogs
<1> HIDE DEF n
<1>5. OnePump(t.pumps)
  BY <1>3, <1>4 DEF OnePump, ShellOK
<1>6. \A id : InDialog(s, id) => InDialog(t, id)
  BY <1>3 DEF InDialog
<1>7. pump.kind = "playlist" => InDialog(t, pump.id)
  BY <1>3 DEF InDialog
<1> QED
  BY <1>2, <1>5, <1>6, <1>7 DEF Sound, Onward, ShellOK, Held, t

\* The innermost loop is left, a dialog of the request once that is answered.
LEMMA LeftSound ==
  ASSUME NEW s, ShellOK(s), s.pumps # <<>>,
         Shell!Inner(s).kind = "playlist" /\ Shell!Inner(s).id = s.request /\ s.request # 0
           => s.result.id = s.request
  PROVE  Sound(s, Shell!Left(s)) /\ Shell!Left(s).stopping = s.stopping
<1> DEFINE t == Shell!Left(s)  n == Len(s.pumps)
<1>1. s.pumps \in Seq(Pumps)
  BY DEF ShellOK, ShellType
<1>2. /\ t \in ShellType /\ t.pumps = SubSeq(s.pumps, 1, n - 1)
      /\ t.request = s.request /\ t.tasks = s.tasks /\ t.wakes = s.wakes /\ t.result = s.result
      /\ t.stopping = s.stopping /\ t.over = s.over /\ t.stranded = s.stranded
  BY <1>1, Pop DEF ShellOK, ShellType, Shell!Left
<1> HIDE DEF t
<1>3. /\ DOMAIN t.pumps = 1..n - 1 /\ DOMAIN s.pumps = 1..n /\ n \in Nat \ {0}
      /\ \A i \in 1..n - 1 : t.pumps[i] = s.pumps[i]
  BY <1>1, <1>2, Pop
<1>4. Shell!Inner(s) = s.pumps[n]
  BY DEF Shell!Inner
<1> HIDE DEF n
<1>5. OnePump(t.pumps)
  BY <1>3 DEF OnePump, ShellOK
<1>6. s.request # 0 /\ InDialog(s, s.request) => InDialog(t, s.request) \/ s.result.id = s.request
  BY <1>3, <1>4 DEF InDialog
<1> QED
  BY <1>2, <1>5, <1>6 DEF Sound, Onward, ShellOK, Held, t

\* Pumps of other phases.
LEMMA PhaseSound ==
  ASSUME NEW s, ShellOK(s), NEW pumps \in Seq(Pumps), DOMAIN pumps = DOMAIN s.pumps,
         \A i \in DOMAIN pumps : pumps[i].kind = s.pumps[i].kind /\ pumps[i].id = s.pumps[i].id
  PROVE  Sound(s, [s EXCEPT !.pumps = pumps]) /\ [s EXCEPT !.pumps = pumps].stopping = s.stopping
<1> DEFINE t == [s EXCEPT !.pumps = pumps]
<1>1. /\ t \in ShellType /\ t.pumps = pumps
      /\ t.request = s.request /\ t.tasks = s.tasks /\ t.wakes = s.wakes /\ t.result = s.result
      /\ t.stopping = s.stopping /\ t.over = s.over /\ t.stranded = s.stranded
  BY DEF ShellOK, ShellType
<1> HIDE DEF t
<1>2. OnePump(t.pumps) /\ \A id : InDialog(s, id) => InDialog(t, id)
  BY <1>1 DEF OnePump, ShellOK, InDialog
<1> QED
  BY <1>1, <1>2 DEF Sound, Onward, ShellOK, Held, t

\* The innermost dialog goes on to another phase.
LEMMA InPhaseSound ==
  ASSUME NEW s, ShellOK(s), s.pumps # <<>>, NEW phase \in {"creating", "showing", "visible", "dismissed"}
  PROVE  Sound(s, Shell!InPhase(s, phase))
<1> DEFINE n == Len(s.pumps)
           pumps == [s.pumps EXCEPT ![n].phase = phase]
<1>1. s.pumps \in Seq(Pumps) /\ s \in ShellType
  BY DEF ShellOK, ShellType
<1>2. n \in Nat \ {0} /\ DOMAIN s.pumps = 1..n /\ s.pumps \in [1..n -> Pumps] /\ n \in 1..n
  BY <1>1, Pop
<1>3. Shell!InPhase(s, phase) = [s EXCEPT !.pumps = pumps]
  BY <1>1 DEF Shell!InPhase, ShellType
<1> HIDE DEF n
<1>4. [s.pumps[n] EXCEPT !.phase = phase] \in Pumps
  BY <1>2 DEF Pumps
<1>5. /\ pumps \in [1..n -> Pumps] /\ DOMAIN pumps = 1..n
      /\ \A i \in 1..n : pumps[i].kind = s.pumps[i].kind /\ pumps[i].id = s.pumps[i].id
  <2>1. [s.pumps[n] EXCEPT !.phase = phase].kind = s.pumps[n].kind
        /\ [s.pumps[n] EXCEPT !.phase = phase].id = s.pumps[n].id
    BY <1>2 DEF Pumps
  <2>2. pumps = [i \in 1..n |-> IF i = n THEN [s.pumps[n] EXCEPT !.phase = phase] ELSE s.pumps[i]]
    BY <1>2
  <2> QED
    BY <1>2, <1>4, <2>1, <2>2
<1> HIDE DEF pumps
<1>6. pumps \in Seq(Pumps)
  BY <1>2, <1>5, AreSeq
<1> QED
  BY <1>2, <1>3, <1>5, <1>6, PhaseSound

\* The dialogs on the screen are told to close.
LEMMA DismissedSound ==
  ASSUME NEW s, ShellOK(s)
  PROVE  Sound(s, Shell!Dismissed(s)) /\ Shell!Dismissed(s).stopping = s.stopping
<1> DEFINE pumps == [i \in DOMAIN s.pumps |->
              IF s.pumps[i].kind # "menu" /\ s.pumps[i].phase = "visible"
              THEN [s.pumps[i] EXCEPT !.phase = "dismissed"] ELSE s.pumps[i]]
<1>1. s.pumps \in Seq(Pumps)
  BY DEF ShellOK, ShellType
<1>2. \A i \in DOMAIN s.pumps : s.pumps[i] \in Pumps
  BY <1>1
<1>3. \A i \in DOMAIN s.pumps : pumps[i] \in Pumps /\ pumps[i].kind = s.pumps[i].kind /\ pumps[i].id = s.pumps[i].id
  BY <1>2 DEF Pumps
<1>4. DOMAIN s.pumps = 1..Len(s.pumps) /\ Len(s.pumps) \in Nat
  BY <1>1
<1>5. Shell!Dismissed(s) = [s EXCEPT !.pumps = pumps]
  BY DEF Shell!Dismissed, ShellOK, ShellType
<1>6. pumps \in [1..Len(s.pumps) -> Pumps]
  BY <1>3, <1>4
<1> HIDE DEF pumps
<1>7. pumps \in Seq(Pumps) /\ DOMAIN pumps = DOMAIN s.pumps
  BY <1>4, <1>6, AreSeq
<1> QED
  BY <1>3, <1>5, <1>7, PhaseSound

\* A shell that stops has answered its request.
LEMMA StoppedSound ==
  ASSUME NEW s, ShellOK(s)
  PROVE  LET t == Shell!Finish([s EXCEPT !.stopping = TRUE, !.ready = FALSE], s.request, "cancelled")
         IN Sound(s, t) /\ t.stopping /\ t.pumps = s.pumps /\ t.over = s.over
<1> DEFINE u == Shell!Finish(s, s.request, "cancelled")
           v == [u EXCEPT !.stopping = TRUE, !.ready = FALSE]
           t == Shell!Finish([s EXCEPT !.stopping = TRUE, !.ready = FALSE], s.request, "cancelled")
<1>1. s \in ShellType /\ s.request \in Shell!Ids /\ "cancelled" \in Shell!Outcomes
  BY DEF ShellOK, ShellType, Shell!Outcomes
<1>2. t = v
  BY <1>1 DEF Shell!Finish, ShellType
<1>3. /\ Sound(s, u) /\ u.pumps = s.pumps /\ u.over = s.over
      /\ s.request # 0 => u.result.id = s.request
  BY <1>1, FinishSound
<1> HIDE DEF t, u
<1>4. ShellOK(u) /\ u \in ShellType /\ u.request = s.request
  BY <1>3 DEF Sound, Onward, ShellOK
<1>5. /\ v \in ShellType /\ v.request = u.request /\ v.tasks = u.tasks /\ v.wakes = u.wakes
      /\ v.result = u.result /\ v.pumps = u.pumps /\ v.over = u.over /\ v.stopping = TRUE
      /\ v.stranded = u.stranded
  BY <1>4 DEF ShellType
<1> HIDE DEF v
<1>6. Sound(u, v)
  BY <1>3, <1>4, <1>5 DEF Sound, Onward, ShellOK, Held, InDialog
<1>7. Sound(s, t) /\ t.stopping /\ t.pumps = s.pumps /\ t.over = s.over
  BY <1>2, <1>3, <1>5, <1>6, Trans
<1> QED
  BY <1>7 DEF t

\* After a shutdown the shell stops, and is over once no dialog is open.
LEMMA ShutdownSound ==
  ASSUME NEW s, ShellOK(s), NEW told \in BOOLEAN
  PROVE  Sound(s, Shell!ShutdownUI(s, told)) /\ Shell!ShutdownUI(s, told).stopping
<1> DEFINE v == Shell!Finish([s EXCEPT !.stopping = TRUE, !.ready = FALSE], s.request, "cancelled")
           w == IF told THEN Shell!Dismissed(v) ELSE v
<1>1. Sound(s, v) /\ v.stopping /\ v.pumps = s.pumps /\ v.over = s.over
  BY StoppedSound
<1>2. Shell!ShutdownUI(s, told) =
        IF s.over THEN s
        ELSE IF Shell!ChooserActive(s) \/ Shell!Confirming(s) THEN [w EXCEPT !.timer = TRUE]
        ELSE [v EXCEPT !.timer = FALSE, !.over = TRUE]
  BY DEF Shell!ShutdownUI
<1> HIDE DEF v
<1>3. ShellOK(v) /\ v \in ShellType
  BY <1>1 DEF Sound, ShellOK
<1>4. Sound(v, w) /\ w.stopping
  <2>1. Sound(v, v)
    BY <1>3 DEF Sound, Onward
  <2>2. Sound(v, Shell!Dismissed(v)) /\ Shell!Dismissed(v).stopping
    BY <1>1, <1>3, DismissedSound
  <2> QED
    BY <1>1, <2>1, <2>2
<1> HIDE DEF w
<1>5. ShellOK(w) /\ w \in ShellType /\ (w.over => w.stopping)
  BY <1>4 DEF Sound, ShellOK
<1>6. Sound(w, [w EXCEPT !.timer = TRUE]) /\ [w EXCEPT !.timer = TRUE].stopping
  <2> DEFINE x == [w EXCEPT !.timer = TRUE]
  <2>1. x \in ShellType /\ x.request = w.request /\ x.tasks = w.tasks /\ x.wakes = w.wakes
        /\ x.result = w.result /\ x.pumps = w.pumps /\ x.stopping = w.stopping /\ x.over = w.over
        /\ x.stranded = w.stranded
    BY <1>5 DEF ShellType
  <2> HIDE DEF x
  <2>2. Sound(w, x) /\ x.stopping
    BY <1>4, <1>5, <2>1, FlagsSound
  <2> QED
    BY <2>2 DEF x
<1>7. Sound(v, [v EXCEPT !.timer = FALSE, !.over = TRUE]) /\ [v EXCEPT !.timer = FALSE, !.over = TRUE].stopping
  <2> DEFINE x == [v EXCEPT !.timer = FALSE, !.over = TRUE]
  <2>1. x \in ShellType /\ x.request = v.request /\ x.tasks = v.tasks /\ x.wakes = v.wakes
        /\ x.result = v.result /\ x.pumps = v.pumps /\ x.stopping = v.stopping
        /\ x.stranded = v.stranded
    BY <1>3 DEF ShellType
  <2> HIDE DEF x
  <2>2. Sound(v, x) /\ x.stopping
    BY <1>1, <1>3, <2>1, FlagsSound
  <2> QED
    BY <2>2 DEF x
<1>8. Sound(s, s) /\ (s.over => s.stopping)
  BY DEF Sound, Onward, ShellOK
<1>9. Sound(s, [w EXCEPT !.timer = TRUE])
  BY <1>1, <1>4, <1>6, Trans
<1>10. Sound(s, [v EXCEPT !.timer = FALSE, !.over = TRUE])
  BY <1>1, <1>7, Trans
<1> QED
  BY <1>2, <1>6, <1>7, <1>8, <1>9, <1>10

\* The innermost loop is left, and a shutdown that waited for it goes on.
LEMMA ClosedSound ==
  ASSUME NEW s, ShellOK(s), s.pumps # <<>>,
         Shell!Inner(s).kind = "playlist" /\ Shell!Inner(s).id = s.request /\ s.request # 0
           => s.result.id = s.request
  PROVE  Sound(s, Shell!Closed(s))
<1>1. Sound(s, Shell!Left(s))
  BY LeftSound
<1>2. ShellOK(Shell!Left(s))
  BY <1>1 DEF Sound
<1>3. Sound(Shell!Left(s), Shell!ShutdownUI(Shell!Left(s), TRUE))
  BY <1>2, ShutdownSound
<1>4. Sound(s, Shell!ShutdownUI(Shell!Left(s), TRUE))
  BY <1>1, <1>3, Trans
<1> QED
  BY <1>1, <1>4 DEF Shell!Closed

\* The handler of a dialog answers its request and leaves.
LEMMA AnswerAndClose ==
  ASSUME NEW s, ShellOK(s), s.pumps # <<>>, NEW outcome \in Shell!Outcomes
  PROVE  Sound(s, Shell!Closed(Shell!Finish(s, Shell!Inner(s).id, outcome)))
<1> DEFINE id == Shell!Inner(s).id  t == Shell!Finish(s, id, outcome)
<1>1. s.pumps \in Seq(Pumps)
  BY DEF ShellOK, ShellType
<1>2. id \in Shell!Ids
  BY <1>1, Pop, PumpKind DEF Shell!Inner
<1>3. /\ Sound(s, t) /\ t.pumps = s.pumps /\ (id # 0 /\ id = s.request => t.result.id = id)
  BY <1>2, FinishSound
<1>4. Shell!Inner(t) = Shell!Inner(s)
  BY <1>3 DEF Shell!Inner
<1> HIDE DEF t
<1>5. ShellOK(t) /\ t.request = s.request
  BY <1>3 DEF Sound, Onward
<1>6. Sound(t, Shell!Closed(t))
  BY <1>3, <1>4, <1>5, ClosedSound
<1>7. Sound(s, Shell!Closed(t))
  BY <1>3, <1>6, Trans
<1> QED
  BY <1>7 DEF t

\* One flag on which no promise of a shell rests.
LEMMA OneFlag ==
  ASSUME NEW s, ShellOK(s), NEW b \in BOOLEAN
  PROVE  /\ Sound(s, [s EXCEPT !.ready = b]) /\ Sound(s, [s EXCEPT !.scheduled = b])
         /\ Sound(s, [s EXCEPT !.shutdown = b]) /\ Sound(s, [s EXCEPT !.ended = b])
         /\ Sound(s, [s EXCEPT !.quitRequested = b])
         /\ Sound(s, [s EXCEPT !.accepted = b, !.quitRequested = b])
<1>1. s \in ShellType /\ (s.over => s.stopping)
  BY DEF ShellOK
<1> DEFINE Same(t) == /\ t \in ShellType /\ t.request = s.request /\ t.tasks = s.tasks /\ t.wakes = s.wakes
                      /\ t.result = s.result /\ t.pumps = s.pumps /\ t.stopping = s.stopping
                      /\ t.over = s.over /\ t.stranded = s.stranded
<1>2. /\ Same([s EXCEPT !.ready = b]) /\ Same([s EXCEPT !.scheduled = b])
      /\ Same([s EXCEPT !.shutdown = b]) /\ Same([s EXCEPT !.ended = b])
      /\ Same([s EXCEPT !.quitRequested = b])
      /\ Same([s EXCEPT !.accepted = b, !.quitRequested = b])
  BY <1>1 DEF ShellType
<1>3. ASSUME NEW t, Same(t) PROVE Sound(s, t)
  BY <1>1, <1>3, FlagsSound
<1> HIDE DEF Same
<1> QED
  BY <1>2, <1>3

\* The media dialog opens where it may.
LEMMA ChooseMediaSound ==
  ASSUME NEW s, ShellOK(s) PROVE Sound(s, Shell!ChooseMedia(s))
<1> DEFINE t == [s EXCEPT !.scheduled = FALSE]  pump == Shell!Pump("media", 0, "creating")
<1>1. Sound(s, t)
  BY OneFlag
<1>2. ShellOK(t) /\ t.pumps = s.pumps
  BY <1>1 DEF Sound, ShellOK, ShellType
<1>3. pump \in Pumps
  BY ZeroIsId DEF Pumps, PumpKinds, Shell!Pump
<1>4. Shell!ChooserActive(t) = Shell!ChooserActive(s) /\ Shell!Confirming(t) = Shell!Confirming(s)
  BY <1>2 DEF Shell!ChooserActive, Shell!Confirming, Shell!Kinds
<1>5. ASSUME Shell!MayOpenMedia(s) PROVE Sound(s, Shell!Opened(t, pump))
  <2>1. ~Shell!ChooserActive(t) /\ ~Shell!Confirming(t)
    BY <1>4, <1>5 DEF Shell!MayOpenMedia
  <2>2. Sound(t, Shell!Opened(t, pump))
    BY <1>2, <1>3, <2>1, OpenedSound
  <2> QED
    BY <1>1, <2>2, Trans
<1> QED
  BY <1>1, <1>5 DEF Shell!ChooseMedia

\* A playlist dialog opens for its request, or the request is answered at once.
LEMMA ChoosePlaylistSound ==
  ASSUME NEW s, ShellOK(s), NEW id \in Shell!Ids
  PROVE  /\ Sound(s, Shell!ChoosePlaylist(s, id))
         /\ s.request = id /\ id # 0 => Held(Shell!ChoosePlaylist(s, id), id)
<1> DEFINE pump == Shell!Pump("playlist", id, "creating")
<1>1. pump \in Pumps /\ pump.kind = "playlist" /\ pump.id = id
  BY DEF Pumps, PumpKinds, Shell!Pump
<1> HIDE DEF pump
<1>2. {"cancelled", "error"} \subseteq Shell!Outcomes
  BY DEF Shell!Outcomes
<1>3. Sound(s, s)
  BY DEF Sound, Onward
<1>4. /\ Sound(s, Shell!Finish(s, id, "cancelled")) /\ Sound(s, Shell!Finish(s, id, "error"))
      /\ id # 0 /\ id = s.request => Held(Shell!Finish(s, id, "cancelled"), id) /\ Held(Shell!Finish(s, id, "error"), id)
  BY <1>2, FinishSound DEF Held
<1>5. ASSUME ~Shell!OtherDialog(s)
      PROVE  Sound(s, Shell!Opened(s, pump)) /\ Held(Shell!Opened(s, pump), id)
  BY <1>1, <1>5, OpenedSound DEF Shell!OtherDialog, Held
<1> QED
  BY <1>3, <1>4, <1>5 DEF Shell!ChoosePlaylist, pump

\* A menu by itself.
LEMMA OpenedMenu ==
  ASSUME NEW s, ShellOK(s), NEW id \in Shell!Ids PROVE Sound(s, Shell!Opened(s, Shell!Pump("menu", id, "visible")))
<1> DEFINE pump == Shell!Pump("menu", id, "visible")
<1>1. pump \in Pumps /\ pump.kind = "menu"
  BY DEF Pumps, PumpKinds, Shell!Pump
<1> HIDE DEF pump
<1>2. Sound(s, Shell!Opened(s, pump))
  BY <1>1, OpenedSound
<1> QED
  BY <1>2 DEF pump

\* The prompt opens only where it may.
LEMMA OpenedConfirm ==
  ASSUME NEW s, ShellOK(s), Shell!MayConfirm(s) PROVE Sound(s, Shell!Opened(s, Shell!Pump("confirm", 0, "showing")))
<1> DEFINE pump == Shell!Pump("confirm", 0, "showing")
<1>1. pump \in Pumps
  BY ZeroIsId DEF Pumps, PumpKinds, Shell!Pump
<1> HIDE DEF pump
<1>2. Sound(s, Shell!Opened(s, pump))
  BY <1>1, OpenedSound DEF Shell!MayConfirm
<1> QED
  BY <1>2 DEF pump

\* The dialog gets an answer, and closes.
LEMMA AnsweredSound ==
  ASSUME NEW s, ShellOK(s), s.pumps # <<>>, NEW outcome \in Shell!Outcomes
  PROVE  Sound(s, Shell!Answered(s, outcome))
<1> DEFINE inner == Shell!Inner(s)  said == IF s.stopping THEN "cancelled" ELSE outcome
<1>1. said \in Shell!Outcomes
  BY DEF Shell!Outcomes
<1>2. Sound(s, Shell!Closed(Shell!Finish(s, inner.id, said)))
  BY <1>1, AnswerAndClose
<1>3. ASSUME inner.kind # "playlist"
      PROVE  /\ Sound(s, Shell!Left(s)) /\ Sound(s, Shell!Closed(s))
             /\ Sound(s, Shell!ShutdownUI(Shell!Left(s), TRUE))
             /\ Sound(s, [Shell!Left(s) EXCEPT !.accepted = TRUE, !.quitRequested = TRUE])
  <2>1. Sound(s, Shell!Left(s)) /\ Sound(s, Shell!Closed(s))
    BY <1>3, LeftSound, ClosedSound
  <2>2. ShellOK(Shell!Left(s))
    BY <2>1 DEF Sound
  <2>3. /\ Sound(Shell!Left(s), Shell!ShutdownUI(Shell!Left(s), TRUE))
        /\ Sound(Shell!Left(s), [Shell!Left(s) EXCEPT !.accepted = TRUE, !.quitRequested = TRUE])
    BY <2>2, ShutdownSound, OneFlag
  <2> QED
    BY <2>1, <2>3, Trans
<1> HIDE DEF said
<1> DEFINE r == Shell!Answered(s, outcome)
<1>4. r = CASE inner.kind = "playlist" -> Shell!Closed(Shell!Finish(s, inner.id, said))
            [] inner.kind = "media" -> Shell!Closed(s)
            [] inner.kind = "confirm" /\ s.stopping -> Shell!ShutdownUI(Shell!Left(s), TRUE)
            [] inner.kind = "confirm" /\ outcome = "path" ->
                 [Shell!Left(s) EXCEPT !.accepted = TRUE, !.quitRequested = TRUE]
            [] OTHER -> Shell!Left(s)
  BY DEF Shell!Answered, said
<1> HIDE DEF r, inner
<1>5. CASE inner.kind = "playlist"
  <2>1. r = Shell!Closed(Shell!Finish(s, inner.id, said))
    BY <1>4, <1>5
  <2> QED
    BY <1>2, <2>1 DEF r
<1>6. CASE inner.kind = "media"
  <2>1. r = Shell!Closed(s)
    BY <1>4, <1>6
  <2> QED
    BY <1>3, <1>6, <2>1 DEF r
<1>7. CASE inner.kind = "confirm" /\ s.stopping
  <2>1. r \in {Shell!ShutdownUI(Shell!Left(s), TRUE), [Shell!Left(s) EXCEPT !.accepted = TRUE, !.quitRequested = TRUE]}
    BY <1>4, <1>7
  <2> QED
    BY <1>3, <1>7, <2>1 DEF r
<1>8. CASE inner.kind = "confirm" /\ ~s.stopping
  <2>1. r \in {Shell!Left(s), [Shell!Left(s) EXCEPT !.accepted = TRUE, !.quitRequested = TRUE]}
    BY <1>4, <1>8
  <2> QED
    BY <1>3, <1>8, <2>1 DEF r
<1>9. CASE inner.kind \notin {"playlist", "media", "confirm"}
  <2>1. r = Shell!Left(s)
    BY <1>4, <1>9
  <2> QED
    BY <1>3, <1>9, <2>1 DEF r
<1> QED
  BY <1>5, <1>6, <1>7, <1>8, <1>9

\* What a menu entry starts, after the menu is gone.
LEMMA LeaveMenuSound ==
  ASSUME NEW s, ShellOK(s), s.pumps # <<>>, Shell!Inner(s).kind = "menu",
         NEW chosen \in {"none", "media", "quit"}
  PROVE  Sound(s, CASE chosen = "media" -> Shell!ChooseMedia(Shell!Left(s))
                    [] chosen = "quit" -> [Shell!Left(s) EXCEPT !.quitRequested = TRUE]
                    [] OTHER -> Shell!Left(s))
<1>1. Sound(s, Shell!Left(s))
  BY LeftSound
<1>2. ShellOK(Shell!Left(s))
  BY <1>1 DEF Sound
<1>3. /\ Sound(Shell!Left(s), Shell!ChooseMedia(Shell!Left(s)))
      /\ Sound(Shell!Left(s), [Shell!Left(s) EXCEPT !.quitRequested = TRUE])
  BY <1>2, ChooseMediaSound, OneFlag
<1>4. /\ Sound(s, Shell!ChooseMedia(Shell!Left(s)))
      /\ Sound(s, [Shell!Left(s) EXCEPT !.quitRequested = TRUE])
  BY <1>1, <1>3, Trans
<1>5. CASE chosen = "media"
  BY <1>4, <1>5
<1>6. CASE chosen = "quit"
  BY <1>4, <1>6
<1>7. CASE chosen = "none"
  BY <1>1, <1>7
<1> QED
  BY <1>5, <1>6, <1>7

(* The queue *)

Queued(s, id) == \E i \in DOMAIN s.tasks : s.tasks[i].kind = "playlist" /\ s.tasks[i].id = id

\* The oldest task leaves the queue.
LEMMA TakeTask ==
  ASSUME NEW tasks \in Seq(Tasks), tasks # <<>>
  PROVE  /\ Tail(tasks) \in Seq(Tasks) /\ Head(tasks) \in Tasks
         /\ Head(tasks) = tasks[1]
         /\ Len(Tail(tasks)) = Len(tasks) - 1 /\ Len(tasks) \in Nat \ {0}
         /\ DOMAIN tasks = 1..Len(tasks)
         /\ DOMAIN Tail(tasks) = 1..Len(tasks) - 1
         /\ \A i \in 1..Len(tasks) - 1 : Tail(tasks)[i] = tasks[i + 1]
         /\ \A i \in 1..Len(tasks) : i = 1 \/ i - 1 \in 1..Len(tasks) - 1
  OBVIOUS

\* A task runs; the one that asks for the request takes it over.
LEMMA RunSound ==
  ASSUME NEW s, ShellOK(s), NEW task \in Tasks
  PROVE  /\ Sound(s, Shell!RunTask(s, task))
         /\ task.kind = "playlist" /\ s.request = task.id /\ task.id # 0 => Held(Shell!RunTask(s, task), task.id)
<1> DEFINE r == Shell!RunTask(s, task)
<1>1. task.kind \in {"media", "playlist", "admin"} /\ task.id \in Shell!Ids
  BY DEF Tasks
<1>2. r = CASE task.kind = "admin" -> [s EXCEPT !.ready = TRUE]
            [] task.kind = "media" -> Shell!ChooseMedia(s)
            [] task.kind = "playlist" -> Shell!ChoosePlaylist(s, task.id)
  BY DEF Shell!RunTask
<1> HIDE DEF r
<1>3. CASE task.kind = "admin"
  <2>1. r = [s EXCEPT !.ready = TRUE]
    BY <1>2, <1>3
  <2> QED
    BY <1>3, <2>1, OneFlag DEF r
<1>4. CASE task.kind = "media"
  <2>1. r = Shell!ChooseMedia(s)
    BY <1>2, <1>4
  <2> QED
    BY <1>4, <2>1, ChooseMediaSound DEF r
<1>5. CASE task.kind = "playlist"
  <2>1. r = Shell!ChoosePlaylist(s, task.id)
    BY <1>2, <1>5
  <2> QED
    BY <1>1, <1>5, <2>1, ChoosePlaylistSound DEF r
<1> QED
  BY <1>1, <1>3, <1>4, <1>5

\* A shell of which the thread took a task, or found that it may not.
LEMMA DrainSound ==
  ASSUME NEW s, ShellOK(s), s.wakes > 0, NEW posted \in BOOLEAN
  PROVE  LET t == Shell!DrainTasks(s, posted) IN
         /\ ShellOK(t) /\ t.request = s.request
         /\ s.stopping => t.stopping
         /\ s.result.id # 0 => t.result = s.result
         /\ t.result.id # 0 => t.result.id \in {s.result.id, s.request}
         /\ Len(t.tasks) <= Len(s.tasks)
         /\ ~t.stopping => t.wakes > 0 \/ t.tasks = <<>> \/ t.stranded
         /\ s.request # 0 /\ (Held(s, s.request) \/ Queued(s, s.request))
              => Held(t, s.request) \/ Queued(t, s.request)
<1> DEFINE t == Shell!DrainTasks(s, posted)
           u == [s EXCEPT !.wakes = @ - 1]
           rest == Tail(s.tasks)
           wakes == IF rest # <<>> /\ posted THEN s.wakes ELSE s.wakes - 1
           v == [s EXCEPT !.tasks = rest, !.wakes = wakes, !.stranded = rest # <<>> /\ wakes = 0]
<1>1. s \in ShellType /\ s.tasks \in Seq(Tasks) /\ s.wakes \in Nat /\ Len(s.tasks) \in Nat
  BY DEF ShellOK, ShellType
<1>2. CASE s.stopping \/ s.tasks = <<>>
  <2>1. t = u
    BY <1>2 DEF Shell!DrainTasks
  <2>2. s.wakes - 1 \in Nat
    BY <1>1
  <2>3. /\ u \in ShellType /\ u.request = s.request /\ u.tasks = s.tasks
        /\ u.result = s.result /\ u.pumps = s.pumps /\ u.over = s.over /\ u.stopping = s.stopping
    BY <1>1, <2>2 DEF ShellType
  <2> HIDE DEF u, t
  <2>4. /\ ShellOK(u) /\ (Held(s, s.request) => Held(u, s.request))
        /\ (Queued(s, s.request) => Queued(u, s.request))
    BY <2>3 DEF ShellOK, Held, InDialog, Queued
  <2>5. ~u.stopping => u.tasks = <<>>
    BY <1>2, <2>3
  <2> QED
    BY <1>1, <2>1, <2>3, <2>4, <2>5 DEF t
<1>3. CASE ~s.stopping /\ s.tasks # <<>>
  <2>1. t = Shell!RunTask(v, Head(s.tasks))
    BY <1>3 DEF Shell!DrainTasks
  <2>2. /\ rest \in Seq(Tasks) /\ Head(s.tasks) \in Tasks /\ Head(s.tasks) = s.tasks[1]
        /\ Len(rest) = Len(s.tasks) - 1 /\ DOMAIN s.tasks = 1..Len(s.tasks)
        /\ DOMAIN rest = 1..Len(s.tasks) - 1
        /\ \A i \in 1..Len(s.tasks) - 1 : rest[i] = s.tasks[i + 1]
        /\ \A i \in 1..Len(s.tasks) : i = 1 \/ i - 1 \in 1..Len(s.tasks) - 1
    BY <1>1, <1>3, TakeTask
  <2> HIDE DEF rest
  <2>3. wakes \in Nat
    BY <1>1
  <2> HIDE DEF wakes
  <2>4. /\ v \in ShellType /\ v.request = s.request /\ v.tasks = rest
        /\ v.result = s.result /\ v.pumps = s.pumps /\ v.over = s.over /\ v.stopping = s.stopping
        /\ v.wakes = wakes /\ v.stranded = (rest # <<>> /\ wakes = 0)
    BY <1>1, <2>2, <2>3 DEF ShellType
  <2> HIDE DEF v
  <2>5. ShellOK(v) /\ (Held(s, s.request) => Held(v, s.request))
    BY <2>4 DEF ShellOK, Held, InDialog
  <2> DEFINE task == Head(s.tasks)
  <2>6. /\ Sound(v, t)
        /\ task.kind = "playlist" /\ v.request = task.id /\ task.id # 0 => Held(t, task.id)
    BY <2>1, <2>2, <2>5, RunSound
  <2> HIDE DEF task, t
  <2>7. Queued(s, s.request) => (task.kind = "playlist" /\ task.id = s.request) \/ Queued(v, s.request)
    <3> SUFFICES ASSUME NEW i \in DOMAIN s.tasks, s.tasks[i].kind = "playlist", s.tasks[i].id = s.request, i # 1
                 PROVE  Queued(v, s.request)
      BY <2>2 DEF Queued, task
    <3>1. i - 1 \in 1..Len(s.tasks) - 1
      BY <2>2
    <3>2. rest[i - 1] = s.tasks[i]
      BY <1>1, <2>2, <3>1
    <3> QED
      BY <2>2, <2>4, <3>1, <3>2 DEF Queued
  <2>8. t.tasks = rest /\ t.wakes = v.wakes /\ t.stranded = v.stranded /\ t.request = v.request
    BY <2>4, <2>6 DEF Sound, Onward
  <2>9. t.wakes > 0 \/ t.tasks = <<>> \/ t.stranded
    <3>1. CASE wakes = 0 /\ rest # <<>>
      BY <2>4, <2>8, <3>1
    <3>2. CASE rest = <<>>
      BY <2>8, <3>2
    <3>3. CASE wakes # 0
      BY <2>3, <2>4, <2>8, <3>3
    <3> QED
      BY <3>1, <3>2, <3>3
  <2>10. Queued(v, s.request) => Queued(t, s.request)
    BY <2>4, <2>8 DEF Queued
  <2>11. s.request # 0 /\ Held(v, s.request) => Held(t, s.request)
    BY <2>4, <2>6 DEF Sound, Onward
  <2>12. Len(t.tasks) <= Len(s.tasks)
    BY <1>1, <2>2, <2>8
  <2> QED
    BY <2>4, <2>5, <2>6, <2>7, <2>8, <2>9, <2>10, <2>11, <2>12 DEF Sound, Onward, t
<1> QED
  BY <1>2, <1>3

(* The requests.  A request is reserved under the next identity, and keeps the shell *)
(* until its answer is taken; the controller learns of it when the thread was woken. *)

Somewhere(id) ==
  \/ channel # <<>> /\ Head(channel).id = id
  \/ shell.request = id /\ (Held(shell, id) \/ Queued(shell, id))

\* The types of what is not the shell's; identities stay below what was asked for.
AroundType ==
  /\ Len(shell.tasks) <= TaskLimit
  /\ start \in [id : Shell!Ids, at : {"none", "reserved", "queued"}]
  /\ channel \in Seq(Shell!Results) /\ Len(channel) <= 1
  /\ controller \in [id : Shell!Ids, phase : Shell!Phases, closed : BOOLEAN]
  /\ main \in {"running", "closing", "ended"} /\ inputs \in 0..MaxInputs
  /\ controller.id + (IF start = Shell!NoStart THEN 0 ELSE 1) <= inputs

\* While a request is handed over it has the next identity, and the shell, or the
\* channel already has its answer.
HandingOver ==
  /\ start.at = "none" => start = Shell!NoStart
  /\ start # Shell!NoStart =>
       /\ start.id = controller.id + 1
       /\ \/ shell.request = start.id
          \/ shell.request = 0 /\ shell.result.id = 0 /\ channel # <<>> /\ Head(channel).id = start.id
       /\ controller.phase # "choosing"

\* An answer to a request that was given up has the identity the next one will get.
StaleAnswer == shell.request = 0 /\ shell.result.id # 0 => shell.result.id = controller.id + 1

\* Otherwise the shell holds the controller's last request, if any, and a message
\* is to come for the tasks it waits behind, unless the message for the next task
\* was refused.
HandedOverInv ==
  start = Shell!NoStart /\ shell.request # 0 =>
    shell.request = controller.id /\ (~shell.stopping /\ shell.tasks # <<>> => shell.wakes > 0 \/ shell.stranded)

NothingIsForgotten ==
  /\ start.at = "queued" => Somewhere(start.id)
  /\ controller.phase = "choosing" /\ ~controller.closed => Somewhere(controller.id)
  /\ controller.phase = "choosing" => controller.id # 0

ShellInv ==
  ShellOK(shell) /\ AroundType /\ HandingOver /\ HandedOverInv /\ StaleAnswer /\ NothingIsForgotten

\* The instance counts as this module does.
LEMMA SameCardinality == \A S : Shell!Cardinality(S) = Cardinality(S)
  BY DEF Shell!Cardinality, Cardinality

\* The invariant gives the property.
LEMMA InvShows == ShellInv => DialogsAreSound
<1> SUFFICES ASSUME ShellInv PROVE DialogsAreSound
  OBVIOUS
<1> USE DEF ShellInv
<1>1. shell \in ShellType
  BY DEF ShellOK
<1>2. Shell!TypeOK
  <2>1. Tasks = [kind : Shell!Dialogs \cup {"admin"}, id : Shell!Ids]
    BY DEF Tasks, Shell!Dialogs
  <2>2. Pumps = [kind : Shell!Dialogs \cup {"confirm", "menu"}, id : Shell!Ids,
                 phase : {"creating", "showing", "visible", "dismissed"}]
    BY DEF Pumps, PumpKinds, Shell!Dialogs
  <2>3. \A flag \in {"ready", "stopping", "over", "ended", "scheduled", "timer", "shutdown",
                  "quitRequested", "accepted", "stranded"} : shell[flag] \in BOOLEAN
    BY <1>1 DEF ShellType
  <2>4. /\ shell.tasks \in Seq(Tasks) /\ shell.pumps \in Seq(Pumps) /\ shell.wakes \in Nat
        /\ shell.request \in Shell!Ids /\ shell.result \in Shell!Results
    BY <1>1 DEF ShellType
  <2> HIDE DEF Tasks, Pumps
  <2> QED
    BY <2>1, <2>2, <2>3, <2>4 DEF Shell!TypeOK, AroundType
<1>3. Shell!OneDialog
  <2> DEFINE D == {i \in DOMAIN shell.pumps : shell.pumps[i].kind # "menu"}
  <2>1. IsFiniteSet(D) /\ Cardinality(D) <= 1
    <3>1. CASE D = {}
      BY <3>1, FS_EmptySet
    <3>2. CASE D # {}
      <4>1. PICK d \in D : TRUE
        BY <3>2
      <4>2. D = {d}
        BY <4>1 DEF ShellOK, OnePump
      <4>3. Cardinality({d}) = 1 /\ IsFiniteSet({d})
        BY FS_Singleton
      <4> QED
        BY <4>2, <4>3
    <3> QED
      BY <3>1, <3>2
  <2> QED
    BY <2>1, SameCardinality DEF Shell!OneDialog
<1>4. Shell!RequestIsSomewhere
  <2> SUFFICES ASSUME controller.phase = "choosing", ~controller.closed, ~(channel # <<>> /\ Head(channel).id = controller.id)
               PROVE /\ shell.request = controller.id
                     /\ \/ shell.result.id = controller.id
                        \/ Shell!InQueue(controller.id) /\ (shell.wakes > 0 \/ shell.stranded)
                        \/ Shell!OnScreen(controller.id)
    BY DEF Shell!RequestIsSomewhere
  <2>1. /\ shell.request = controller.id /\ controller.id # 0
        /\ Held(shell, controller.id) \/ Queued(shell, controller.id)
    BY DEF NothingIsForgotten, Somewhere
  <2>2. start = Shell!NoStart
    BY DEF HandingOver
  <2>3. ASSUME Queued(shell, controller.id), shell.result.id # controller.id
        PROVE Shell!InQueue(controller.id) /\ (shell.wakes > 0 \/ shell.stranded)
    <3>1. PICK i \in DOMAIN shell.tasks : shell.tasks[i].kind = "playlist" /\ shell.tasks[i].id = controller.id
      BY <2>3 DEF Queued
    <3>2. shell.tasks \in Seq(Tasks)
      BY <1>1 DEF ShellType
    <3>3. shell.tasks[i] \in Tasks /\ shell.tasks # <<>>
      BY <3>1, <3>2
    <3>4. shell.tasks[i] = Shell!Task("playlist", controller.id)
      BY <3>1, <3>3 DEF Tasks, Shell!Task
    <3>5. shell.wakes > 0 \/ shell.stranded
      BY <2>1, <2>2, <2>3, <3>3 DEF HandedOverInv, ShellOK
    <3> QED
      BY <3>1, <3>4, <3>5 DEF Shell!InQueue
  <2> QED
    BY <2>1, <2>3 DEF Held, InDialog, Shell!OnScreen
<1> QED
  BY <1>2, <1>3, <1>4 DEF DialogsAreSound

\* It holds at the start.
LEMMA InvInit == Shell!Init => ShellInv
<1> SUFFICES ASSUME Shell!Init PROVE ShellInv
  OBVIOUS
<1> USE DEF Shell!Init
<1>1. Shell!NoResult \in Shell!Results /\ Shell!NoResult.id = 0
  BY ZeroIsId DEF Shell!NoResult, Shell!Results, Shell!Outcomes
<1>2. <<Shell!Task("admin", 0)>> \in Seq(Tasks) /\ <<>> \in Seq(Pumps) /\ Len(<<Shell!Task("admin", 0)>>) = 1
  BY ZeroIsId DEF Tasks, Shell!Task
<1>3. shell \in ShellType
  <2>1. \A posted : (IF posted THEN 1 ELSE 0) \in Nat
    OBVIOUS
  <2> QED
    BY <1>1, <1>2, <2>1, ZeroIsId DEF ShellType
<1>4. ShellOK(shell)
  BY <1>1, <1>3 DEF ShellOK, OnePump
<1>5. AroundType
  BY <1>2, ZeroIsId DEF AroundType, Shell!NoStart, Shell!Phases
<1>6. HandingOver /\ HandedOverInv /\ StaleAnswer /\ NothingIsForgotten
  BY <1>1 DEF HandingOver, HandedOverInv, StaleAnswer, NothingIsForgotten, Shell!NoStart
<1> QED
  BY <1>4, <1>5, <1>6 DEF ShellInv

\* A step of the thread that leaves its tasks alone.
LEMMA ThreadStep ==
  ASSUME ShellInv, Sound(shell, shell'), UNCHANGED <<start, channel, controller>>,
         main' \in {main, "ended"}, inputs' \in inputs..MaxInputs
  PROVE  ShellInv'
<1> USE DEF ShellInv
<1>1. ShellOK(shell')
  BY DEF Sound
<1>2. Onward(shell, shell')
  BY DEF Sound
<1>3. AroundType'
  <2>1. Len(shell'.tasks) <= TaskLimit /\ start' = start /\ controller' = controller
    BY <1>2 DEF AroundType, Onward
  <2>2. inputs \in Nat /\ MaxInputs \in Nat /\ inputs' \in 0..MaxInputs /\ inputs <= inputs'
    BY ZeroIsId DEF AroundType
  <2>3. controller.id + (IF start = Shell!NoStart THEN 0 ELSE 1) \in Nat
    BY DEF AroundType, Shell!Ids
  <2>4. controller'.id + (IF start' = Shell!NoStart THEN 0 ELSE 1) <= inputs'
    BY <2>1, <2>2, <2>3 DEF AroundType
  <2> QED
    BY <2>1, <2>2, <2>4 DEF AroundType
<1>4. HandingOver'
  BY <1>2 DEF HandingOver, Onward
<1>5. HandedOverInv'
  BY <1>2 DEF HandedOverInv, Onward
<1>9. StaleAnswer'
  BY <1>2 DEF StaleAnswer, Onward
<1>6. \A id : Somewhere(id) /\ id # 0 => Somewhere(id)'
  BY <1>2 DEF Somewhere, Onward, Queued
<1>7. start.at = "queued" => start.id # 0
  BY DEF HandingOver, AroundType, Shell!NoStart, Shell!Ids
<1>8. NothingIsForgotten'
  BY <1>6, <1>7 DEF NothingIsForgotten
<1> QED
  BY <1>1, <1>3, <1>4, <1>5, <1>8, <1>9

\* An input more, within the bound.
LEMMA Asking ==
  ASSUME ShellInv, Shell!Ask \/ UNCHANGED inputs
  PROVE  inputs' \in inputs..MaxInputs /\ inputs \in Nat
  BY ZeroIsId DEF ShellInv, AroundType, Shell!Ask

\* The dialogs are answered, closed and shown; people call and leave menus.
LEMMA ThreadPreserves ==
  ASSUME ShellInv, (Shell!Thread /\ ~Shell!Drain) \/ Shell!People
  PROVE  ShellInv'
<1> DEFINE s == shell
<1>1. ShellOK(s) /\ s.pumps \in Seq(Pumps)
  BY DEF ShellInv, ShellOK, ShellType
<1>2. {"path", "cancelled", "error"} \subseteq Shell!Outcomes
  BY DEF Shell!Outcomes
<1>3. ASSUME NEW t, shell' = t, Sound(s, t), Shell!ShellOnly, Shell!Ask \/ UNCHANGED inputs
      PROVE  ShellInv'
  <2>1. UNCHANGED <<start, channel, controller, main>>
    BY <1>3 DEF Shell!ShellOnly
  <2>2. inputs' \in inputs..MaxInputs
    BY <1>3, Asking
  <2> QED
    BY <1>3, <2>1, <2>2, ThreadStep
<1>4. \A b \in BOOLEAN : Sound(s, [s EXCEPT !.ended = b]) /\ Sound(s, [s EXCEPT !.quitRequested = b])
  BY <1>1, OneFlag
<1>5. CASE Shell!DialogIsCreated
  <2>1. s.pumps # <<>> /\ Shell!ShellOnly /\ UNCHANGED inputs
    BY <1>5 DEF Shell!DialogIsCreated, Shell!Becomes
  <2>2. \/ shell' = Shell!InPhase(s, "showing")
        \/ shell' = Shell!Closed(Shell!Finish(s, Shell!Inner(s).id, "cancelled"))
        \/ shell' = Shell!Closed(Shell!Finish(s, Shell!Inner(s).id, "error"))
    BY <1>5 DEF Shell!DialogIsCreated, Shell!Becomes
  <2>3. /\ Sound(s, Shell!InPhase(s, "showing"))
        /\ Sound(s, Shell!Closed(Shell!Finish(s, Shell!Inner(s).id, "cancelled")))
        /\ Sound(s, Shell!Closed(Shell!Finish(s, Shell!Inner(s).id, "error")))
    BY <1>1, <1>2, <2>1, InPhaseSound, AnswerAndClose
  <2> QED
    BY <1>3, <2>1, <2>2, <2>3
<1>6. CASE Shell!DialogAppears
  <2>1. s.pumps # <<>> /\ Shell!ShellOnly /\ UNCHANGED inputs /\ shell' = Shell!InPhase(s, "visible")
    BY <1>6 DEF Shell!DialogAppears, Shell!Becomes
  <2>2. Sound(s, Shell!InPhase(s, "visible"))
    BY <1>1, <2>1, InPhaseSound
  <2> QED
    BY <1>3, <2>1, <2>2
<1>7. ASSUME NEW outcome \in {"path", "cancelled"},
             (Shell!DialogObeys /\ outcome = "cancelled") \/ Shell!AnswerDialog(outcome)
      PROVE  ShellInv'
  <2>1. s.pumps # <<>> /\ Shell!ShellOnly /\ UNCHANGED inputs /\ shell' = Shell!Answered(s, outcome)
    BY <1>7 DEF Shell!DialogObeys, Shell!AnswerDialog, Shell!Becomes
  <2>2. Sound(s, Shell!Answered(s, outcome))
    BY <1>1, <1>2, <2>1, AnsweredSound
  <2> QED
    BY <1>3, <2>1, <2>2
<1>8. CASE Shell!HearShutdown
  <2>0. PICK told \in Shell!Posted : Shell!Becomes([Shell!ShutdownUI(s, told) EXCEPT !.shutdown = FALSE])
    BY <1>8 DEF Shell!HearShutdown
  <2> DEFINE t == Shell!ShutdownUI(s, told)  u == [t EXCEPT !.shutdown = FALSE]
  <2>1. Shell!ShellOnly /\ UNCHANGED inputs /\ shell' = u
    BY <1>8, <2>0 DEF Shell!HearShutdown, Shell!Becomes
  <2>2. Sound(s, t)
    BY <1>1, Answers, ShutdownSound
  <2>3. ShellOK(t)
    BY <2>2 DEF Sound
  <2>4. Sound(t, u)
    BY <2>3, OneFlag
  <2>5. Sound(s, u)
    BY <2>2, <2>4, Trans
  <2> QED
    BY <1>3, <2>1, <2>5
<1>9. CASE Shell!TimerTicks
  <2>1. Shell!ShellOnly /\ UNCHANGED inputs /\ shell' = Shell!Dismissed(s)
    BY <1>9 DEF Shell!TimerTicks, Shell!Becomes
  <2>2. Sound(s, Shell!Dismissed(s))
    BY <1>1, DismissedSound
  <2> QED
    BY <1>3, <2>1, <2>2
<1>10. CASE Shell!ThreadEnds
  <2>1. Shell!ShellOnly /\ UNCHANGED inputs /\ shell' = [s EXCEPT !.ended = TRUE]
    BY <1>10 DEF Shell!ThreadEnds, Shell!Becomes
  <2> QED
    BY <1>3, <1>4, <2>1
<1>11. ASSUME NEW chosen \in {"none", "media", "quit"}, Shell!LeaveMenu(chosen) PROVE ShellInv'
  <2> DEFINE t == CASE chosen = "media" -> Shell!ChooseMedia(Shell!Left(s))
                    [] chosen = "quit" -> [Shell!Left(s) EXCEPT !.quitRequested = TRUE]
                    [] OTHER -> Shell!Left(s)
  <2>1. /\ Shell!ShellOnly /\ UNCHANGED inputs /\ shell' = t
        /\ s.pumps # <<>> /\ Shell!Inner(s).kind = "menu"
    BY <1>11 DEF Shell!LeaveMenu, Shell!Becomes
  <2>2. Sound(s, t)
    BY <1>1, <2>1, LeaveMenuSound
  <2> QED
    BY <1>3, <2>1, <2>2
<1>12. CASE Shell!ChooseMediaCommand
  <2>1. Shell!ShellOnly /\ Shell!Ask /\ shell' = Shell!ChooseMedia(s)
    BY <1>12 DEF Shell!ChooseMediaCommand, Shell!Becomes
  <2>2. Sound(s, Shell!ChooseMedia(s))
    BY <1>1, ChooseMediaSound
  <2> QED
    BY <1>3, <2>1, <2>2
<1>13. CASE Shell!QuitCommand
  <2>1. Shell!ShellOnly /\ Shell!Ask /\ shell' = [s EXCEPT !.quitRequested = TRUE]
    BY <1>13 DEF Shell!QuitCommand, Shell!Becomes
  <2> QED
    BY <1>3, <1>4, <2>1
<1>14. CASE Shell!OpenMenu
  <2>1. Shell!ShellOnly /\ Shell!Ask /\ shell' = Shell!Opened(s, Shell!Pump("menu", 0, "visible"))
    BY <1>14 DEF Shell!OpenMenu, Shell!Becomes
  <2>2. Sound(s, Shell!Opened(s, Shell!Pump("menu", 0, "visible")))
    BY <1>1, ZeroIsId, OpenedMenu
  <2> QED
    BY <1>3, <2>1, <2>2
<1>15. CASE Shell!CloseWindow
  <2>1. /\ Shell!ShellOnly /\ Shell!Ask /\ shell' = Shell!Opened(s, Shell!Pump("confirm", 0, "showing"))
        /\ Shell!MayConfirm(s)
    BY <1>15 DEF Shell!CloseWindow, Shell!Becomes
  <2>2. Sound(s, Shell!Opened(s, Shell!Pump("confirm", 0, "showing")))
    BY <1>1, <2>1, OpenedConfirm
  <2> QED
    BY <1>3, <2>1, <2>2
<1> QED
  BY <1>5, <1>6, <1>7, <1>8, <1>9, <1>10, <1>11, <1>12, <1>13, <1>14, <1>15 DEF Shell!Thread, Shell!People

\* The thread takes its tasks.
LEMMA DrainPreserves == ASSUME ShellInv, Shell!Drain PROVE ShellInv'
<1> USE DEF ShellInv
<1>0. PICK posted \in Shell!Posted : Shell!Becomes(Shell!DrainTasks(shell, posted))
  BY DEF Shell!Drain
<1>1. /\ shell' = Shell!DrainTasks(shell, posted) /\ UNCHANGED <<start, channel, controller, main, inputs>>
      /\ shell.wakes > 0
  BY <1>0 DEF Shell!Drain, Shell!Becomes, Shell!ShellOnly, Shell!MayDrain
<1>2. /\ ShellOK(shell') /\ shell'.request = shell.request
      /\ shell.stopping => shell'.stopping
      /\ shell.result.id # 0 => shell'.result = shell.result
      /\ shell'.result.id # 0 => shell'.result.id \in {shell.result.id, shell.request}
      /\ Len(shell'.tasks) <= Len(shell.tasks)
      /\ ~shell'.stopping => shell'.wakes > 0 \/ shell'.tasks = <<>> \/ shell'.stranded
      /\ shell.request # 0 /\ (Held(shell, shell.request) \/ Queued(shell, shell.request))
           => Held(shell', shell.request) \/ Queued(shell', shell.request)
  BY <1>1, Answers, DrainSound
<1>3. AroundType'
  <2>1. Len(shell.tasks) \in Nat /\ Len(shell'.tasks) \in Nat
    BY <1>2 DEF ShellOK, ShellType
  <2>2. Len(shell'.tasks) <= TaskLimit
    BY <1>2, <2>1, ZeroIsId DEF AroundType
  <2> QED
    BY <1>1, <2>2 DEF AroundType
<1>4. HandingOver'
  BY <1>1, <1>2 DEF HandingOver
<1>5. HandedOverInv'
  BY <1>1, <1>2 DEF HandedOverInv
<1>9. StaleAnswer'
  BY <1>1, <1>2 DEF StaleAnswer
<1>6. \A id : Somewhere(id) /\ id # 0 => Somewhere(id)'
  BY <1>1, <1>2 DEF Somewhere
<1>7. start.at = "queued" => start.id # 0
  BY DEF HandingOver, AroundType, Shell!NoStart, Shell!Ids
<1>8. NothingIsForgotten'
  BY <1>1, <1>6, <1>7 DEF NothingIsForgotten
<1> QED
  BY <1>2, <1>3, <1>4, <1>5, <1>8, <1>9

\* A task more, and perhaps a message more.
LEMMA PutTask ==
  ASSUME NEW tasks \in Seq(Tasks), NEW task \in Tasks
  PROVE  /\ Append(tasks, task) \in Seq(Tasks) /\ Append(tasks, task) # <<>>
         /\ Len(Append(tasks, task)) = Len(tasks) + 1 /\ Len(tasks) \in Nat
         /\ DOMAIN Append(tasks, task) = 1..Len(tasks) + 1 /\ DOMAIN tasks = 1..Len(tasks)
         /\ \A i \in 1..Len(tasks) : Append(tasks, task)[i] = tasks[i]
         /\ Append(tasks, task)[Len(tasks) + 1] = task
  OBVIOUS

\* Identities fit their types.
LEMMA RequestsAreIds ==
  ASSUME ShellInv
  PROVE  /\ shell \in ShellType /\ controller.id \in Nat /\ inputs \in Nat /\ MaxInputs \in Nat
         /\ start.id \in Shell!Ids /\ Shell!Ids = 0..MaxInputs + 1 /\ inputs <= MaxInputs
         /\ start # Shell!NoStart => start.at \in {"reserved", "queued"} /\ start.id = controller.id + 1
         /\ start.at # "none" => start # Shell!NoStart
  BY ZeroIsId DEF ShellInv, ShellOK, AroundType, HandingOver, Shell!Ids, Shell!NoStart

\* A request is reserved.
LEMMA ReservePreserves == ASSUME ShellInv, Shell!Reserve PROVE ShellInv'
<1> USE DEF ShellInv
<1> DEFINE id == controller.id + 1  t == [shell EXCEPT !.request = id]
<1>1. /\ start = Shell!NoStart /\ ~shell.stopping /\ controller.phase \notin {"choosing", "working"}
      /\ shell.request = 0 /\ shell' = t /\ start' = [id |-> id, at |-> "reserved"]
      /\ UNCHANGED <<channel, controller, main>> /\ inputs < MaxInputs /\ inputs' = inputs + 1
  BY DEF Shell!Reserve, Shell!Ask, Shell!Available
<1>2. shell \in ShellType /\ controller.id \in Nat /\ inputs \in Nat /\ MaxInputs \in Nat
      /\ controller.id <= inputs
  BY <1>1, RequestsAreIds DEF AroundType
<1>3. id \in Shell!Ids /\ id # 0 /\ id <= inputs' /\ inputs' \in 0..MaxInputs /\ id + 1 \in Nat /\ id - 1 \in Nat
  BY <1>1, <1>2 DEF Shell!Ids
<1>4. start' # Shell!NoStart
  BY <1>1 DEF Shell!NoStart
<1>5. /\ t \in ShellType /\ t.request = id /\ t.result = shell.result /\ t.tasks = shell.tasks /\ t.pumps = shell.pumps
      /\ t.stopping = shell.stopping /\ t.over = shell.over /\ t.wakes = shell.wakes
      /\ t.stranded = shell.stranded
  BY <1>2, <1>3 DEF ShellType
<1> HIDE DEF t
<1>6. shell.result.id \in {0, id}
  BY <1>1 DEF StaleAnswer
<1>7. ShellOK(t)
  BY <1>1, <1>5, <1>6 DEF ShellOK
<1>8. AroundType'
  BY <1>1, <1>3, <1>4, <1>5 DEF AroundType
<1>9. HandingOver' /\ HandedOverInv' /\ StaleAnswer' /\ NothingIsForgotten'
  BY <1>1, <1>3, <1>4, <1>5 DEF HandingOver, StaleAnswer, HandedOverInv, NothingIsForgotten
<1> QED
  BY <1>1, <1>7, <1>8, <1>9

\* The handing over is given up.
LEMMA GiveUpPreserves ==
  ASSUME ShellInv, Shell!GiveUp, start # Shell!NoStart, UNCHANGED <<channel, main, inputs>>
  PROVE  ShellInv'
<1> USE DEF ShellInv
<1> DEFINE t == [shell EXCEPT !.request = 0]
<1>1. shell' = t /\ start' = Shell!NoStart /\ UNCHANGED controller
  BY DEF Shell!GiveUp
<1>2. shell \in ShellType /\ controller.id \in Nat /\ inputs \in Nat
  BY RequestsAreIds
<1>3. /\ t \in ShellType /\ t.request = 0 /\ t.result = shell.result /\ t.tasks = shell.tasks /\ t.pumps = shell.pumps
      /\ t.stopping = shell.stopping /\ t.over = shell.over /\ t.wakes = shell.wakes
      /\ t.stranded = shell.stranded
  BY <1>2, ZeroIsId DEF ShellType
<1> HIDE DEF t
<1>4. ShellOK(t)
  BY <1>3 DEF ShellOK
<1>5. StaleAnswer'
  BY <1>1, <1>3 DEF StaleAnswer, HandingOver, ShellOK
<1>6. AroundType'
  <2>1. Shell!NoStart \in [id : Shell!Ids, at : {"none", "reserved", "queued"}]
    BY ZeroIsId DEF Shell!NoStart
  <2> QED
    BY <1>1, <1>2, <1>3, <2>1 DEF AroundType
<1>7. HandingOver' /\ HandedOverInv' /\ NothingIsForgotten'
  BY <1>1, <1>3 DEF HandingOver, HandedOverInv, NothingIsForgotten, Shell!NoStart
<1> QED
  BY <1>1, <1>4, <1>5, <1>6, <1>7

\* Its task is queued.
LEMMA EnqueuePreserves == ASSUME ShellInv, Shell!Enqueue PROVE ShellInv'
<1> USE DEF ShellInv
<1>1. start.at = "reserved" /\ start # Shell!NoStart /\ UNCHANGED <<channel, main, inputs>>
  BY DEF Shell!Enqueue, Shell!NoStart
<1>2. CASE shell.stopping \/ Len(shell.tasks) >= TaskLimit
  BY <1>1, <1>2, GiveUpPreserves DEF Shell!Enqueue
<1>3. CASE ~(shell.stopping \/ Len(shell.tasks) >= TaskLimit)
  <2> DEFINE task == Shell!Task("playlist", start.id)
             tasks == Append(shell.tasks, task)
             t == [shell EXCEPT !.tasks = tasks]
  <2>1. shell' = t /\ start' = [start EXCEPT !.at = "queued"] /\ UNCHANGED controller
    BY <1>3 DEF Shell!Enqueue
  <2>2. shell \in ShellType /\ shell.tasks \in Seq(Tasks) /\ start.id \in Shell!Ids /\ start.id = controller.id + 1
        /\ controller.id \in Nat
    BY <1>1, RequestsAreIds DEF ShellType
  <2>3. task \in Tasks /\ task.kind = "playlist" /\ task.id = start.id
    BY <2>2 DEF Tasks, Shell!Task
  <2> HIDE DEF task
  <2>4. /\ tasks \in Seq(Tasks) /\ Len(tasks) = Len(shell.tasks) + 1 /\ Len(shell.tasks) \in Nat
        /\ DOMAIN tasks = 1..Len(shell.tasks) + 1 /\ tasks[Len(shell.tasks) + 1] = task
    BY <2>2, <2>3, PutTask
  <2> HIDE DEF tasks
  <2>5. /\ t \in ShellType /\ t.request = shell.request /\ t.result = shell.result /\ t.tasks = tasks
        /\ t.pumps = shell.pumps /\ t.stopping = shell.stopping /\ t.over = shell.over /\ t.wakes = shell.wakes
        /\ t.stranded = shell.stranded
    BY <2>2, <2>4 DEF ShellType
  <2> HIDE DEF t
  <2>6. ShellOK(t) /\ StaleAnswer'
    BY <2>1, <2>5 DEF ShellOK, StaleAnswer
  <2>7. Queued(t, start.id)
    BY <2>3, <2>4, <2>5 DEF Queued
  <2>8. start'.at = "queued" /\ start'.id = start.id /\ start' # Shell!NoStart
        /\ start' \in [id : Shell!Ids, at : {"none", "reserved", "queued"}]
    BY <2>1 DEF AroundType, Shell!NoStart
  <2>9. Len(tasks) <= TaskLimit
    BY <1>3, <2>4, ZeroIsId
  <2>10. AroundType'
    BY <1>1, <2>1, <2>5, <2>8, <2>9 DEF AroundType
  <2>11. HandingOver' /\ HandedOverInv'
    BY <1>1, <2>1, <2>2, <2>5, <2>8 DEF HandingOver, HandedOverInv
  <2>12. Somewhere(start.id)'
    BY <1>1, <2>1, <2>5, <2>7 DEF Somewhere, HandingOver
  <2>13. NothingIsForgotten'
    BY <1>1, <2>1, <2>8, <2>12 DEF NothingIsForgotten, HandingOver
  <2> QED
    BY <2>1, <2>6, <2>10, <2>11, <2>13
<1> QED
  BY <1>2, <1>3

\* The thread is woken for it.
LEMMA WakePreserves == ASSUME ShellInv, Shell!Wake PROVE ShellInv'
<1> USE DEF ShellInv
<1> DEFINE t == [shell EXCEPT !.wakes = @ + 1, !.stranded = FALSE]
<1>1. /\ start.at = "queued" /\ shell' = t /\ start' = Shell!NoStart
      /\ controller' = [controller EXCEPT !.id = start.id, !.phase = "choosing"]
      /\ UNCHANGED <<channel, main, inputs>>
  BY DEF Shell!Wake
<1>2. /\ shell \in ShellType /\ start.id \in Shell!Ids /\ start # Shell!NoStart
      /\ start.id = controller.id + 1 /\ controller.id \in Nat
  BY <1>1, RequestsAreIds
<1>3. shell.wakes \in Nat /\ shell.wakes + 1 > 0
  BY <1>2 DEF ShellType
<1>4. /\ t \in ShellType /\ t.request = shell.request /\ t.result = shell.result /\ t.tasks = shell.tasks
      /\ t.pumps = shell.pumps /\ t.stopping = shell.stopping /\ t.over = shell.over /\ t.wakes > 0
  <2> DEFINE w == shell.wakes + 1
  <2>1. w \in Nat /\ w > 0
    BY <1>3
  <2>2. t = [shell EXCEPT !.wakes = w, !.stranded = FALSE]
    BY <1>2 DEF ShellType
  <2> HIDE DEF w, t
  <2>3. t \in ShellType /\ t.wakes = w
    BY <1>2, <2>1, <2>2 DEF ShellType
  <2>4. /\ t.request = shell.request /\ t.result = shell.result /\ t.tasks = shell.tasks
        /\ t.pumps = shell.pumps /\ t.stopping = shell.stopping /\ t.over = shell.over
    BY <1>2, <2>2 DEF ShellType
  <2> QED
    BY <2>1, <2>3, <2>4
<1> HIDE DEF t
<1>5. /\ controller'.id = start.id /\ controller'.phase = "choosing"
      /\ controller' \in [id : Shell!Ids, phase : Shell!Phases, closed : BOOLEAN]
  BY <1>1, <1>2 DEF AroundType, Shell!Phases
<1>6. ShellOK(t)
  BY <1>4 DEF ShellOK
<1>7. StaleAnswer'
  BY <1>1, <1>2, <1>4, <1>5 DEF StaleAnswer, HandingOver
<1>8. AroundType'
  <2>1. Shell!NoStart \in [id : Shell!Ids, at : {"none", "reserved", "queued"}]
    BY ZeroIsId DEF Shell!NoStart
  <2>2. controller'.id + 0 <= inputs /\ inputs' = inputs
    BY <1>1, <1>2, <1>5 DEF AroundType
  <2> QED
    BY <1>1, <1>4, <1>5, <2>1, <2>2 DEF AroundType
<1>9. HandingOver'
  BY <1>1 DEF HandingOver
<1>10. HandedOverInv'
  BY <1>1, <1>2, <1>4, <1>5 DEF HandedOverInv, HandingOver
<1>11. Somewhere(start.id) /\ start.id # 0
  BY <1>1, <1>2 DEF NothingIsForgotten
<1>13. \A id : Somewhere(id) => Somewhere(id)'
  BY <1>1, <1>4 DEF Somewhere, Held, InDialog, Queued
<1>12. NothingIsForgotten'
  BY <1>1, <1>5, <1>11, <1>13 DEF NothingIsForgotten, Shell!NoStart
<1> QED
  BY <1>1, <1>6, <1>7, <1>8, <1>9, <1>10, <1>12

\* A controller asks for the media dialog.
LEMMA ChooseFilesPreserves == ASSUME ShellInv, Shell!ChooseFiles PROVE ShellInv'
<1> USE DEF ShellInv
<1> DEFINE task == Shell!Task("media", 0)
           tasks == Append(shell.tasks, task)
           asked == [shell EXCEPT !.scheduled = TRUE, !.tasks = tasks]
<1>1. /\ inputs < MaxInputs /\ inputs' = inputs + 1 /\ shell.request = 0 /\ Len(shell.tasks) < TaskLimit
      /\ \/ shell' = [asked EXCEPT !.wakes = @ + 1, !.stranded = FALSE]
         \/ shell' = [asked EXCEPT !.scheduled = FALSE]
      /\ UNCHANGED <<start, channel, controller, main>>
  BY DEF Shell!ChooseFiles, Shell!Ask, Shell!ShellOnly
<1>2. shell \in ShellType /\ shell.tasks \in Seq(Tasks) /\ inputs \in Nat /\ shell.wakes + 1 \in Nat
  BY RequestsAreIds DEF ShellType
<1>3. task \in Tasks
  BY ZeroIsId DEF Tasks, Shell!Task
<1> HIDE DEF task
<1>4. tasks \in Seq(Tasks) /\ Len(tasks) = Len(shell.tasks) + 1 /\ Len(shell.tasks) \in Nat
  BY <1>2, <1>3, PutTask
<1> HIDE DEF tasks
<1>5. /\ shell' \in ShellType /\ shell'.request = shell.request /\ shell'.result = shell.result /\ shell'.tasks = tasks
      /\ shell'.pumps = shell.pumps /\ shell'.stopping = shell.stopping /\ shell'.over = shell.over
  <2>1. /\ asked \in ShellType /\ asked.request = shell.request /\ asked.result = shell.result /\ asked.tasks = tasks
        /\ asked.pumps = shell.pumps /\ asked.stopping = shell.stopping /\ asked.over = shell.over
        /\ asked.wakes = shell.wakes /\ asked.stranded = shell.stranded
    BY <1>2, <1>4 DEF ShellType
  <2> HIDE DEF asked
  <2>2. CASE shell' = [asked EXCEPT !.wakes = @ + 1, !.stranded = FALSE]
    BY <1>2, <2>1, <2>2 DEF ShellType
  <2>3. CASE shell' = [asked EXCEPT !.scheduled = FALSE]
    BY <1>2, <2>1, <2>3 DEF ShellType
  <2> QED
    BY <1>1, <2>2, <2>3
<1> HIDE DEF asked
<1>6. ShellOK(shell') /\ StaleAnswer'
  BY <1>1, <1>5 DEF ShellOK, StaleAnswer
<1>7. AroundType'
  <2>1. Len(tasks) <= TaskLimit
    BY <1>1, <1>4, ZeroIsId
  <2>2. controller.id + (IF start = Shell!NoStart THEN 0 ELSE 1) \in Nat
    BY DEF AroundType, Shell!Ids
  <2> DEFINE k == controller.id + (IF start = Shell!NoStart THEN 0 ELSE 1)
  <2>3. k <= inputs /\ k' = k
    BY <1>1 DEF AroundType
  <2> HIDE DEF k
  <2>4. k' <= inputs' /\ inputs' \in 0..MaxInputs
    BY <1>1, <1>2, <2>2, <2>3, ZeroIsId DEF k
  <2> QED
    BY <1>1, <1>5, <2>1, <2>4 DEF AroundType, k
<1>8. HandingOver' /\ HandedOverInv'
  BY <1>1, <1>5 DEF HandingOver, HandedOverInv
<1>9. \A id : id # 0 /\ Somewhere(id) => Somewhere(id)'
  BY <1>1, <1>5 DEF Somewhere
<1>10. start.at = "queued" => start.id # 0
  BY RequestsAreIds
<1>11. NothingIsForgotten'
  BY <1>1, <1>9, <1>10 DEF NothingIsForgotten
<1> QED
  BY <1>6, <1>7, <1>8, <1>11

\* The poller takes the answer from the shell.
LEMMA TakeResultPreserves == ASSUME ShellInv, Shell!TakeResult PROVE ShellInv'
<1> USE DEF ShellInv
<1> DEFINE t == [shell EXCEPT !.result = Shell!NoResult, !.request = 0]
<1>1. /\ channel = <<>> /\ shell.result # Shell!NoResult /\ channel' = <<shell.result>> /\ shell' = t
      /\ UNCHANGED <<start, controller, main, inputs>>
  BY DEF Shell!TakeResult
<1>2. shell \in ShellType /\ shell.result \in Shell!Results /\ shell.result.id # 0
  BY <1>1, RequestsAreIds DEF ShellType, ShellOK
<1>3. Shell!NoResult \in Shell!Results /\ Shell!NoResult.id = 0
  BY ZeroIsId DEF Shell!NoResult, Shell!Results, Shell!Outcomes
<1>4. /\ t \in ShellType /\ t.request = 0 /\ t.result = Shell!NoResult /\ t.tasks = shell.tasks
      /\ t.pumps = shell.pumps /\ t.stopping = shell.stopping /\ t.over = shell.over /\ t.wakes = shell.wakes
      /\ t.stranded = shell.stranded
  BY <1>2, <1>3, ZeroIsId DEF ShellType
<1> HIDE DEF t
<1>5. ShellOK(t) /\ StaleAnswer'
  BY <1>1, <1>3, <1>4 DEF ShellOK, StaleAnswer
<1>6. channel' \in Seq(Shell!Results) /\ Len(channel') = 1 /\ channel' # <<>> /\ Head(channel') = shell.result
  BY <1>1, <1>2
<1>7. AroundType'
  BY <1>1, <1>4, <1>6 DEF AroundType
<1>8. shell.request # 0 => shell.result.id = shell.request
  BY <1>2 DEF ShellOK
<1>9. HandingOver'
  <2>1. start # Shell!NoStart => shell.request = start.id /\ start.id # 0
    BY <1>1, RequestsAreIds DEF HandingOver
  <2> QED
    BY <1>1, <1>3, <1>4, <1>6, <1>8, <2>1 DEF HandingOver
<1>10. HandedOverInv'
  BY <1>1, <1>4 DEF HandedOverInv
<1>11. \A id : id # 0 /\ Somewhere(id) => Somewhere(id)'
  BY <1>1, <1>6, <1>8 DEF Somewhere
<1>12. start.at = "queued" => start.id # 0
  BY RequestsAreIds
<1>13. NothingIsForgotten'
  BY <1>1, <1>11, <1>12 DEF NothingIsForgotten
<1> QED
  BY <1>1, <1>5, <1>7, <1>9, <1>10, <1>13

\* The controller takes it from the channel.
LEMMA CompletePreserves == ASSUME ShellInv, Shell!Complete PROVE ShellInv'
<1> USE DEF ShellInv
<1>1. /\ channel # <<>> /\ start = Shell!NoStart /\ channel' = <<>> /\ UNCHANGED <<shell, start, main, inputs>>
      /\ controller' =
           IF controller.closed \/ controller.phase # "choosing" \/ Head(channel).id # controller.id
           THEN controller
           ELSE [controller EXCEPT !.phase = IF Head(channel).outcome = "path" THEN "working" ELSE "done"]
  BY DEF Shell!Complete
<1>2. /\ controller'.id = controller.id /\ controller'.closed = controller.closed
      /\ controller' \in [id : Shell!Ids, phase : Shell!Phases, closed : BOOLEAN]
      /\ controller'.phase = "choosing" => controller.phase = "choosing"
      /\ controller'.phase = "choosing" /\ ~controller.closed => Head(channel).id # controller.id
  BY <1>1 DEF AroundType, Shell!Phases
<1>3. AroundType'
  BY <1>1, <1>2 DEF AroundType
<1>4. HandingOver' /\ HandedOverInv' /\ StaleAnswer' /\ ShellOK(shell')
  BY <1>1, <1>2 DEF HandingOver, HandedOverInv, StaleAnswer
<1>5. controller'.phase = "choosing" /\ ~controller.closed /\ Somewhere(controller.id) => Somewhere(controller.id)'
  BY <1>1, <1>2 DEF Somewhere
<1>6. NothingIsForgotten'
  BY <1>1, <1>2, <1>5 DEF NothingIsForgotten, Shell!NoStart, Somewhere
<1> QED
  BY <1>3, <1>4, <1>6

\* The loop ends, and the work on a file.
LEMMA LoopPreserves ==
  ASSUME ShellInv, Shell!WorkEnds \/ Shell!HearQuit \/ Shell!Quit \/ Shell!PostShutdown PROVE ShellInv'
<1> USE DEF ShellInv
<1>1. CASE Shell!WorkEnds
  <2>1. /\ controller' = [controller EXCEPT !.phase = "done"] /\ UNCHANGED <<shell, start, channel, main, inputs>>
    BY <1>1 DEF Shell!WorkEnds
  <2>2. controller'.id = controller.id /\ controller'.phase = "done"
        /\ controller' \in [id : Shell!Ids, phase : Shell!Phases, closed : BOOLEAN]
    BY <2>1 DEF AroundType, Shell!Phases
  <2> QED
    BY <2>1, <2>2 DEF AroundType, HandingOver, HandedOverInv, StaleAnswer, NothingIsForgotten, Somewhere
<1>2. CASE Shell!HearQuit \/ Shell!Quit
  <2>1. /\ controller' = [controller EXCEPT !.closed = TRUE] /\ UNCHANGED <<shell, start, channel>>
        /\ main' = "closing" /\ start = Shell!NoStart /\ (Shell!Ask \/ UNCHANGED inputs)
    BY <1>2 DEF Shell!HearQuit, Shell!LeaveLoop, Shell!Quit
  <2>2. /\ controller'.id = controller.id /\ controller'.phase = controller.phase /\ controller'.closed
        /\ controller' \in [id : Shell!Ids, phase : Shell!Phases, closed : BOOLEAN]
    BY <2>1 DEF AroundType
  <2>3. inputs' \in inputs..MaxInputs /\ inputs \in Nat
    BY <2>1, Asking
  <2>4. inputs' \in 0..MaxInputs /\ controller'.id + 0 <= inputs'
    BY <2>1, <2>2, <2>3, ZeroIsId DEF AroundType, Shell!Ids
  <2>5. AroundType'
    BY <2>1, <2>2, <2>4 DEF AroundType
  <2> QED
    BY <2>1, <2>2, <2>5 DEF HandingOver, HandedOverInv, StaleAnswer, NothingIsForgotten, Somewhere, Shell!NoStart
<1>3. CASE Shell!PostShutdown
  <2>1. PICK posted \in Shell!Posted : shell' = [shell EXCEPT !.shutdown = posted]
    BY <1>3 DEF Shell!PostShutdown
  <2>2. UNCHANGED <<start, channel, controller, inputs>> /\ main' = "ended"
    BY <1>3 DEF Shell!PostShutdown
  <2>3. Sound(shell, [shell EXCEPT !.shutdown = posted])
    BY Answers, OneFlag
  <2>4. inputs' \in inputs..MaxInputs
    BY <2>2, Asking
  <2> QED
    BY <2>1, <2>2, <2>3, <2>4, ThreadStep
<1> QED
  BY <1>1, <1>2, <1>3

\* Every step keeps the invariant.
LEMMA InvNext == ASSUME ShellInv, DesktopNext PROVE ShellInv'
<1>1. ASSUME UNCHANGED shellVars PROVE ShellInv'
  BY <1>1 DEF shellVars, ShellInv, AroundType, HandingOver, HandedOverInv, StaleAnswer, NothingIsForgotten, Somewhere
<1>2. ASSUME Shell!WakeFails PROVE ShellInv'
  <2>1. start.at = "queued" /\ Shell!GiveUp /\ UNCHANGED <<channel, main, inputs>>
    BY <1>2 DEF Shell!WakeFails
  <2>2. start # Shell!NoStart
    BY <2>1 DEF Shell!NoStart
  <2> QED
    BY <2>1, <2>2, GiveUpPreserves
<1>3. ASSUME Shell!Next PROVE ShellInv'
  BY <1>2, <1>3, ThreadPreserves, DrainPreserves, EnqueuePreserves, WakePreserves, TakeResultPreserves,
     CompletePreserves, LoopPreserves, ReservePreserves, ChooseFilesPreserves
  DEF Shell!Next, Shell!Go, Shell!Requests
<1> QED
  BY <1>1, <1>3 DEF DesktopNext

\* Whatever the callers, the dialogs and the shutdown do in between: there is never a
\* second dialog over the first, and a request for a playlist dialog is queued, in its
\* dialog, answered or given up by its caller; in the queue it waits with a message to
\* come, unless the one drainTasks posted for it was refused (desktop_windows.cpp,
\* playlistfile).
THEOREM DialogsAlwaysSound == DesktopSpec => []DialogsAreSound
<1>1. DesktopInit => ShellInv
  BY InvInit DEF DesktopInit
<1>2. ShellInv /\ [DesktopNext]_desktopVars => ShellInv'
  <2>1. ShellInv /\ UNCHANGED desktopVars => ShellInv'
    BY DEF desktopVars, shellVars, ShellInv, AroundType, HandingOver, HandedOverInv, StaleAnswer, NothingIsForgotten, Somewhere
  <2> QED
    BY <2>1, InvNext
<1> QED
  BY <1>1, <1>2, InvShows, PTL DEF DesktopSpec

-----------------------------------------------------------------------------
(* The Admin window. *)

AdminType ==
  /\ admin \in [creating : BOOLEAN, environment : BOOLEAN, view : BOOLEAN, stopping : BOOLEAN,
                over : BOOLEAN, ended : BOOLEAN, hadRuntime : BOOLEAN, registered : BOOLEAN,
                exited : BOOLEAN]
  /\ browser \in BOOLEAN

\* A browser belongs to an environment the window keeps; what was kept decides at the
\* tear-down whether its exit has to be seen, and from the stop on none starts again.
AdminInv ==
  /\ AdminType
  /\ admin.over \/ admin.registered \/ admin.exited => admin.stopping
  /\ admin.ended => admin.over
  /\ browser /\ ~admin.over => admin.environment
  /\ browser /\ admin.over => admin.hadRuntime /\ ~admin.exited
  /\ profile = "removed" => admin.stopping
  /\ admin.exited => ~browser
  /\ Admin!ProfileIsUnused /\ Admin!ReloadIsPossible

\* It holds at the start.
LEMMA AdminInit == Admin!Init => AdminInv
<1> SUFFICES ASSUME Admin!Init PROVE AdminInv
  OBVIOUS
<1>1. AdminType
  BY DEF Admin!Init, AdminType
<1>2. /\ ~admin.creating /\ ~admin.stopping /\ ~admin.over /\ ~admin.ended /\ ~admin.registered /\ ~admin.exited
      /\ ~browser /\ profile = "none"
  BY DEF Admin!Init
<1> QED
  BY <1>1, <1>2 DEF AdminInv, Admin!ProfileIsUnused, Admin!ReloadIsPossible

\* Every step of the window, the browser and the host keeps it; none revives a page after the stop.
LEMMA AdminNext ==
  ASSUME AdminInv, Admin!Next
  PROVE  /\ AdminInv'
         /\ admin.stopping => (admin'.view => admin.view) /\ (browser' => browser)
<1> USE DEF AdminInv, AdminType, Admin!ProfileIsUnused, Admin!ReloadIsPossible
<1>1. CASE Admin!ShowWindow
  BY <1>1 DEF Admin!ShowWindow
<1>2. CASE Admin!EnvironmentCreated
  <2>1. CASE admin' = [admin EXCEPT !.environment = TRUE] /\ callback' = "controller" /\ browser' = TRUE
    BY <1>2, <2>1 DEF Admin!EnvironmentCreated, Admin!Heard
  <2>2. ASSUME NEW environment \in {admin.environment, TRUE},
               admin' = [Admin!Fails(admin) EXCEPT !.environment = environment], UNCHANGED browser
        PROVE  /\ AdminInv'
               /\ admin.stopping => (admin'.view => admin.view) /\ (browser' => browser)
    BY <1>2, <2>2 DEF Admin!EnvironmentCreated, Admin!Heard, Admin!Fails
  <2> QED
    BY <1>2, <2>1, <2>2 DEF Admin!EnvironmentCreated
<1>3. CASE Admin!ControllerCreated
  BY <1>3 DEF Admin!ControllerCreated, Admin!Heard, Admin!Fails
<1>4. CASE Admin!LateCallback
  BY <1>4 DEF Admin!LateCallback
<1>5. CASE Admin!BrowserExits
  BY <1>5 DEF Admin!BrowserExits
<1>6. CASE Admin!BeginStop
  BY <1>6 DEF Admin!BeginStop
<1>7. CASE Admin!TearDown
  BY <1>7 DEF Admin!TearDown
<1>8. CASE Admin!ThreadEnds
  BY <1>8 DEF Admin!ThreadEnds, Admin!ProfileReleased
<1> QED
  BY <1>1, <1>2, <1>3, <1>4, <1>5, <1>6, <1>7, <1>8 DEF Admin!Next

\* However often the window is shown and whenever the host stops: no page comes to life
\* after the stop, the profile is removed only when no browser uses it, and a failure
\* before the stop leaves Reload possible (uiMain, createWebView).
THEOREM AdminAlwaysEndsCleanly == DesktopSpec => AdminEndsCleanly
<1>1. DesktopInit => AdminInv
  BY AdminInit DEF DesktopInit
<1>2. ASSUME AdminInv, [DesktopNext]_desktopVars
      PROVE  /\ AdminInv'
             /\ [admin.stopping => (admin'.view => admin.view) /\ (browser' => browser)]_(Admin!vars)
  <2>1. CASE UNCHANGED adminVars
    BY <1>2, <2>1 DEF adminVars, Admin!vars, AdminInv, AdminType, Admin!ProfileIsUnused, Admin!ReloadIsPossible
  <2>2. CASE Admin!Next
    BY <1>2, <2>2, AdminNext
  <2> QED
    BY <1>2, <2>1, <2>2 DEF DesktopNext, desktopVars, adminVars
<1>3. AdminInv => Admin!ProfileIsUnused /\ Admin!ReloadIsPossible
  BY DEF AdminInv
<1> QED
  BY <1>1, <1>2, <1>3, PTL DEF DesktopSpec, AdminEndsCleanly, Admin!NothingStartsLate

-----------------------------------------------------------------------------
(* The pictures of the stage. *)

Pool(role) == IF role = "foreground" THEN SceneWindows ELSE BackgroundWindows

StageType ==
  [scene : Pictures!SceneOf, enabled : BOOLEAN, players : [Pictures!Slots -> Pictures!Player],
   request : [Pictures!Roles -> Pictures!Request], failed : [Pictures!Roles -> BOOLEAN],
   visual : Pictures!Transition, late : BOOLEAN, lost : BOOLEAN, scenes : 0..MaxScenes]

\* A player is of the role of its slot, and what draws does so in a window for its role.
Placed(p, slot) ==
  /\ p.present /\ slot \in Pictures!Roles => p.role = slot
  /\ p.present /\ slot = "incoming" => p.role = "foreground"
  /\ p.window \in {NoWindow} \cup Pool(p.role)
  /\ p.video => p.present /\ p.role # "image" /\ p.window \in Pool(p.role)

\* No two draw into one window, and what is promised nobody draws into.
PicturesOK(s) ==
  /\ s \in StageType
  /\ \A slot \in Pictures!Slots : Placed(s.players[slot], slot)
  /\ \A one, two \in Pictures!Slots :
       s.players[one].video /\ s.players[two].video /\ s.players[one].window = s.players[two].window
         => one = two
  /\ \A role \in Pictures!Roles :
       /\ s.request[role].window \in {NoWindow} \cup Pool(role)
       /\ s.request[role].due /\ s.request[role].video =>
            /\ role # "image" /\ s.request[role].window \in Pool(role)
            /\ ~Pictures!Owned(s, s.request[role].window)

BackgroundGone(s) == ~s.request["background"].due /\ ~s.players["background"].present

\* What a handler may make of the players without asking for a window.
Fewer(s, t) ==
  /\ t.scene = s.scene /\ t.enabled = s.enabled
  /\ \A window : Pictures!Owned(t, window) => Pictures!Owned(s, window)
  /\ \A role \in Pictures!Roles : t.request[role] \in {s.request[role], Pictures!NoRequest}
  /\ BackgroundGone(s) => BackgroundGone(t)

Tidy(s, t) == PicturesOK(t) /\ Fewer(s, t)

Alike(p, q) == q.present = p.present /\ q.role = p.role /\ q.window = p.window /\ q.video = p.video

\* The two pools share no window.
LEMMA WindowsApart ==
  /\ SceneWindows \cap BackgroundWindows = {} /\ NoWindow \notin SceneWindows \cup BackgroundWindows
  /\ MaxScenes \in Nat
  BY DesktopAssumption DEF Pictures!PicturesAssumption

\* An empty slot is of its type, and draws nowhere.
LEMMA NoPlayerIsPlayer ==
  /\ Pictures!NoPlayer \in Pictures!Player /\ ~Pictures!NoPlayer.video /\ ~Pictures!NoPlayer.present
  /\ \A slot : Placed(Pictures!NoPlayer, slot)
  BY DEF Pictures!NoPlayer, Pictures!Player, Pictures!Roles, Pictures!Windows, Placed

\* So is a request that is not due.
LEMMA NoRequestIsRequest ==
  /\ Pictures!NoRequest \in Pictures!Request /\ ~Pictures!NoRequest.due
  /\ Pictures!NoRequest.window = NoWindow
  BY DEF Pictures!NoRequest, Pictures!Request, Pictures!Windows

\* One part of a handler after another.
LEMMA TidyTrans == ASSUME NEW s, NEW t, NEW u, Tidy(s, t), Tidy(t, u) PROVE Tidy(s, u)
  BY DEF Tidy, Fewer

\* Players keep their places or leave, requests stay or are dropped.
LEMMA Kept ==
  ASSUME NEW s, PicturesOK(s), NEW t \in StageType, t.scene = s.scene, t.enabled = s.enabled,
         \A slot \in Pictures!Slots : t.players[slot] = Pictures!NoPlayer \/ Alike(s.players[slot], t.players[slot]),
         \A role \in Pictures!Roles : t.request[role] \in {s.request[role], Pictures!NoRequest}
  PROVE  Tidy(s, t)
<1>1. \A slot \in Pictures!Slots : t.players[slot].video =>
        s.players[slot].video /\ t.players[slot].window = s.players[slot].window
  BY NoPlayerIsPlayer DEF Alike
<1>2. \A window : Pictures!Owned(t, window) => Pictures!Owned(s, window)
  BY <1>1 DEF Pictures!Owned
<1>3. \A slot \in Pictures!Slots : Placed(t.players[slot], slot)
  BY NoPlayerIsPlayer DEF Alike, Placed, PicturesOK
<1>4. \A one, two \in Pictures!Slots :
       t.players[one].video /\ t.players[two].video /\ t.players[one].window = t.players[two].window
         => one = two
  BY <1>1 DEF PicturesOK
<1>5. \A role \in Pictures!Roles :
       /\ t.request[role].window \in {NoWindow} \cup Pool(role)
       /\ t.request[role].due /\ t.request[role].video =>
            /\ role # "image" /\ t.request[role].window \in Pool(role)
            /\ ~Pictures!Owned(t, t.request[role].window)
  BY <1>2, NoRequestIsRequest DEF PicturesOK
<1>6. BackgroundGone(s) => BackgroundGone(t)
  BY NoPlayerIsPlayer, NoRequestIsRequest DEF BackgroundGone, Alike, Pictures!Slots, Pictures!Roles
<1>7. PicturesOK(t)
  BY <1>3, <1>4, <1>5 DEF PicturesOK
<1> QED
  BY <1>2, <1>6, <1>7 DEF Tidy, Fewer

\* A player moves to a slot where tails are kept, or where what comes in plays.
LEMMA Moved ==
  ASSUME NEW s, PicturesOK(s), NEW t \in StageType, t.scene = s.scene, t.enabled = s.enabled,
         NEW a \in Pictures!Slots, NEW b \in Pictures!Slots, a # b,
         a \in {"retiring", "visualRetiring"} \/ (a = "foreground" /\ b = "incoming"),
         t.players[b] = Pictures!NoPlayer, Alike(s.players[b], t.players[a]),
         \A slot \in Pictures!Slots \ {a, b} : t.players[slot] = Pictures!NoPlayer \/ Alike(s.players[slot], t.players[slot]),
         t.request = s.request
  PROVE  Tidy(s, t)
<1> DEFINE f(slot) == IF slot = a THEN b ELSE slot
<1>1. \A slot \in Pictures!Slots : t.players[slot].video =>
        /\ slot # b /\ f(slot) \in Pictures!Slots /\ s.players[f(slot)].video
        /\ t.players[slot].window = s.players[f(slot)].window
  BY NoPlayerIsPlayer DEF Alike
<1>2. \A window : Pictures!Owned(t, window) => Pictures!Owned(s, window)
  <2> SUFFICES ASSUME NEW window, NEW slot \in Pictures!Slots \ {"image"}, t.players[slot].video,
                      t.players[slot].window = window
               PROVE  Pictures!Owned(s, window)
    BY DEF Pictures!Owned
  <2>1. f(slot) \in Pictures!Slots /\ s.players[f(slot)].video /\ s.players[f(slot)].window = window
    BY <1>1
  <2> HIDE DEF f
  <2>2. f(slot) # "image"
    BY <2>1 DEF PicturesOK, Placed, Pictures!Roles
  <2> QED
    BY <2>1, <2>2 DEF Pictures!Owned
<1>3. \A slot \in Pictures!Slots : Placed(t.players[slot], slot)
  BY NoPlayerIsPlayer DEF Alike, Placed, PicturesOK, Pictures!Roles
<1>4. \A one, two \in Pictures!Slots :
       t.players[one].video /\ t.players[two].video /\ t.players[one].window = t.players[two].window
         => one = two
  BY <1>1 DEF PicturesOK
<1>5. \A role \in Pictures!Roles :
       /\ t.request[role].window \in {NoWindow} \cup Pool(role)
       /\ t.request[role].due /\ t.request[role].video =>
            /\ role # "image" /\ t.request[role].window \in Pool(role)
            /\ ~Pictures!Owned(t, t.request[role].window)
  BY <1>2 DEF PicturesOK
<1>6. BackgroundGone(s) => BackgroundGone(t)
  BY NoPlayerIsPlayer DEF BackgroundGone, Alike, Pictures!Slots
<1>7. PicturesOK(t)
  BY <1>3, <1>4, <1>5 DEF PicturesOK
<1> QED
  BY <1>2, <1>6, <1>7 DEF Tidy, Fewer

(* The operators of a handler, one by one. *)

\* Flags of a player that say nothing of its window.
LEMMA Flags ==
  ASSUME NEW p \in Pictures!Player, NEW b \in BOOLEAN
  PROVE  /\ [p EXCEPT !.own = b] \in Pictures!Player /\ Alike(p, [p EXCEPT !.own = b])
         /\ [p EXCEPT !.from = b] \in Pictures!Player /\ Alike(p, [p EXCEPT !.from = b])
         /\ [p EXCEPT !.shown = b] \in Pictures!Player /\ Alike(p, [p EXCEPT !.shown = b])
         /\ [p EXCEPT !.sounds = b] \in Pictures!Player /\ Alike(p, [p EXCEPT !.sounds = b])
         /\ [p EXCEPT !.playing = b] \in Pictures!Player /\ Alike(p, [p EXCEPT !.playing = b])
  BY DEF Pictures!Player, Alike

\* A player is like itself.
LEMMA AlikeSelf == \A p : Alike(p, p)
  BY DEF Alike

\* The types of the parts of a stage.
LEMMA StageParts ==
  ASSUME NEW s, PicturesOK(s)
  PROVE  /\ s \in StageType /\ s.players \in [Pictures!Slots -> Pictures!Player] /\ s.visual \in Pictures!Transition
         /\ s.request \in [Pictures!Roles -> Pictures!Request] /\ s.failed \in [Pictures!Roles -> BOOLEAN]
         /\ s.scene \in Pictures!SceneOf
         /\ s.visual.shown \in BOOLEAN /\ s.visual.from \in BOOLEAN /\ s.visual.active \in BOOLEAN
         /\ s.visual.frozen \in BOOLEAN /\ s.visual.source \in BOOLEAN /\ s.visual.mixed \in BOOLEAN
<1>1. s \in StageType
  BY DEF PicturesOK
<1>2. s.visual \in Pictures!Transition
  BY <1>1 DEF StageType
<1> QED
  BY <1>1, <1>2 DEF StageType, Pictures!Transition

\* A player leaves its slot.
LEMMA HaltTidy ==
  ASSUME NEW s, PicturesOK(s), NEW slot \in Pictures!Slots
  PROVE  /\ Tidy(s, Pictures!Halt(s, slot)) /\ Pictures!Halt(s, slot).request = s.request
         /\ Pictures!Halt(s, slot).players = [s.players EXCEPT ![slot] = Pictures!NoPlayer]
<1> DEFINE players == [s.players EXCEPT ![slot] = Pictures!NoPlayer]
           t == [s EXCEPT !.players = players, !.visual = s.visual]
<1>1. s \in StageType /\ s.visual \in Pictures!Transition /\ s.players \in [Pictures!Slots -> Pictures!Player]
  BY StageParts
<1>2. /\ players \in [Pictures!Slots -> Pictures!Player]
      /\ \A x \in Pictures!Slots : players[x] = Pictures!NoPlayer \/ Alike(s.players[x], players[x])
  BY <1>1, NoPlayerIsPlayer, AlikeSelf
<1>3. Pictures!Halt(s, slot) = t
  BY <1>1 DEF Pictures!Halt, StageType
<1> HIDE DEF players
<1>5. t \in StageType /\ t.scene = s.scene /\ t.enabled = s.enabled /\ t.players = players /\ t.request = s.request
  BY <1>1, <1>2 DEF StageType
<1> HIDE DEF t
<1>4. Tidy(s, t) /\ t.request = s.request /\ t.players = players
  BY <1>2, <1>5, Kept
<1> QED
  BY <1>3, <1>4 DEF players

\* What a transition comes from is marked.
LEMMA ComesFromTidy ==
  ASSUME NEW s, PicturesOK(s), NEW slots
  PROVE  LET t == Pictures!ComesFrom(s, slots) IN
         /\ Tidy(s, t) /\ t.request = s.request /\ t.visual.active = s.visual.active
         /\ \A x \in Pictures!Slots : Alike(s.players[x], t.players[x])
<1> DEFINE players == [x \in Pictures!Slots |-> [s.players[x] EXCEPT !.from = x \in slots]]
           visual == [s.visual EXCEPT !.from = slots # {}]
           t == [s EXCEPT !.players = players, !.visual = visual]
<1>1. s \in StageType /\ s.visual \in Pictures!Transition /\ s.players \in [Pictures!Slots -> Pictures!Player]
  BY StageParts
<1>2. (slots # {}) \in BOOLEAN /\ \A x : (x \in slots) \in BOOLEAN
  OBVIOUS
<1>3. visual \in Pictures!Transition /\ visual.active = s.visual.active
  BY <1>1, <1>2 DEF Pictures!Transition
<1>4. /\ players \in [Pictures!Slots -> Pictures!Player]
      /\ \A x \in Pictures!Slots : Alike(s.players[x], players[x])
  BY <1>1, <1>2, Flags
<1>5. Pictures!ComesFrom(s, slots) = t
  BY <1>1 DEF Pictures!ComesFrom, StageType
<1> HIDE DEF players, visual
<1>7. /\ t \in StageType /\ t.scene = s.scene /\ t.enabled = s.enabled /\ t.players = players /\ t.request = s.request
      /\ t.visual = visual
  BY <1>1, <1>3, <1>4 DEF StageType
<1> HIDE DEF t
<1>6. Tidy(s, t) /\ t.request = s.request /\ t.players = players /\ t.visual = visual
  BY <1>4, <1>7, Kept
<1> QED
  BY <1>3, <1>4, <1>5, <1>6

\* Other slots are shown.
LEMMA ShowsOnlyTidy ==
  ASSUME NEW s, PicturesOK(s), NEW slots
  PROVE  LET t == Pictures!ShowsOnly(s, slots) IN
         /\ Tidy(s, t) /\ t.request = s.request /\ t.visual.active = s.visual.active
         /\ \A x \in Pictures!Slots : Alike(s.players[x], t.players[x])
<1> DEFINE players == [x \in Pictures!Slots |-> [s.players[x] EXCEPT !.shown = x \in slots]]
           visual == [s.visual EXCEPT !.shown = slots # {}]
           t == [s EXCEPT !.players = players, !.visual = visual]
<1>1. s \in StageType /\ s.visual \in Pictures!Transition /\ s.players \in [Pictures!Slots -> Pictures!Player]
  BY StageParts
<1>2. (slots # {}) \in BOOLEAN /\ \A x : (x \in slots) \in BOOLEAN
  OBVIOUS
<1>3. visual \in Pictures!Transition /\ visual.active = s.visual.active
  BY <1>1, <1>2 DEF Pictures!Transition
<1>4. /\ players \in [Pictures!Slots -> Pictures!Player]
      /\ \A x \in Pictures!Slots : Alike(s.players[x], players[x])
  BY <1>1, <1>2, Flags
<1>5. Pictures!ShowsOnly(s, slots) = t
  BY <1>1 DEF Pictures!ShowsOnly, StageType
<1> HIDE DEF players, visual
<1>7. /\ t \in StageType /\ t.scene = s.scene /\ t.enabled = s.enabled /\ t.players = players /\ t.request = s.request
      /\ t.visual = visual
  BY <1>1, <1>3, <1>4 DEF StageType
<1> HIDE DEF t
<1>6. Tidy(s, t) /\ t.request = s.request /\ t.players = players /\ t.visual = visual
  BY <1>4, <1>7, Kept
<1> QED
  BY <1>3, <1>4, <1>5, <1>6

\* Another transition.
LEMMA VisualTidy ==
  ASSUME NEW s, PicturesOK(s), NEW visual \in Pictures!Transition
  PROVE  LET t == [s EXCEPT !.visual = visual] IN
         Tidy(s, t) /\ t.request = s.request /\ t.players = s.players /\ t.visual = visual
<1> DEFINE t == [s EXCEPT !.visual = visual]
<1>1. s \in StageType
  BY StageParts
<1>2. /\ t \in StageType /\ t.scene = s.scene /\ t.enabled = s.enabled /\ t.players = s.players
      /\ t.request = s.request /\ t.visual = visual
  BY <1>1 DEF StageType
<1> HIDE DEF t
<1>3. Tidy(s, t)
  BY <1>2, Kept, AlikeSelf
<1> QED
  BY <1>2, <1>3 DEF t

\* Requests are as they were, and players in other slots are the same ones.
Stays(s, t, slots) ==
  t.request = s.request /\ \A x \in Pictures!Slots \ slots : Alike(s.players[x], t.players[x])

\* The slots two parts may touch are those either may.
LEMMA StaysTrans ==
  ASSUME NEW s, NEW t, NEW u, NEW A, NEW B, Stays(s, t, A), Stays(t, u, B)
  PROVE  Stays(s, u, A \cup B)
  BY DEF Stays, Alike

\* Rest is a transition, shown or not.
LEMMA NoTransitionIsTransition ==
  /\ Pictures!NoTransition \in Pictures!Transition
  /\ \A b \in BOOLEAN : [Pictures!NoTransition EXCEPT !.shown = b] \in Pictures!Transition
  BY DEF Pictures!NoTransition, Pictures!Transition

\* A transition is cancelled.
LEMMA CancelTidy ==
  ASSUME NEW s, PicturesOK(s)
  PROVE  Tidy(s, Pictures!Cancel(s))
<1> DEFINE a == Pictures!ComesFrom(s, {})  b == Pictures!ShowsOnly(a, {})
           c == [b EXCEPT !.visual = Pictures!NoTransition]
<1>1. Tidy(s, a)
  BY ComesFromTidy
<1>2. Tidy(a, b)
  BY <1>1, ShowsOnlyTidy DEF Tidy
<1>3. Pictures!Cancel(s) = c
  BY DEF Pictures!Cancel
<1> HIDE DEF a, b
<1>4. Tidy(b, c)
  BY <1>2, VisualTidy, NoTransitionIsTransition DEF Tidy
<1> HIDE DEF c
<1> QED
  BY <1>1, <1>2, <1>3, <1>4, TidyTrans

\* A transition comes to its end.
LEMMA FinishTidy ==
  ASSUME NEW s, PicturesOK(s)
  PROVE  Tidy(s, Pictures!Finish(s))
<1> DEFINE a == Pictures!ComesFrom(s, {})
           visual == [Pictures!NoTransition EXCEPT !.shown = s.visual.shown]
           c == [a EXCEPT !.visual = visual]
<1>1. Tidy(s, a)
  BY ComesFromTidy
<1>2. visual \in Pictures!Transition
  BY StageParts, NoTransitionIsTransition
<1>3. Pictures!Finish(s) = c
  BY DEF Pictures!Finish
<1> HIDE DEF a, visual
<1>4. Tidy(a, c)
  BY <1>1, <1>2, VisualTidy DEF Tidy
<1> HIDE DEF c
<1> QED
  BY <1>1, <1>3, <1>4, TidyTrans

\* What was asked for a role is void.
LEMMA NewTokenTidy ==
  ASSUME NEW s, PicturesOK(s), NEW role \in Pictures!Roles
  PROVE  LET t == Pictures!NewToken(s, role) IN
         /\ Tidy(s, t) /\ t.request = [s.request EXCEPT ![role] = Pictures!NoRequest]
         /\ \A x \in Pictures!Slots : Alike(s.players[x], t.players[x])
<1> DEFINE players == [x \in Pictures!Slots |->
               IF s.players[x].role = role THEN [s.players[x] EXCEPT !.own = FALSE] ELSE s.players[x]]
           request == [s.request EXCEPT ![role] = Pictures!NoRequest]
           failed == [s.failed EXCEPT ![role] = FALSE]
           t == [s EXCEPT !.request = request, !.failed = failed, !.players = players]
<1>1. /\ s \in StageType /\ s.players \in [Pictures!Slots -> Pictures!Player]
      /\ s.request \in [Pictures!Roles -> Pictures!Request] /\ s.failed \in [Pictures!Roles -> BOOLEAN]
  BY StageParts
<1>2. /\ players \in [Pictures!Slots -> Pictures!Player]
      /\ \A x \in Pictures!Slots : Alike(s.players[x], players[x])
  BY <1>1, Flags, AlikeSelf
<1>3. /\ request \in [Pictures!Roles -> Pictures!Request] /\ failed \in [Pictures!Roles -> BOOLEAN]
      /\ \A r \in Pictures!Roles : request[r] \in {s.request[r], Pictures!NoRequest}
  BY <1>1, NoRequestIsRequest
<1>4. Pictures!NewToken(s, role) = t
  BY <1>1 DEF Pictures!NewToken, StageType
<1> HIDE DEF players, request, failed
<1>5. /\ t \in StageType /\ t.scene = s.scene /\ t.enabled = s.enabled /\ t.players = players /\ t.request = request
  BY <1>1, <1>2, <1>3 DEF StageType
<1> HIDE DEF t
<1>6. Tidy(s, t)
  BY <1>2, <1>3, <1>5, Kept
<1> QED
  BY <1>2, <1>4, <1>5, <1>6 DEF request

\* The last frame is kept.
LEMMA FreezeTidy ==
  ASSUME NEW s, PicturesOK(s), NEW readable \in BOOLEAN
  PROVE  Tidy(s, Pictures!Freeze(s, readable)) /\ Stays(s, Pictures!Freeze(s, readable), {})
<1>1. s \in StageType /\ s.visual \in Pictures!Transition /\ s.visual.frozen \in BOOLEAN
  BY StageParts
<1>2. CASE s.visual.active /\ s.visual.mixed
  <2> DEFINE a == Pictures!ComesFrom(s, {})
             visual == [a.visual EXCEPT !.source = TRUE, !.frozen = TRUE]
             c == [a EXCEPT !.visual = visual]
  <2>1. Tidy(s, a) /\ Stays(s, a, {})
    BY ComesFromTidy DEF Stays
  <2> HIDE DEF a
  <2>2. visual \in Pictures!Transition
    BY <2>1, StageParts DEF Pictures!Transition, Tidy
  <2>3. a \in StageType
    BY <2>1, StageParts DEF Tidy
  <2>4. Pictures!Freeze(s, readable) = c
    BY <1>2, <2>3 DEF Pictures!Freeze, a, StageType
  <2> HIDE DEF visual
  <2>5. Tidy(a, c) /\ Stays(a, c, {})
    BY <2>1, <2>2, VisualTidy, AlikeSelf DEF Tidy, Stays
  <2> HIDE DEF c
  <2>6. Stays(s, c, {} \cup {})
    BY <2>1, <2>5, StaysTrans
  <2> QED
    BY <2>1, <2>4, <2>5, <2>6, TidyTrans DEF Stays
<1>3. CASE ~(s.visual.active /\ s.visual.mixed) /\ Pictures!Shown(s) # {}
  <2> DEFINE b == s.visual.frozen \/ Pictures!Captures(s, Pictures!Shown(s), readable)
             visual == [s.visual EXCEPT !.source = TRUE, !.frozen = b]
             c == [s EXCEPT !.visual = visual]
  <2>1. b \in BOOLEAN
    BY <1>1
  <2>2. Pictures!Freeze(s, readable) = c
    BY <1>1, <1>3 DEF Pictures!Freeze, StageType
  <2> HIDE DEF b
  <2>3. visual \in Pictures!Transition
    BY <1>1, <2>1 DEF Pictures!Transition
  <2> HIDE DEF visual
  <2>4. Tidy(s, c) /\ Stays(s, c, {})
    BY <2>3, VisualTidy, AlikeSelf DEF Stays
  <2> QED
    BY <2>2, <2>4
<1>4. Tidy(s, s) /\ Stays(s, s, {})
  BY AlikeSelf DEF Stays, Tidy, Fewer
<1> QED
  BY <1>2, <1>3, <1>4 DEF Pictures!Freeze

\* All slots and roles by name.
LEMMA SlotNames ==
  /\ Pictures!Slots = {"foreground", "incoming", "background", "image", "retiring", "visualRetiring"}
  /\ Pictures!Roles = {"foreground", "background", "image"}
  BY DEF Pictures!Slots, Pictures!Roles

\* The picture that fades moves to the hidden slot, or goes.
LEMMA ReleaseTidy ==
  ASSUME NEW s, PicturesOK(s), NEW replace \in BOOLEAN
  PROVE  /\ Tidy(s, Pictures!Release(s, replace))
         /\ Stays(s, Pictures!Release(s, replace), {"retiring", "visualRetiring"})
<1>1. s \in StageType /\ s.players \in [Pictures!Slots -> Pictures!Player]
  BY StageParts
<1>2. Tidy(s, s) /\ Stays(s, s, {"retiring", "visualRetiring"})
  BY AlikeSelf DEF Stays, Tidy, Fewer
<1>3. /\ Tidy(s, Pictures!Halt(s, "visualRetiring"))
      /\ Stays(s, Pictures!Halt(s, "visualRetiring"), {"retiring", "visualRetiring"})
  BY <1>1, HaltTidy, SlotNames, AlikeSelf DEF Stays
<1> DEFINE players == [s.players EXCEPT !["retiring"] = s.players["visualRetiring"], !["visualRetiring"] = Pictures!NoPlayer]
           t == [s EXCEPT !.players = players]
<1>4. /\ players \in [Pictures!Slots -> Pictures!Player]
      /\ players["retiring"] = s.players["visualRetiring"] /\ players["visualRetiring"] = Pictures!NoPlayer
      /\ \A x \in Pictures!Slots \ {"retiring", "visualRetiring"} : players[x] = s.players[x]
  BY <1>1, SlotNames, NoPlayerIsPlayer
<1>5. [s EXCEPT !.players["retiring"] = s.players["visualRetiring"], !.players["visualRetiring"] = Pictures!NoPlayer] = t
  BY <1>1 DEF StageType
<1> HIDE DEF players
<1>6. t \in StageType /\ t.scene = s.scene /\ t.enabled = s.enabled /\ t.players = players /\ t.request = s.request
  BY <1>1, <1>4 DEF StageType
<1> HIDE DEF t
<1>7. Tidy(s, t)
  BY <1>4, <1>6, Moved, AlikeSelf, SlotNames
<1>8. Stays(s, t, {"retiring", "visualRetiring"})
  BY <1>4, <1>6, AlikeSelf DEF Stays
<1> QED
  BY <1>2, <1>3, <1>5, <1>7, <1>8 DEF Pictures!Release

\* There is room for the next picture that fades.
LEMMA MakeRoomTidy ==
  ASSUME NEW s, PicturesOK(s), NEW readable \in BOOLEAN
  PROVE  /\ Tidy(s, Pictures!MakeRoom(s, readable))
         /\ Stays(s, Pictures!MakeRoom(s, readable), {"retiring", "visualRetiring"})
<1> DEFINE f == Pictures!Freeze(s, readable)  r == Pictures!Release(f, TRUE)
<1>1. Tidy(s, s) /\ Stays(s, s, {"retiring", "visualRetiring"})
  BY AlikeSelf DEF Stays, Tidy, Fewer
<1>2. Tidy(s, f) /\ Stays(s, f, {})
  BY FreezeTidy
<1>3. PicturesOK(f)
  BY <1>2 DEF Tidy
<1> HIDE DEF f
<1>4. Tidy(f, r) /\ Stays(f, r, {"retiring", "visualRetiring"})
  BY <1>3, ReleaseTidy
<1> HIDE DEF r
<1>5. Stays(s, r, {} \cup {"retiring", "visualRetiring"})
  BY <1>2, <1>4, StaysTrans
<1>6. Tidy(s, r) /\ Stays(s, r, {"retiring", "visualRetiring"})
  BY <1>2, <1>4, <1>5, TidyTrans DEF Stays
<1> QED
  BY <1>1, <1>6 DEF Pictures!MakeRoom, f, r

\* A player becomes a tail, or goes.
LEMMA RetireTidy ==
  ASSUME NEW s, PicturesOK(s), NEW slot \in Pictures!Roles, NEW audible \in BOOLEAN, NEW readable \in BOOLEAN
  PROVE  LET t == Pictures!Retire(s, slot, audible, readable) IN
         /\ Tidy(s, t) /\ Stays(s, t, {slot, "retiring", "visualRetiring"})
         /\ t.players[slot] = Pictures!NoPlayer
<1> DEFINE p == s.players[slot]
           tail == [p EXCEPT !.sounds = audible /\ p.playing /\ s.scene.audioFade]
           t == Pictures!Retire(s, slot, audible, readable)
           m == Pictures!MakeRoom(s, readable)
           Moves(u, a) == [Pictures!Halt(u, slot) EXCEPT !.players[a] = tail]
<1>1. s \in StageType /\ s.players \in [Pictures!Slots -> Pictures!Player] /\ slot \in Pictures!Slots
  BY StageParts, SlotNames
<1>2. tail \in Pictures!Player /\ Alike(p, tail)
  <2>1. p \in Pictures!Player
    BY <1>1
  <2>2. (audible /\ p.playing /\ s.scene.audioFade) \in BOOLEAN
    OBVIOUS
  <2> QED
    BY <2>1, <2>2, Flags
<1>3. Tidy(s, m) /\ Stays(s, m, {"retiring", "visualRetiring"})
  BY MakeRoomTidy
<1>4. Tidy(s, s) /\ Stays(s, s, {"retiring", "visualRetiring"})
  BY AlikeSelf DEF Stays, Tidy, Fewer
<1>5. t = IF Pictures!Retained(s, p) THEN Moves(m, "visualRetiring")
          ELSE IF tail.sounds THEN Moves(s, "retiring")
          ELSE Pictures!Halt(s, slot)
  BY DEF Pictures!Retire
<1> HIDE DEF m, tail
<1>6. ASSUME NEW u, Tidy(s, u), Stays(s, u, {"retiring", "visualRetiring"}), NEW a \in {"retiring", "visualRetiring"}
      PROVE  /\ Tidy(s, Moves(u, a)) /\ Stays(s, Moves(u, a), {slot, "retiring", "visualRetiring"})
             /\ Moves(u, a).players[slot] = Pictures!NoPlayer
  <2> DEFINE h == Pictures!Halt(u, slot)
             players == [h.players EXCEPT ![a] = tail]
             v == [h EXCEPT !.players = players]
  <2>1. PicturesOK(u)
    BY <1>6 DEF Tidy
  <2>2. /\ Tidy(u, h) /\ h.request = u.request
        /\ h.players = [u.players EXCEPT ![slot] = Pictures!NoPlayer]
    BY <1>1, <2>1, HaltTidy
  <2> HIDE DEF h
  <2>3. h \in StageType /\ u.players \in [Pictures!Slots -> Pictures!Player] /\ h.players \in [Pictures!Slots -> Pictures!Player]
        /\ h.scene = u.scene /\ h.enabled = u.enabled
    BY <2>1, <2>2, StageParts DEF Tidy, Fewer
  <2>4. slot \notin {"retiring", "visualRetiring"} /\ a \in Pictures!Slots /\ slot # a
    BY SlotNames
  <2>5. /\ players \in [Pictures!Slots -> Pictures!Player] /\ players[a] = tail /\ players[slot] = Pictures!NoPlayer
        /\ \A x \in Pictures!Slots \ {a, slot} : players[x] = u.players[x]
    BY <1>1, <1>2, <2>2, <2>3, <2>4
  <2>6. Moves(u, a) = v
    BY <2>3 DEF StageType, h
  <2> HIDE DEF players
  <2>7. v \in StageType /\ v.scene = u.scene /\ v.enabled = u.enabled /\ v.players = players /\ v.request = u.request
    BY <2>2, <2>3, <2>5 DEF StageType
  <2> HIDE DEF v
  <2>8. Alike(u.players[slot], tail)
    BY <1>1, <1>2, <1>6, <2>4 DEF Stays, Alike
  <2>9. Tidy(u, v)
    BY <1>1, <2>1, <2>4, <2>5, <2>7, <2>8, Moved, AlikeSelf
  <2>10. Tidy(s, v)
    BY <1>6, <2>9, TidyTrans
  <2>11. Stays(s, v, {slot, "retiring", "visualRetiring"})
    BY <1>6, <2>5, <2>7 DEF Stays
  <2> QED
    BY <2>5, <2>6, <2>7, <2>10, <2>11
<1>7. /\ Tidy(s, Pictures!Halt(s, slot)) /\ Stays(s, Pictures!Halt(s, slot), {slot, "retiring", "visualRetiring"})
      /\ Pictures!Halt(s, slot).players[slot] = Pictures!NoPlayer
  <2>1. /\ Tidy(s, Pictures!Halt(s, slot)) /\ Pictures!Halt(s, slot).request = s.request
        /\ Pictures!Halt(s, slot).players = [s.players EXCEPT ![slot] = Pictures!NoPlayer]
    BY <1>1, HaltTidy
  <2> QED
    BY <1>1, <2>1, AlikeSelf DEF Stays
<1>8. /\ Tidy(s, Moves(m, "visualRetiring")) /\ Stays(s, Moves(m, "visualRetiring"), {slot, "retiring", "visualRetiring"})
      /\ Moves(m, "visualRetiring").players[slot] = Pictures!NoPlayer
      /\ Tidy(s, Moves(s, "retiring")) /\ Stays(s, Moves(s, "retiring"), {slot, "retiring", "visualRetiring"})
      /\ Moves(s, "retiring").players[slot] = Pictures!NoPlayer
  BY <1>3, <1>4, <1>6
<1> HIDE DEF Moves, t
<1> QED
  BY <1>5, <1>7, <1>8 DEF t

(* What is shown. *)

\* To do nothing is tidy.
LEMMA TidySelf == ASSUME NEW s, PicturesOK(s) PROVE Tidy(s, s)
  BY DEF Tidy, Fewer

\* A frame of a transition.
LEMMA FrameTidy ==
  ASSUME NEW s, PicturesOK(s), NEW readable \in BOOLEAN, NEW t \in Pictures!Frame(s, readable)
  PROVE  Tidy(s, t)
<1> DEFINE from == s.visual.from => Pictures!From(s) # {}
           source == IF s.visual.frozen THEN s.visual.source
                     ELSE from /\ Pictures!Captures(s, Pictures!From(s), readable)
           one == s.visual.source \/ from
           two == s.visual.mixed \/ source
           visual == [s.visual EXCEPT !.source = one, !.mixed = two]
           c == [s EXCEPT !.visual = visual]
<1>1. s \in StageType /\ s.visual \in Pictures!Transition
  BY StageParts
<1>2. one \in BOOLEAN /\ two \in BOOLEAN
  OBVIOUS
<1>3. t \in {Pictures!Finish(s), c}
  BY <1>1 DEF Pictures!Frame, StageType
<1> HIDE DEF one, two
<1>4. visual \in Pictures!Transition
  BY <1>1, <1>2 DEF Pictures!Transition
<1> HIDE DEF visual
<1>5. Tidy(s, c) /\ Tidy(s, Pictures!Finish(s))
  BY <1>4, VisualTidy, FinishTidy
<1> QED
  BY <1>3, <1>5

\* A tick of it.
LEMMA TickedTidy ==
  ASSUME NEW s, PicturesOK(s), NEW readable \in BOOLEAN, NEW t \in Pictures!Ticked(s, readable)
  PROVE  Tidy(s, t)
  BY FrameTidy, TidySelf DEF Pictures!Ticked

\* What an interrupted fade goes on from.
LEMMA HeldTidy ==
  ASSUME NEW s, PicturesOK(s), NEW readable \in BOOLEAN, NEW paused \in BOOLEAN
  PROVE  Tidy(s, Pictures!Held(s, readable, paused))
<1> DEFINE b == paused /\ Pictures!Captures(s, Pictures!Shown(s), readable)
           visual == [s.visual EXCEPT !.source = paused, !.frozen = b]
           c == [s EXCEPT !.visual = visual]
<1>1. s \in StageType /\ s.visual \in Pictures!Transition
  BY StageParts
<1>2. b \in BOOLEAN
  OBVIOUS
<1>3. ~s.visual.active => Pictures!Held(s, readable, paused) = c
  BY <1>1 DEF Pictures!Held, StageType
<1> HIDE DEF b
<1>4. visual \in Pictures!Transition
  BY <1>1, <1>2 DEF Pictures!Transition
<1> HIDE DEF visual
<1>5. Tidy(s, c)
  BY <1>4, VisualTidy
<1>6. Tidy(s, Pictures!Freeze(s, readable))
  BY FreezeTidy
<1> HIDE DEF c
<1>7. CASE s.visual.active
  BY <1>6, <1>7 DEF Pictures!Held
<1>8. CASE ~s.visual.active
  BY <1>3, <1>5, <1>8
<1> QED
  BY <1>7, <1>8

\* A fade begins, or there is none.
LEMMA FadedTidy ==
  ASSUME NEW s, PicturesOK(s), NEW readable \in BOOLEAN, NEW paused \in BOOLEAN
  PROVE  Tidy(s, Pictures!Faded(s, readable, paused))
<1> DEFINE held == Pictures!Held(s, readable, paused)
           slots == IF held.visual.frozen THEN {} ELSE Pictures!Shown(held)
           a == Pictures!ComesFrom(held, slots)
           began == Pictures!ShowsOnly(a, Pictures!Requested(s))
           fromVisual == [began.visual EXCEPT !.from = held.visual.shown]
           c == [began EXCEPT !.visual = fromVisual]
           whole == IF held.visual.frozen THEN began ELSE c
           activeVisual == [whole.visual EXCEPT !.active = TRUE]
           d == [whole EXCEPT !.visual = activeVisual]
<1>1. Tidy(s, held)
  BY HeldTidy
<1> HIDE DEF held
<1>2. Tidy(held, a)
  BY <1>1, ComesFromTidy DEF Tidy
<1> HIDE DEF a
<1>3. Tidy(a, began)
  BY <1>2, ShowsOnlyTidy DEF Tidy
<1> HIDE DEF began
<1>4. held.visual.shown \in BOOLEAN /\ began.visual \in Pictures!Transition /\ began \in StageType
  BY <1>1, <1>3, StageParts DEF Tidy
<1>5. fromVisual \in Pictures!Transition
  BY <1>4 DEF Pictures!Transition
<1>6. [began EXCEPT !.visual.from = held.visual.shown] = c
  BY <1>4 DEF StageType
<1> HIDE DEF fromVisual
<1>7. Tidy(began, c)
  BY <1>3, <1>5, VisualTidy DEF Tidy
<1> HIDE DEF c
<1>8. Tidy(a, c)
  BY <1>3, <1>7, TidyTrans
<1>9. Tidy(a, whole)
  BY <1>3, <1>8
<1>10. whole = IF held.visual.frozen THEN began ELSE [began EXCEPT !.visual.from = held.visual.shown]
  BY <1>6
<1>16. Pictures!Faded(s, readable, paused) \in {[whole EXCEPT !.visual.active = TRUE], Pictures!Finish(whole)}
  BY <1>10 DEF Pictures!Faded, began, a, held
<1> HIDE DEF whole
<1>11. whole \in StageType /\ whole.visual \in Pictures!Transition
  BY <1>9, StageParts DEF Tidy
<1>12. activeVisual \in Pictures!Transition
  BY <1>11 DEF Pictures!Transition
<1>13. [whole EXCEPT !.visual.active = TRUE] = d
  BY <1>11 DEF StageType
<1> HIDE DEF activeVisual
<1>14. Tidy(whole, d) /\ Tidy(whole, Pictures!Finish(whole))
  BY <1>9, <1>12, VisualTidy, FinishTidy DEF Tidy
<1> HIDE DEF d
<1>15. Tidy(s, whole)
  BY <1>1, <1>2, <1>9, TidyTrans
<1>17. Tidy(s, d) /\ Tidy(s, Pictures!Finish(whole))
  BY <1>14, <1>15, TidyTrans
<1> QED
  BY <1>13, <1>16, <1>17

\* The visual part of a handler, any of these.
LEMMA VisualsTidy ==
  ASSUME NEW s, PicturesOK(s), NEW readable \in BOOLEAN, NEW paused \in BOOLEAN,
         NEW t \in Pictures!Visuals(s, readable, paused)
  PROVE  Tidy(s, t)
<1> DEFINE f == Pictures!Faded(s, readable, paused)
<1>1. Tidy(s, s) /\ Tidy(s, f) /\ Tidy(s, Pictures!Cancel(s))
  BY TidySelf, FadedTidy, CancelTidy
<1>2. t \in {Pictures!Cancel(s), s} \/ t \in Pictures!Ticked(s, readable) \/ t \in Pictures!Ticked(f, readable)
  BY DEF Pictures!Visuals
<1> HIDE DEF f
<1>3. t \in Pictures!Ticked(s, readable) => Tidy(s, t)
  BY TickedTidy
<1>4. t \in Pictures!Ticked(f, readable) => Tidy(f, t)
  BY <1>1, TickedTidy DEF Tidy
<1> QED
  BY <1>1, <1>2, <1>3, <1>4, TidyTrans

\* What a handler draws at its end.
LEMMA DrawsTidy ==
  ASSUME NEW s, PicturesOK(s), NEW readable \in BOOLEAN, Pictures!Draws(s, readable)
  PROVE  Tidy(s, stage')
<1> DEFINE l == [s EXCEPT !.late = TRUE]
<1>1. s \in StageType
  BY DEF PicturesOK
<1>2. l \in StageType /\ l.scene = s.scene /\ l.enabled = s.enabled /\ l.players = s.players /\ l.request = s.request
  BY <1>1 DEF StageType
<1>5. stage' = Pictures!Cancel(l) \/ \E paused \in BOOLEAN : stage' \in Pictures!Visuals(s, readable, paused)
  <2>1. ASSUME NEW paused \in {FALSE} \cup {s.players[slot].role = "foreground" : slot \in Pictures!Shown(s)}
        PROVE  paused \in BOOLEAN
    OBVIOUS
  <2> QED
    BY <2>1 DEF Pictures!Draws
<1> HIDE DEF l
<1>3. Tidy(s, l)
  BY <1>2, Kept, AlikeSelf
<1>4. Tidy(l, Pictures!Cancel(l))
  BY <1>3, CancelTidy DEF Tidy
<1>6. Tidy(s, Pictures!Cancel(l))
  BY <1>3, <1>4, TidyTrans
<1> QED
  BY <1>5, <1>6, VisualsTidy

\* What the environment decides is yes or no.
LEMMA ChoicesAreBoolean == Pictures!Audible \subseteq BOOLEAN /\ Pictures!Readable \subseteq BOOLEAN
  BY DEF Pictures!Audible, Pictures!Readable

(* Windows. *)

\* The instance counts as this module does.
LEMMA SameCount == \A S : Pictures!Cardinality(S) = Cardinality(S) /\ Pictures!IsFiniteSet(S) = IsFiniteSet(S)
  BY DEF Pictures!Cardinality, Cardinality, Pictures!IsFiniteSet, IsFiniteSet

\* Two players cannot own all windows of sources, and one not all of backgrounds.
LEMMA MoreWindows ==
  ASSUME NEW x, NEW y
  PROVE  ~(SceneWindows \subseteq {x, y}) /\ ~(BackgroundWindows \subseteq {x})
<1>1. /\ IsFiniteSet(SceneWindows) /\ Cardinality(SceneWindows) >= 3
      /\ IsFiniteSet(BackgroundWindows) /\ Cardinality(BackgroundWindows) >= 2
  BY DesktopAssumption, SameCount DEF Pictures!PicturesAssumption
<1>2. IsFiniteSet({x}) /\ Cardinality({x}) = 1
  BY FS_Singleton
<1>3. IsFiniteSet({x} \cup {y}) /\ Cardinality({x} \cup {y}) <= 2 /\ Cardinality({x} \cup {y}) \in Nat
  <2>1. Cardinality({x} \cup {y}) = IF y \in {x} THEN Cardinality({x}) ELSE Cardinality({x}) + 1
    BY <1>2, FS_AddElement
  <2>2. IsFiniteSet({x} \cup {y})
    BY <1>2, FS_AddElement
  <2> QED
    BY <1>2, <2>1, <2>2
<1>4. {x, y} = {x} \cup {y}
  OBVIOUS
<1>5. Cardinality(SceneWindows) \in Nat /\ Cardinality(BackgroundWindows) \in Nat
  BY <1>1, FS_CardinalityType
<1>6. ASSUME SceneWindows \subseteq {x, y} PROVE FALSE
  <2>1. Cardinality(SceneWindows) <= Cardinality({x} \cup {y})
    BY <1>3, <1>4, <1>6, FS_Subset
  <2> QED
    BY <1>1, <1>3, <1>5, <2>1
<1>7. ASSUME BackgroundWindows \subseteq {x} PROVE FALSE
  <2>1. Cardinality(BackgroundWindows) <= Cardinality({x})
    BY <1>2, <1>7, FS_Subset
  <2> QED
    BY <1>1, <1>2, <1>5, <2>1
<1> QED
  BY <1>6, <1>7

\* A window is free, or the hidden tail has one to give.
Spare(s, pool) ==
  \/ Pictures!Free(s, pool) # {}
  \/ s.players["retiring"].video /\ s.players["retiring"].window \in pool

\* With nothing coming in, sources are played, on the stage behind it or heard: two of
\* them leave one of three windows.
LEMMA SourcesHaveOne ==
  ASSUME NEW s, PicturesOK(s), ~s.players["incoming"].video
  PROVE  Spare(s, SceneWindows)
<1> SUFFICES ASSUME ~Spare(s, SceneWindows) PROVE FALSE
  OBVIOUS
<1>0. /\ Pictures!Free(s, SceneWindows) = {}
      /\ ~(s.players["retiring"].video /\ s.players["retiring"].window \in SceneWindows)
  BY DEF Spare
<1> DEFINE x == s.players["foreground"].window  y == s.players["visualRetiring"].window
<1>1. SceneWindows \subseteq {x, y}
  <2> SUFFICES ASSUME NEW w \in SceneWindows PROVE w \in {x, y}
    OBVIOUS
  <2>1. PICK slot \in Pictures!Slots \ {"image"} : s.players[slot].video /\ s.players[slot].window = w
    BY <1>0 DEF Pictures!Free, Pictures!Owned
  <2>2. slot \in {"foreground", "background", "visualRetiring"}
    BY <1>0, <2>1, SlotNames
  <2>3. slot # "background"
    <3>1. slot = "background" => s.players[slot].role = "background"
      BY <2>1, SlotNames DEF PicturesOK, Placed
    <3>2. slot = "background" => w \in BackgroundWindows
      BY <2>1, <3>1 DEF PicturesOK, Placed, Pool
    <3> QED
      BY <3>2, WindowsApart
  <2> QED
    BY <2>1, <2>2, <2>3
<1> QED
  BY <1>1, MoreWindows

\* With no background playing, one is on the stage behind it at most.
LEMMA BackgroundsHaveOne ==
  ASSUME NEW s, PicturesOK(s), ~s.players["background"].video
  PROVE  Spare(s, BackgroundWindows)
<1> SUFFICES ASSUME ~Spare(s, BackgroundWindows) PROVE FALSE
  OBVIOUS
<1>0. /\ Pictures!Free(s, BackgroundWindows) = {}
      /\ ~(s.players["retiring"].video /\ s.players["retiring"].window \in BackgroundWindows)
  BY DEF Spare
<1> DEFINE y == s.players["visualRetiring"].window
<1>1. BackgroundWindows \subseteq {y}
  <2> SUFFICES ASSUME NEW w \in BackgroundWindows PROVE w = y
    OBVIOUS
  <2>1. PICK slot \in Pictures!Slots \ {"image"} : s.players[slot].video /\ s.players[slot].window = w
    BY <1>0 DEF Pictures!Free, Pictures!Owned
  <2>2. slot \in {"foreground", "incoming", "visualRetiring"}
    BY <1>0, <2>1, SlotNames
  <2>3. slot = "visualRetiring"
    <3>1. slot \in {"foreground", "incoming"} => s.players[slot].role = "foreground"
      BY <2>1, SlotNames DEF PicturesOK, Placed
    <3>2. slot \in {"foreground", "incoming"} => w \in SceneWindows
      BY <2>1, <3>1 DEF PicturesOK, Placed, Pool
    <3> QED
      BY <2>2, <3>2, WindowsApart
  <2> QED
    BY <2>1, <2>3
<1> QED
  BY <1>1, MoreWindows

\* The hidden tail gives its window back.
LEMMA ReclaimedTidy ==
  ASSUME NEW s, PicturesOK(s), NEW pool
  PROVE  Tidy(s, Pictures!Reclaimed(s, pool)) /\ Pictures!Reclaimed(s, pool).request = s.request
  BY HaltTidy, TidySelf, SlotNames DEF Pictures!Reclaimed

\* What is got is a window of the pool, and nobody draws into it any more.
LEMMA AvailableIsFree ==
  ASSUME NEW s, PicturesOK(s), NEW pool, Spare(s, pool)
  PROVE  /\ Pictures!Available(s, pool) \in pool
         /\ ~Pictures!Owned(Pictures!Reclaimed(s, pool), Pictures!Available(s, pool))
<1>1. CASE Pictures!Free(s, pool) # {}
  <2>1. Pictures!Available(s, pool) \in Pictures!Free(s, pool)
    BY <1>1 DEF Pictures!Available
  <2>2. Pictures!Reclaimed(s, pool) = s
    BY <1>1 DEF Pictures!Reclaimed
  <2> QED
    BY <2>1, <2>2 DEF Pictures!Free
<1>2. CASE Pictures!Free(s, pool) = {}
  <2> DEFINE tail == s.players["retiring"]  t == Pictures!Halt(s, "retiring")
  <2>1. tail.video /\ tail.window \in pool
    BY <1>2 DEF Spare
  <2>2. Pictures!Available(s, pool) = tail.window /\ Pictures!Reclaimed(s, pool) = t
    BY <1>2, <2>1 DEF Pictures!Available, Pictures!Reclaimed
  <2>3. t.players = [s.players EXCEPT !["retiring"] = Pictures!NoPlayer] /\ s.players \in [Pictures!Slots -> Pictures!Player]
    BY HaltTidy, SlotNames, StageParts
  <2> HIDE DEF t
  <2>4. ~Pictures!Owned(t, tail.window)
    <3> SUFFICES ASSUME NEW slot \in Pictures!Slots \ {"image"}, t.players[slot].video,
                        t.players[slot].window = tail.window
                 PROVE  FALSE
      BY DEF Pictures!Owned
    <3>1. slot # "retiring"
      BY <2>3, NoPlayerIsPlayer
    <3>2. t.players[slot] = s.players[slot]
      BY <2>3, <3>1
    <3> QED
      BY <2>1, <3>1, <3>2, SlotNames DEF PicturesOK
  <2> QED
    BY <2>1, <2>2, <2>4
<1> QED
  BY <1>1, <1>2

\* Marking players as no longer their role's changes nothing of this.
LEMMA AlikeWindows ==
  ASSUME NEW s, NEW t, NEW pool, \A slot \in Pictures!Slots : Alike(s.players[slot], t.players[slot])
  PROVE  /\ Pictures!Free(t, pool) = Pictures!Free(s, pool)
         /\ Spare(s, pool) => Spare(t, pool)
         /\ Pictures!Available(t, pool) = Pictures!Available(s, pool)
<1>1. \A w : Pictures!Owned(t, w) <=> Pictures!Owned(s, w)
  BY DEF Pictures!Owned, Alike
<1>2. Pictures!Free(t, pool) = Pictures!Free(s, pool)
  BY <1>1 DEF Pictures!Free
<1>3. t.players["retiring"].video = s.players["retiring"].video /\ t.players["retiring"].window = s.players["retiring"].window
  BY SlotNames DEF Alike
<1> QED
  BY <1>2, <1>3 DEF Spare, Pictures!Available

\* A request is queued.
LEMMA QueuedOK ==
  ASSUME NEW s, PicturesOK(s), NEW role \in Pictures!Roles, NEW video \in BOOLEAN,
         NEW window \in {NoWindow} \cup Pool(role),
         video => role # "image" /\ window \in Pool(role) /\ ~Pictures!Owned(s, window)
  PROVE  LET t == Pictures!Queued(s, role, window, video) IN
         /\ PicturesOK(t) /\ t.scene = s.scene /\ t.enabled = s.enabled /\ t.players = s.players
         /\ \A r \in Pictures!Roles \ {role} : t.request[r] = s.request[r]
<1> DEFINE r == [due |-> TRUE, window |-> window, video |-> video]
           request == [s.request EXCEPT ![role] = r]
           t == [s EXCEPT !.request = request]
<1>1. /\ s \in StageType /\ s.request \in [Pictures!Roles -> Pictures!Request]
  BY StageParts
<1>2. r \in Pictures!Request /\ r.window = window /\ r.video = video
  BY DEF Pictures!Request, Pictures!Windows, Pool
<1>3. Pictures!Queued(s, role, window, video) = t
  BY <1>1 DEF Pictures!Queued, StageType
<1> HIDE DEF r
<1>4. /\ request \in [Pictures!Roles -> Pictures!Request] /\ request[role] = r
      /\ \A x \in Pictures!Roles \ {role} : request[x] = s.request[x]
  BY <1>1, <1>2
<1> HIDE DEF request
<1>5. t \in StageType /\ t.scene = s.scene /\ t.enabled = s.enabled /\ t.players = s.players /\ t.request = request
  BY <1>1, <1>4 DEF StageType
<1> HIDE DEF t
<1>6. \A w : Pictures!Owned(t, w) <=> Pictures!Owned(s, w)
  BY <1>5 DEF Pictures!Owned
<1>7. \A x \in Pictures!Roles :
       /\ t.request[x].window \in {NoWindow} \cup Pool(x)
       /\ t.request[x].due /\ t.request[x].video =>
            /\ x # "image" /\ t.request[x].window \in Pool(x)
            /\ ~Pictures!Owned(t, t.request[x].window)
  <2> TAKE x \in Pictures!Roles
  <2>1. CASE x = role
    BY <1>2, <1>4, <1>5, <1>6, <2>1
  <2>2. CASE x # role
    BY <1>4, <1>5, <1>6, <2>2 DEF PicturesOK
  <2> QED
    BY <2>1, <2>2
<1>8. PicturesOK(t)
  BY <1>5, <1>7 DEF PicturesOK
<1> QED
  BY <1>3, <1>4, <1>5, <1>8

(* A scene is applied. *)

\* What a handler may make of the stage before it draws.
Leads(s, t) ==
  /\ PicturesOK(t) /\ t.scene = s.scene /\ t.enabled = s.enabled
  /\ BackgroundGone(s) => BackgroundGone(t)

\* What is tidy leads.
LEMMA TidyLeads == ASSUME NEW s, NEW t, Tidy(s, t) PROVE Leads(s, t)
  BY DEF Tidy, Fewer, Leads

\* One part of a handler after another.
LEMMA LeadsTrans == ASSUME NEW s, NEW t, NEW u, Leads(s, t), Leads(t, u) PROVE Leads(s, u)
  BY DEF Leads

\* The source of a scene is taken over.
LEMMA ForegroundLeads ==
  ASSUME NEW s, PicturesOK(s), NEW changed \in BOOLEAN, NEW audible \in BOOLEAN, NEW readable \in BOOLEAN
  PROVE  Leads(s, Pictures!WithForeground(s, changed, audible, readable))
<1> DEFINE h == Pictures!Halt(s, "incoming")  fresh == Pictures!NewToken(h, "foreground")
           left == Pictures!Retire(fresh, "foreground", audible, readable)
           r == Pictures!Reclaimed(fresh, SceneWindows)
           w == Pictures!Available(fresh, SceneWindows)
           video == s.scene.foreground = "video"
           q == Pictures!Queued(r, "foreground", w, video)
<1>1. Pictures!WithForeground(s, changed, audible, readable) \in {s, left, q}
  BY DEF Pictures!WithForeground
<1>2. Tidy(s, h) /\ h.players = [s.players EXCEPT !["incoming"] = Pictures!NoPlayer]
  BY HaltTidy, SlotNames
<1> HIDE DEF h
<1>3. ~h.players["incoming"].video
  BY <1>2, StageParts, SlotNames, NoPlayerIsPlayer
<1>4. Tidy(h, fresh) /\ \A x \in Pictures!Slots : Alike(h.players[x], fresh.players[x])
  BY <1>2, NewTokenTidy, SlotNames DEF Tidy
<1> HIDE DEF fresh
<1>5. ~fresh.players["incoming"].video /\ PicturesOK(fresh)
  BY <1>3, <1>4, SlotNames DEF Alike, Tidy
<1>6. Tidy(fresh, left)
  BY <1>5, RetireTidy, SlotNames
<1>7. w \in SceneWindows /\ ~Pictures!Owned(r, w)
  BY <1>5, SourcesHaveOne, AvailableIsFree
<1>8. Tidy(fresh, r)
  BY <1>5, ReclaimedTidy
<1>9. video \in BOOLEAN
  OBVIOUS
<1> HIDE DEF r, w, video, left
<1>10. /\ PicturesOK(q) /\ q.scene = r.scene /\ q.enabled = r.enabled /\ q.players = r.players
       /\ \A x \in Pictures!Roles \ {"foreground"} : q.request[x] = r.request[x]
  <2>1. w \in {NoWindow} \cup Pool("foreground") /\ w \in Pool("foreground") /\ "foreground" \in Pictures!Roles
    BY <1>7, SlotNames DEF Pool
  <2> QED
    BY <1>7, <1>8, <1>9, <2>1, QueuedOK DEF Tidy
<1> HIDE DEF q
<1>11. Leads(r, q)
  BY <1>10, SlotNames DEF Leads, BackgroundGone
<1>12. Leads(s, fresh)
  BY <1>2, <1>4, TidyTrans, TidyLeads
<1>13. Leads(s, left) /\ Leads(s, q)
  BY <1>6, <1>8, <1>11, <1>12, TidyLeads, LeadsTrans
<1>14. Leads(s, s)
  BY DEF Leads
<1> QED
  BY <1>1, <1>13, <1>14

\* Its image.
LEMMA ImageLeads ==
  ASSUME NEW s, PicturesOK(s), NEW changed \in BOOLEAN, NEW readable \in BOOLEAN
  PROVE  Leads(s, Pictures!WithImage(s, changed, readable))
<1> DEFINE left == Pictures!Retire(s, "image", FALSE, readable)
           fresh == Pictures!NewToken(left, "image")
           q == Pictures!Queued(fresh, "image", NoWindow, FALSE)
<1>1. Pictures!WithImage(s, changed, readable) \in {s, fresh, q}
  BY DEF Pictures!WithImage
<1>2. Tidy(s, left)
  BY RetireTidy, SlotNames
<1> HIDE DEF left
<1>3. Tidy(left, fresh)
  BY <1>2, NewTokenTidy, SlotNames DEF Tidy
<1> HIDE DEF fresh
<1>4. /\ PicturesOK(q) /\ q.scene = fresh.scene /\ q.enabled = fresh.enabled /\ q.players = fresh.players
      /\ \A x \in Pictures!Roles \ {"image"} : q.request[x] = fresh.request[x]
  <2>1. NoWindow \in {NoWindow} \cup Pool("image") /\ "image" \in Pictures!Roles /\ FALSE \in BOOLEAN
    BY SlotNames
  <2> QED
    BY <1>3, <2>1, QueuedOK DEF Tidy
<1> HIDE DEF q
<1>5. Leads(fresh, q)
  BY <1>4, SlotNames DEF Leads, BackgroundGone
<1>6. Leads(s, fresh) /\ Leads(s, q)
  BY <1>2, <1>3, <1>5, TidyLeads, LeadsTrans
<1>7. Leads(s, s)
  BY DEF Leads
<1> QED
  BY <1>1, <1>6, <1>7

\* A background that goes asks for nothing more.
LEMMA BackgroundLeaves ==
  ASSUME NEW s, PicturesOK(s), NEW audible \in BOOLEAN, NEW readable \in BOOLEAN
  PROVE  LET t == Pictures!Retire(Pictures!NewToken(s, "background"), "background", audible, readable)
         IN  Leads(s, t) /\ BackgroundGone(t)
<1> DEFINE fresh == Pictures!NewToken(s, "background")
           t == Pictures!Retire(fresh, "background", audible, readable)
<1>1. Tidy(s, fresh) /\ fresh.request = [s.request EXCEPT !["background"] = Pictures!NoRequest]
  BY NewTokenTidy, SlotNames
<1>2. ~fresh.request["background"].due
  BY <1>1, StageParts, SlotNames, NoRequestIsRequest
<1> HIDE DEF fresh
<1>3. Tidy(fresh, t) /\ t.request = fresh.request /\ t.players["background"] = Pictures!NoPlayer
  BY <1>1, RetireTidy, SlotNames DEF Tidy, Stays
<1> HIDE DEF t
<1>4. Leads(s, t) /\ BackgroundGone(t)
  BY <1>1, <1>2, <1>3, TidyLeads, LeadsTrans, NoPlayerIsPlayer DEF BackgroundGone
<1> QED
  BY <1>4 DEF t, fresh

LeadsOff(s, t) == PicturesOK(t) /\ t.scene = s.scene /\ (~s.enabled => BackgroundGone(t))

\* The background of a scene is taken over.
LEMMA BackgroundLeads ==
  ASSUME NEW s, PicturesOK(s), NEW wasOn \in BOOLEAN, NEW changed \in BOOLEAN,
         NEW audible \in BOOLEAN, NEW readable \in BOOLEAN, ~wasOn => BackgroundGone(s)
  PROVE  LeadsOff(s, Pictures!WithBackground(s, wasOn, changed, audible, readable))
<1> DEFINE gone == Pictures!Retire(Pictures!NewToken(s, "background"), "background", audible, readable)
           left == IF changed \/ ~s.enabled THEN gone ELSE s
           fresh == Pictures!NewToken(left, "background")
           r == Pictures!Reclaimed(fresh, BackgroundWindows)
           w == Pictures!Available(left, BackgroundWindows)
           video == s.scene.background = "video"
           q == Pictures!Queued(r, "background", w, video)
           t == Pictures!WithBackground(s, wasOn, changed, audible, readable)
<1>1. t = IF s.enabled /\ s.scene.background # "none" /\ (changed \/ ~wasOn) THEN q ELSE left
  BY DEF Pictures!WithBackground
<1>2. Leads(s, gone) /\ BackgroundGone(gone)
  BY BackgroundLeaves
<1> HIDE DEF gone, t
<1>3. Leads(s, left) /\ (changed \/ ~s.enabled \/ ~wasOn => BackgroundGone(left))
  BY <1>2 DEF Leads
<1>4. ASSUME changed \/ ~wasOn, s.enabled PROVE PicturesOK(q) /\ q.scene = s.scene /\ q.enabled = s.enabled
  <2>1. BackgroundGone(left) /\ PicturesOK(left)
    BY <1>3, <1>4 DEF Leads
  <2> HIDE DEF left
  <2>2. ~left.players["background"].video
    BY <2>1, SlotNames DEF BackgroundGone, PicturesOK, Placed
  <2>3. Tidy(left, fresh) /\ \A x \in Pictures!Slots : Alike(left.players[x], fresh.players[x])
    BY <2>1, NewTokenTidy, SlotNames
  <2>4. PicturesOK(fresh)
    BY <2>3 DEF Tidy
  <2> HIDE DEF fresh
  <2>5. Spare(left, BackgroundWindows)
    BY <2>1, <2>2, BackgroundsHaveOne
  <2>6. Spare(fresh, BackgroundWindows) /\ w = Pictures!Available(fresh, BackgroundWindows)
    BY <2>3, <2>5, AlikeWindows
  <2>7. w \in BackgroundWindows /\ ~Pictures!Owned(r, w)
    BY <2>4, <2>6, AvailableIsFree
  <2>8. Tidy(fresh, r)
    BY <2>4, ReclaimedTidy
  <2>9. video \in BOOLEAN
    OBVIOUS
  <2>10. w \in {NoWindow} \cup Pool("background") /\ w \in Pool("background") /\ "background" \in Pictures!Roles
    BY <2>7, SlotNames DEF Pool
  <2> HIDE DEF r, w, video
  <2>11. PicturesOK(q) /\ q.scene = r.scene /\ q.enabled = r.enabled
    BY <2>7, <2>8, <2>9, <2>10, QueuedOK DEF Tidy
  <2> HIDE DEF q
  <2> QED
    BY <1>3, <2>3, <2>8, <2>11 DEF Leads, Tidy, Fewer
<1> HIDE DEF q, left
<1>5. PicturesOK(left) /\ left.scene = s.scene /\ left.enabled = s.enabled
  BY <1>3 DEF Leads
<1>6. LeadsOff(s, t)
  BY <1>1, <1>3, <1>4, <1>5 DEF LeadsOff
<1> QED
  BY <1>6 DEF t

\* The tails of a paused source fall silent.
LEMMA SilencedTidy ==
  ASSUME NEW s, PicturesOK(s), NEW paused \in BOOLEAN
  PROVE  Tidy(s, Pictures!Silenced(s, paused))
<1> DEFINE tail == IF paused /\ s.players["retiring"].role = "foreground" THEN Pictures!NoPlayer ELSE s.players["retiring"]
           b == s.players["visualRetiring"].sounds /\ ~(paused /\ s.players["visualRetiring"].role = "foreground")
           leaves == [s.players["visualRetiring"] EXCEPT !.sounds = b]
           players == [s.players EXCEPT !["retiring"] = tail, !["visualRetiring"] = leaves]
           t == [s EXCEPT !.players = players]
<1>1. s \in StageType /\ s.players \in [Pictures!Slots -> Pictures!Player]
  BY StageParts
<1>2. b \in BOOLEAN
  OBVIOUS
<1>3. Pictures!Silenced(s, paused) = t
  BY <1>1, SlotNames DEF Pictures!Silenced, StageType
<1> HIDE DEF b
<1>4. leaves \in Pictures!Player /\ Alike(s.players["visualRetiring"], leaves)
  BY <1>1, <1>2, SlotNames, Flags
<1>5. tail \in Pictures!Player /\ (tail = Pictures!NoPlayer \/ Alike(s.players["retiring"], tail))
  BY <1>1, SlotNames, NoPlayerIsPlayer, AlikeSelf
<1> HIDE DEF tail, leaves
<1>6. /\ players \in [Pictures!Slots -> Pictures!Player]
      /\ \A x \in Pictures!Slots : players[x] = Pictures!NoPlayer \/ Alike(s.players[x], players[x])
  BY <1>1, <1>4, <1>5, SlotNames, AlikeSelf
<1> HIDE DEF players
<1>7. t \in StageType /\ t.scene = s.scene /\ t.enabled = s.enabled /\ t.players = players /\ t.request = s.request
  BY <1>1, <1>6 DEF StageType
<1> HIDE DEF t
<1>8. Tidy(s, t)
  BY <1>6, <1>7, Kept
<1> QED
  BY <1>3, <1>8

(* The invariant: without a stage there is no background. *)

OffMeansGone(s) == ~s.scene.stage => BackgroundGone(s)

PicturesInv == PicturesOK(stage) /\ OffMeansGone(stage)

\* The invariant gives the property.
LEMMA PicturesShow == PicturesInv => WindowsAreShared
<1> SUFFICES ASSUME PicturesInv PROVE WindowsAreShared
  OBVIOUS
<1> USE DEF PicturesInv, PicturesOK
<1>1. Pictures!TypeOK
  BY DEF StageType, Pictures!TypeOK, Placed, Pool
<1>2. Pictures!WindowsAreOwn
  BY DEF Pictures!WindowsAreOwn
<1>3. Pictures!WindowsSuffice
  BY WindowsApart DEF Pictures!WindowsSuffice, Pictures!Refused, Pool
<1> QED
  BY <1>1, <1>2, <1>3 DEF WindowsAreShared

\* A stage without players and requests.
LEMMA EmptyOK ==
  ASSUME NEW t \in StageType, \A slot \in Pictures!Slots : t.players[slot] = Pictures!NoPlayer,
         \A role \in Pictures!Roles : t.request[role] = Pictures!NoRequest
  PROVE  PicturesOK(t) /\ BackgroundGone(t)
  BY NoPlayerIsPlayer, NoRequestIsRequest, SlotNames DEF PicturesOK, BackgroundGone

\* It holds at the start.
LEMMA PicturesInit == Pictures!Init => PicturesInv
<1> SUFFICES ASSUME Pictures!Init PROVE PicturesInv
  OBVIOUS
<1> USE DEF Pictures!Init
<1>1. Pictures!NoScene \in Pictures!SceneOf
  BY DEF Pictures!NoScene, Pictures!SceneOf
<1>2. stage \in StageType
  BY <1>1, NoPlayerIsPlayer, NoRequestIsRequest, NoTransitionIsTransition, WindowsApart DEF StageType
<1>3. PicturesOK(stage) /\ BackgroundGone(stage)
  BY <1>2, EmptyOK
<1> QED
  BY <1>3 DEF PicturesInv, OffMeansGone

\* Everything is cleared, and another scene and another word for it may be put in.
LEMMA ClearedOK ==
  ASSUME NEW s, PicturesOK(s), NEW scene \in Pictures!SceneOf, NEW lost \in BOOLEAN
  PROVE  LET t == [Pictures!Clear(s) EXCEPT !.scene = scene, !.lost = lost] IN
         PicturesOK(t) /\ BackgroundGone(t)
<1> DEFINE a == Pictures!NewToken(s, "foreground")
           b == Pictures!NewToken(a, "background")
           c == Pictures!NewToken(b, "image")
           none == [slot \in Pictures!Slots |-> Pictures!NoPlayer]
           d == [c EXCEPT !.visual = Pictures!NoTransition, !.players = none, !.enabled = FALSE]
           t == [d EXCEPT !.scene = scene, !.lost = lost]
<1>1. Tidy(s, a) /\ a.request = [s.request EXCEPT !["foreground"] = Pictures!NoRequest]
  BY NewTokenTidy, SlotNames
<1>2. PicturesOK(a) /\ s.request \in [Pictures!Roles -> Pictures!Request]
  BY <1>1, StageParts DEF Tidy
<1>9. Pictures!Clear(s) = d
  BY DEF Pictures!Clear
<1> HIDE DEF a
<1>3. Tidy(a, b) /\ b.request = [a.request EXCEPT !["background"] = Pictures!NoRequest]
  BY <1>2, NewTokenTidy, SlotNames
<1>4. PicturesOK(b) /\ a.request \in [Pictures!Roles -> Pictures!Request]
  BY <1>2, <1>3, StageParts DEF Tidy
<1> HIDE DEF b
<1>5. Tidy(b, c) /\ c.request = [b.request EXCEPT !["image"] = Pictures!NoRequest]
  BY <1>4, NewTokenTidy, SlotNames
<1>6. c \in StageType /\ b.request \in [Pictures!Roles -> Pictures!Request]
  BY <1>4, <1>5, StageParts DEF Tidy
<1> HIDE DEF c
<1>7. \A role \in Pictures!Roles : c.request[role] = Pictures!NoRequest
  BY <1>1, <1>2, <1>3, <1>4, <1>5, <1>6, SlotNames
<1>8. none \in [Pictures!Slots -> Pictures!Player] /\ \A slot \in Pictures!Slots : none[slot] = Pictures!NoPlayer
  BY NoPlayerIsPlayer
<1> HIDE DEF none
<1>10. d \in StageType /\ d.players = none /\ d.request = c.request
  BY <1>6, <1>8, NoTransitionIsTransition DEF StageType
<1> HIDE DEF d
<1>11. t \in StageType /\ t.players = none /\ t.request = c.request
  BY <1>10 DEF StageType
<1> HIDE DEF t
<1>12. PicturesOK(t) /\ BackgroundGone(t)
  BY <1>7, <1>8, <1>11, EmptyOK
<1> QED
  BY <1>9, <1>12 DEF t

\* The scenes of the instance are scenes.
LEMMA ScenesAreScenes == Pictures!Scenes \subseteq Pictures!SceneOf
  BY DesktopAssumption DEF Pictures!Scenes, Pictures!SceneOf, Pictures!PicturesAssumption

\* The next scene's number, and the scene itself.
LEMMA CountedOK ==
  ASSUME NEW s, PicturesOK(s), s.scenes < MaxScenes, NEW scene \in Pictures!SceneOf
  PROVE  /\ PicturesOK(Pictures!Counted(s))
         /\ LET t == [Pictures!Counted(s) EXCEPT !.scene = scene, !.enabled = scene.stage] IN
            PicturesOK(t) /\ t.scene = scene /\ t.enabled = scene.stage /\ (BackgroundGone(s) => BackgroundGone(t))
<1> DEFINE c == Pictures!Counted(s)  t == [c EXCEPT !.scene = scene, !.enabled = scene.stage]
<1>1. s \in StageType
  BY StageParts
<1>2. s.scenes + 1 \in 0..MaxScenes
  BY <1>1, WindowsApart DEF StageType
<1>3. /\ c \in StageType /\ c.players = s.players /\ c.request = s.request
      /\ c.scene = s.scene /\ c.enabled = s.enabled
  BY <1>1, <1>2 DEF Pictures!Counted, StageType
<1> HIDE DEF c
<1>4. scene.stage \in BOOLEAN
  BY DEF Pictures!SceneOf
<1>5. /\ t \in StageType /\ t.players = s.players /\ t.request = s.request
      /\ t.scene = scene /\ t.enabled = scene.stage
  BY <1>3, <1>4 DEF StageType
<1> HIDE DEF t
<1>6. ASSUME NEW u \in StageType, u.players = s.players, u.request = s.request
      PROVE  PicturesOK(u) /\ (BackgroundGone(s) => BackgroundGone(u))
  <2>1. \A w : Pictures!Owned(u, w) <=> Pictures!Owned(s, w)
    BY <1>6 DEF Pictures!Owned
  <2> QED
    BY <1>6, <2>1 DEF PicturesOK, BackgroundGone
<1> QED
  BY <1>3, <1>5, <1>6 DEF c, t

\* A scene is applied.
LEMMA ApplySceneKeeps == ASSUME PicturesInv, Pictures!ApplyScene PROVE PicturesInv'
<1> PICK scene \in Pictures!Scenes : \E changed \in Pictures!Changes(scene), audible \in Pictures!Audible,
         readable \in Pictures!Readable, paused \in BOOLEAN :
           /\ stage.scenes < MaxScenes
           /\ Pictures!Draws(Pictures!Entered(scene, changed, audible, readable, paused), readable)
  BY DEF Pictures!ApplyScene
<1> PICK changed \in Pictures!Changes(scene), audible \in Pictures!Audible, readable \in Pictures!Readable, paused \in BOOLEAN :
           /\ stage.scenes < MaxScenes
           /\ Pictures!Draws(Pictures!Entered(scene, changed, audible, readable, paused), readable)
  OBVIOUS
<1> DEFINE on == [Pictures!Counted(stage) EXCEPT !.scene = scene, !.enabled = scene.stage]
           one == Pictures!WithForeground(on, "foreground" \in changed, audible, readable)
           two == Pictures!WithImage(one, "image" \in changed, readable)
           wasOn == stage.scene.stage
           other == "background" \in changed
           three == Pictures!WithBackground(two, wasOn, other, audible, readable)
           four == Pictures!Silenced(three, paused)
<1>1. PicturesOK(stage) /\ OffMeansGone(stage) /\ stage.scene.stage \in BOOLEAN
  BY StageParts DEF PicturesInv, Pictures!SceneOf
<1>2. audible \in BOOLEAN /\ readable \in BOOLEAN /\ scene \in Pictures!SceneOf
  BY ChoicesAreBoolean, ScenesAreScenes
<1>3. ("foreground" \in changed) \in BOOLEAN /\ ("image" \in changed) \in BOOLEAN /\ ("background" \in changed) \in BOOLEAN
  OBVIOUS
<1>4. Pictures!Draws(four, readable)
  BY DEF Pictures!Entered
<1>5. PicturesOK(on) /\ on.scene = scene /\ on.enabled = scene.stage /\ (BackgroundGone(stage) => BackgroundGone(on))
  BY <1>1, <1>2, CountedOK
<1> HIDE DEF on
<1>6. Leads(on, one)
  BY <1>2, <1>3, <1>5, ForegroundLeads
<1> HIDE DEF one
<1>7. Leads(one, two)
  BY <1>2, <1>3, <1>6, ImageLeads DEF Leads
<1> HIDE DEF two
<1>8. Leads(on, two)
  BY <1>6, <1>7, LeadsTrans
<1>9. PicturesOK(two) /\ two.scene = scene /\ two.enabled = scene.stage /\ (~stage.scene.stage => BackgroundGone(two))
  BY <1>1, <1>5, <1>8 DEF Leads, OffMeansGone
<1>14. wasOn \in BOOLEAN /\ other \in BOOLEAN /\ (~wasOn => BackgroundGone(two))
  BY <1>1, <1>3, <1>9
<1> HIDE DEF wasOn, other
<1>15. LeadsOff(two, three)
  BY <1>2, <1>9, <1>14, BackgroundLeads
<1>10. PicturesOK(three) /\ three.scene = scene /\ (~scene.stage => BackgroundGone(three))
  BY <1>9, <1>15 DEF LeadsOff
<1> HIDE DEF three
<1>11. Tidy(three, four)
  BY <1>10, SilencedTidy
<1> HIDE DEF four
<1>12. Tidy(four, stage')
  BY <1>2, <1>4, <1>11, DrawsTidy DEF Tidy
<1>13. Tidy(three, stage')
  BY <1>11, <1>12, TidyTrans
<1> QED
  BY <1>10, <1>13 DEF PicturesInv, OffMeansGone, Tidy, Fewer

\* Everything is torn down.
LEMMA ClearingKeeps ==
  ASSUME PicturesInv, Pictures!ApplyHard \/ Pictures!ApplyAndFail \/ Pictures!LosesAll
  PROVE  PicturesInv'
<1>1. PicturesOK(stage) /\ stage.scene \in Pictures!SceneOf /\ stage \in StageType
  BY StageParts DEF PicturesInv
<1>2. ASSUME NEW scene \in Pictures!Scenes, NEW lost \in BOOLEAN, stage.scenes < MaxScenes,
             stage' = [Pictures!Clear(Pictures!Counted(stage)) EXCEPT !.scene = scene, !.lost = lost]
      PROVE  PicturesInv'
  <2> DEFINE c == Pictures!Counted(stage)  t == [Pictures!Clear(c) EXCEPT !.scene = scene, !.lost = lost]
  <2>1. scene \in Pictures!SceneOf
    BY ScenesAreScenes
  <2>2. PicturesOK(c)
    BY <1>1, <1>2, <2>1, CountedOK
  <2> HIDE DEF c
  <2>3. PicturesOK(t) /\ BackgroundGone(t)
    BY <2>1, <2>2, ClearedOK
  <2>4. stage' = t
    BY <1>2 DEF c
  <2> HIDE DEF t
  <2> QED
    BY <2>3, <2>4 DEF PicturesInv, OffMeansGone
<1>3. ASSUME stage' = [Pictures!Clear(stage) EXCEPT !.lost = TRUE] PROVE PicturesInv'
  <2> DEFINE t == [Pictures!Clear(stage) EXCEPT !.scene = stage.scene, !.lost = TRUE]
  <2>1. stage' = t
    <3> DEFINE a == Pictures!NewToken(stage, "foreground")
               b == Pictures!NewToken(a, "background")
               c == Pictures!NewToken(b, "image")
               none == [slot \in Pictures!Slots |-> Pictures!NoPlayer]
               d == [c EXCEPT !.visual = Pictures!NoTransition, !.players = none, !.enabled = FALSE]
    <3>1. Tidy(stage, a)
      BY <1>1, NewTokenTidy, SlotNames
    <3>5. Pictures!Clear(stage) = d
      BY DEF Pictures!Clear
    <3> HIDE DEF a
    <3>2. Tidy(a, b)
      BY <3>1, NewTokenTidy, SlotNames DEF Tidy
    <3> HIDE DEF b
    <3>3. Tidy(b, c)
      BY <3>2, NewTokenTidy, SlotNames DEF Tidy
    <3> HIDE DEF c, none
    <3>4. c \in StageType /\ c.scene = stage.scene
      BY <3>1, <3>2, <3>3, StageParts DEF Tidy, Fewer
    <3> QED
      BY <1>3, <3>4, <3>5 DEF StageType
  <2>2. PicturesOK(t) /\ BackgroundGone(t)
    BY <1>1, ClearedOK
  <2> HIDE DEF t
  <2> QED
    BY <2>1, <2>2 DEF PicturesInv, OffMeansGone
<1>4. CASE Pictures!ApplyHard
  BY <1>2, <1>4 DEF Pictures!ApplyHard
<1>5. CASE Pictures!ApplyAndFail
  BY <1>2, <1>5 DEF Pictures!ApplyAndFail
<1>6. CASE Pictures!LosesAll
  BY <1>3, <1>6 DEF Pictures!LosesAll
<1> QED
  BY <1>4, <1>5, <1>6

\* A handler that leads somewhere and draws.
LEMMA DrawnKeeps ==
  ASSUME PicturesInv, NEW t, Leads(stage, t), NEW readable \in Pictures!Readable, Pictures!Draws(t, readable)
  PROVE  PicturesInv'
<1>1. Tidy(t, stage')
  BY ChoicesAreBoolean, DrawsTidy DEF Leads
<1>2. Leads(t, stage')
  BY <1>1, TidyLeads
<1>3. Leads(stage, stage')
  BY <1>2, LeadsTrans
<1> QED
  BY <1>3 DEF PicturesInv, OffMeansGone, Leads

\* A handler that is tidy keeps it.
LEMMA TidyKeeps == ASSUME PicturesInv, Tidy(stage, stage') PROVE PicturesInv'
  BY DEF PicturesInv, OffMeansGone, Tidy, Fewer

\* What was loaded gets the place it was loaded for.
LEMMA ServedLeads ==
  ASSUME NEW s, PicturesOK(s), NEW role \in Pictures!Roles, s.request[role].due,
         NEW slot \in Pictures!Slots, slot = IF role = "foreground" THEN "incoming" ELSE role
  PROVE  Leads(s, [Pictures!Served(s, role) EXCEPT !.players[slot] = Pictures!PlayerFor(s, role)])
<1> DEFINE r == s.request[role]
           p == Pictures!PlayerFor(s, role)
           request == [s.request EXCEPT ![role] = Pictures!NoRequest]
           players == [s.players EXCEPT ![slot] = p]
           t == [s EXCEPT !.request = request, !.players = players]
<1>1. /\ s \in StageType /\ s.request \in [Pictures!Roles -> Pictures!Request]
      /\ s.players \in [Pictures!Slots -> Pictures!Player]
  BY StageParts
<1>2. r \in Pictures!Request
  BY <1>1
<1>3. /\ p \in Pictures!Player /\ p.present /\ p.role = role /\ p.window = r.window /\ p.video = r.video
  BY <1>2, NoPlayerIsPlayer DEF Pictures!PlayerFor, Pictures!NoPlayer, Pictures!Player, Pictures!Request
<1>4. [Pictures!Served(s, role) EXCEPT !.players[slot] = p] = t
  BY <1>1 DEF Pictures!Served, StageType
<1>5. /\ r.window \in {NoWindow} \cup Pool(role)
      /\ r.video => role # "image" /\ r.window \in Pool(role) /\ ~Pictures!Owned(s, r.window)
  BY DEF PicturesOK
<1> HIDE DEF p, r
<1>6. /\ request \in [Pictures!Roles -> Pictures!Request] /\ request[role] = Pictures!NoRequest
      /\ \A x \in Pictures!Roles \ {role} : request[x] = s.request[x]
  BY <1>1, NoRequestIsRequest
<1>7. /\ players \in [Pictures!Slots -> Pictures!Player] /\ players[slot] = p
      /\ \A x \in Pictures!Slots \ {slot} : players[x] = s.players[x]
  BY <1>1, <1>3
<1> HIDE DEF request, players
<1>8. t \in StageType /\ t.scene = s.scene /\ t.enabled = s.enabled /\ t.players = players /\ t.request = request
  BY <1>1, <1>6, <1>7 DEF StageType
<1> HIDE DEF t
<1>9. \A x \in Pictures!Slots : Placed(t.players[x], x)
  <2> TAKE x \in Pictures!Slots
  <2>1. CASE x = slot
    BY <1>3, <1>5, <1>7, <1>8, <2>1, SlotNames DEF Placed
  <2>2. CASE x # slot
    BY <1>7, <1>8, <2>2 DEF PicturesOK
  <2> QED
    BY <2>1, <2>2
<1>10. \A w : Pictures!Owned(t, w) => Pictures!Owned(s, w) \/ (p.video /\ w = p.window)
  BY <1>7, <1>8 DEF Pictures!Owned
<1>11. \A one, two \in Pictures!Slots :
        t.players[one].video /\ t.players[two].video /\ t.players[one].window = t.players[two].window
          => one = two
  <2>1. \A x \in Pictures!Slots \ {slot} : p.video /\ t.players[x].video => t.players[x].window # p.window
    BY <1>3, <1>5, <1>7, <1>8, SlotNames DEF Pictures!Owned, PicturesOK, Placed
  <2> QED
    BY <1>7, <1>8, <2>1 DEF PicturesOK
<1>12. \A x \in Pictures!Roles :
        /\ t.request[x].window \in {NoWindow} \cup Pool(x)
        /\ t.request[x].due /\ t.request[x].video =>
             /\ x # "image" /\ t.request[x].window \in Pool(x)
             /\ ~Pictures!Owned(t, t.request[x].window)
  <2> TAKE x \in Pictures!Roles
  <2>1. CASE x = role
    BY <1>6, <1>8, <2>1, NoRequestIsRequest
  <2>2. CASE x # role
    <3>1. t.request[x] = s.request[x]
      BY <1>6, <1>8, <2>2
    <3>2. ASSUME s.request[x].due, s.request[x].video, p.video PROVE s.request[x].window # p.window
      <4>1. s.request[x].window \in Pool(x) /\ x # "image" /\ p.window \in Pool(role) /\ role # "image"
        BY <1>3, <1>5, <3>2 DEF PicturesOK
      <4> QED
        BY <2>2, <4>1, SlotNames, WindowsApart DEF Pool
    <3> QED
      BY <1>10, <3>1, <3>2 DEF PicturesOK
  <2> QED
    BY <2>1, <2>2
<1>13. PicturesOK(t)
  BY <1>8, <1>9, <1>11, <1>12 DEF PicturesOK
<1>14. BackgroundGone(s) => BackgroundGone(t)
  BY <1>6, <1>7, <1>8, SlotNames DEF BackgroundGone
<1> QED
  BY <1>4, <1>8, <1>13, <1>14 DEF Leads, p

\* A source, a background or an image is ready.
LEMMA ReadyKeeps ==
  ASSUME PicturesInv, Pictures!Ready PROVE PicturesInv'
<1>1. PicturesOK(stage) /\ stage \in StageType /\ stage.players \in [Pictures!Slots -> Pictures!Player]
      /\ stage.failed \in [Pictures!Roles -> BOOLEAN]
      /\ stage.request \in [Pictures!Roles -> Pictures!Request]
  BY StageParts DEF PicturesInv
<1>2. CASE Pictures!ReadyForeground
  <2> PICK readable \in Pictures!Readable :
        /\ Pictures!Timely("foreground")
        /\ Pictures!Draws([Pictures!Served(stage, "foreground")
               EXCEPT !.players["incoming"] = Pictures!PlayerFor(stage, "foreground")], readable)
    BY <1>2 DEF Pictures!ReadyForeground
  <2> DEFINE t == [Pictures!Served(stage, "foreground")
               EXCEPT !.players["incoming"] = Pictures!PlayerFor(stage, "foreground")]
  <2>1. Leads(stage, t)
    BY <1>1, ServedLeads, SlotNames DEF Pictures!Timely
  <2>2. Pictures!Draws(t, readable)
    OBVIOUS
  <2> HIDE DEF t
  <2> QED
    BY <2>1, <2>2, DrawnKeeps
<1>3. ASSUME NEW role \in {"background", "image"}, Pictures!ReadyPicture(role) PROVE PicturesInv'
  <2> PICK audible \in Pictures!Audible, readable \in Pictures!Readable :
        /\ Pictures!Timely(role)
        /\ Pictures!Draws([Pictures!Served(Pictures!Retire(stage, role, audible, readable), role)
               EXCEPT !.players[role] = Pictures!PlayerFor(stage, role)], readable)
    BY <1>3 DEF Pictures!ReadyPicture
  <2> DEFINE left == Pictures!Retire(stage, role, audible, readable)
             t == [Pictures!Served(left, role) EXCEPT !.players[role] = Pictures!PlayerFor(left, role)]
  <2>1. Tidy(stage, left) /\ left.request = stage.request
    BY <1>1, ChoicesAreBoolean, RetireTidy, SlotNames DEF Stays
  <2>3. Pictures!PlayerFor(left, role) = Pictures!PlayerFor(stage, role)
    BY <2>1 DEF Pictures!PlayerFor
  <2>2. Pictures!Draws(t, readable)
    BY <2>3
  <2> HIDE DEF left
  <2>4. PicturesOK(left) /\ left.request[role].due
    BY <2>1 DEF Tidy, Pictures!Timely
  <2>5. Leads(left, t)
    BY <2>4, ServedLeads, SlotNames
  <2> HIDE DEF t
  <2>6. Leads(stage, t)
    BY <2>1, <2>5, TidyLeads, LeadsTrans
  <2> QED
    BY <2>2, <2>6, DrawnKeeps
<1>4. ASSUME NEW role \in {"background", "image"}, Pictures!ReadyPictureFails(role) PROVE PicturesInv'
  <2> PICK readable \in Pictures!Readable :
        Pictures!Draws([Pictures!Served(stage, role) EXCEPT !.failed[role] = TRUE], readable)
    BY <1>4 DEF Pictures!ReadyPictureFails
  <2> DEFINE request == [stage.request EXCEPT ![role] = Pictures!NoRequest]
             failed == [stage.failed EXCEPT ![role] = TRUE]
             t == [stage EXCEPT !.request = request, !.failed = failed]
  <2>1. [Pictures!Served(stage, role) EXCEPT !.failed[role] = TRUE] = t
    BY <1>1 DEF Pictures!Served, StageType
  <2>2. /\ request \in [Pictures!Roles -> Pictures!Request] /\ failed \in [Pictures!Roles -> BOOLEAN]
        /\ \A x \in Pictures!Roles : request[x] \in {stage.request[x], Pictures!NoRequest}
    BY <1>1, NoRequestIsRequest
  <2> HIDE DEF request, failed
  <2>3. /\ t \in StageType /\ t.scene = stage.scene /\ t.enabled = stage.enabled /\ t.players = stage.players
        /\ t.request = request
    BY <1>1, <2>2 DEF StageType
  <2>4. Pictures!Draws(t, readable)
    BY <2>1
  <2> HIDE DEF t
  <2>5. Tidy(stage, t)
    BY <1>1, <2>2, <2>3, Kept, AlikeSelf
  <2> QED
    BY <2>4, <2>5, TidyLeads, DrawnKeeps
<1> QED
  BY <1>2, <1>3, <1>4 DEF Pictures!Ready

\* One flag of a player, or of the failures, is set.
LEMMA MarkedTidy ==
  ASSUME NEW s, PicturesOK(s), NEW slot \in Pictures!Slots, NEW role \in Pictures!Roles, NEW b \in BOOLEAN
  PROVE  /\ Tidy(s, [s EXCEPT !.players[slot].sounds = b])
         /\ Tidy(s, [s EXCEPT !.players[slot].playing = b])
         /\ Tidy(s, [s EXCEPT !.failed[role] = b])
         /\ [s EXCEPT !.players[slot].sounds = b].visual = s.visual
<1>1. s \in StageType /\ s.players \in [Pictures!Slots -> Pictures!Player] /\ s.failed \in [Pictures!Roles -> BOOLEAN]
  BY StageParts
<1>2. ASSUME NEW p \in Pictures!Player, Alike(s.players[slot], p)
      PROVE  LET t == [s EXCEPT !.players = [s.players EXCEPT ![slot] = p]] IN Tidy(s, t) /\ t.visual = s.visual
  <2> DEFINE players == [s.players EXCEPT ![slot] = p]  t == [s EXCEPT !.players = players]
  <2>1. /\ players \in [Pictures!Slots -> Pictures!Player]
        /\ \A x \in Pictures!Slots : Alike(s.players[x], players[x])
    BY <1>1, <1>2, AlikeSelf
  <2> HIDE DEF players
  <2>2. /\ t \in StageType /\ t.scene = s.scene /\ t.enabled = s.enabled /\ t.players = players /\ t.request = s.request
        /\ t.visual = s.visual
    BY <1>1, <2>1 DEF StageType
  <2> HIDE DEF t
  <2>3. Tidy(s, t)
    BY <2>1, <2>2, Kept
  <2> QED
    BY <2>2, <2>3 DEF t, players
<1> DEFINE one == [s.players[slot] EXCEPT !.sounds = b]  two == [s.players[slot] EXCEPT !.playing = b]
           failed == [s.failed EXCEPT ![role] = b]  u == [s EXCEPT !.failed = failed]
<1>3. /\ one \in Pictures!Player /\ Alike(s.players[slot], one)
      /\ two \in Pictures!Player /\ Alike(s.players[slot], two)
  BY <1>1, Flags
<1>4. /\ [s EXCEPT !.players[slot].sounds = b] = [s EXCEPT !.players = [s.players EXCEPT ![slot] = one]]
      /\ [s EXCEPT !.players[slot].playing = b] = [s EXCEPT !.players = [s.players EXCEPT ![slot] = two]]
      /\ [s EXCEPT !.failed[role] = b] = u
  BY <1>1 DEF StageType
<1>5. failed \in [Pictures!Roles -> BOOLEAN]
  BY <1>1
<1> HIDE DEF one, two, failed
<1>6. /\ u \in StageType /\ u.scene = s.scene /\ u.enabled = s.enabled /\ u.players = s.players /\ u.request = s.request
  BY <1>1, <1>5 DEF StageType
<1> HIDE DEF u
<1>7. Tidy(s, u)
  BY <1>6, Kept, AlikeSelf
<1> QED
  BY <1>2, <1>3, <1>4, <1>7

\* One player leaves, and its role is marked as failed, or not.
LEMMA FailedLeads ==
  ASSUME NEW s, PicturesOK(s), NEW role \in Pictures!Roles, NEW audible \in BOOLEAN, NEW readable \in BOOLEAN,
         NEW b \in BOOLEAN
  PROVE  Leads(s, [Pictures!Retire(s, role, audible, readable) EXCEPT !.failed[role] = @ \/ b])
<1> DEFINE left == Pictures!Retire(s, role, audible, readable)
           c == left.failed[role] \/ b
           t == [left EXCEPT !.failed[role] = c]
<1>1. Tidy(s, left)
  BY RetireTidy
<1> HIDE DEF left
<1>2. c \in BOOLEAN
  OBVIOUS
<1>3. left \in StageType
  BY <1>1, StageParts DEF Tidy
<1>4. [left EXCEPT !.failed[role] = @ \/ b] = t
  BY <1>3, StageParts DEF StageType
<1> HIDE DEF c
<1>5. Tidy(left, t)
  BY <1>1, <1>2, MarkedTidy, SlotNames DEF Tidy
<1> HIDE DEF t
<1>6. Leads(s, t)
  BY <1>1, <1>5, TidyTrans, TidyLeads
<1> QED
  BY <1>4, <1>6 DEF left

\* What comes in takes the place of what was there.
LEMMA IncomingTidy ==
  ASSUME NEW s, PicturesOK(s), NEW u, Tidy(s, u), s.players["incoming"].present,
         Stays(s, u, {"foreground", "retiring", "visualRetiring"})
  PROVE  Tidy(u, [Pictures!Halt(u, "incoming") EXCEPT
                    !.players["foreground"] = [s.players["incoming"] EXCEPT !.playing = TRUE]])
<1> DEFINE p == [s.players["incoming"] EXCEPT !.playing = TRUE]
           players == [u.players EXCEPT !["incoming"] = Pictures!NoPlayer, !["foreground"] = p]
           t == [u EXCEPT !.players = players]
<1>1. /\ PicturesOK(u) /\ u \in StageType /\ u.players \in [Pictures!Slots -> Pictures!Player]
      /\ s.players \in [Pictures!Slots -> Pictures!Player]
  BY StageParts DEF Tidy
<1>2. /\ "incoming" \in Pictures!Slots /\ "foreground" \in Pictures!Slots
      /\ "incoming" \notin {"foreground", "retiring", "visualRetiring"}
  BY DEF Pictures!Slots
<1>3. Alike(s.players["incoming"], u.players["incoming"])
  BY <1>2 DEF Stays
<1>4. s.players["incoming"] \in Pictures!Player
  BY <1>1, <1>2
<1>5. p \in Pictures!Player /\ Alike(s.players["incoming"], p)
  BY <1>4, Flags
<1>6. Alike(u.players["incoming"], p)
  BY <1>3, <1>5 DEF Alike
<1>7. [Pictures!Halt(u, "incoming") EXCEPT !.players["foreground"] = p] = t
  BY <1>1 DEF Pictures!Halt, StageType
<1> HIDE DEF p
<1>8. /\ players \in [Pictures!Slots -> Pictures!Player]
      /\ players["incoming"] = Pictures!NoPlayer /\ players["foreground"] = p
      /\ \A x \in Pictures!Slots \ {"incoming", "foreground"} : players[x] = u.players[x]
  BY <1>1, <1>2, <1>5, NoPlayerIsPlayer
<1> HIDE DEF players
<1>9. /\ t \in StageType /\ t.scene = u.scene /\ t.enabled = u.enabled /\ t.players = players
      /\ t.request = u.request
  BY <1>1, <1>8 DEF StageType
<1> HIDE DEF t
<1>10. Tidy(u, t)
  BY <1>1, <1>2, <1>6, <1>8, <1>9, AlikeSelf, Moved
<1> QED
  BY <1>7, <1>10 DEF p

\* A tail that fails leaves its last frame.
LEMMA TailFailsTidy ==
  ASSUME NEW s, PicturesOK(s), NEW slot \in {"retiring", "visualRetiring"}, NEW still \in BOOLEAN
  PROVE  Tidy(s, [IF still THEN Pictures!ComesFrom(s, {}) ELSE s
                    EXCEPT !.players[slot].sounds = FALSE, !.visual.frozen = @ \/ still])
<1> DEFINE u == IF still THEN Pictures!ComesFrom(s, {}) ELSE s
           v == [u EXCEPT !.players[slot].sounds = FALSE]
           frozen == u.visual.frozen \/ still
           visual == [u.visual EXCEPT !.frozen = frozen]
           t == [v EXCEPT !.visual = visual]
<1>1. Tidy(s, u)
  BY TidySelf, ComesFromTidy
<1> HIDE DEF u
<1>2. PicturesOK(u) /\ u \in StageType /\ u.visual \in Pictures!Transition
  BY <1>1, StageParts DEF Tidy
<1>3. slot \in Pictures!Slots /\ "image" \in Pictures!Roles
  BY DEF Pictures!Slots, Pictures!Roles
<1>4. Tidy(u, v) /\ v.visual = u.visual
  BY <1>2, <1>3, MarkedTidy
<1>5. [u EXCEPT !.players[slot].sounds = FALSE, !.visual.frozen = @ \/ still] = t
  BY <1>2, <1>4 DEF StageType
<1> HIDE DEF v
<1>6. frozen \in BOOLEAN
  OBVIOUS
<1> HIDE DEF frozen
<1>7. visual \in Pictures!Transition
  BY <1>2, <1>6 DEF Pictures!Transition
<1> HIDE DEF visual
<1>8. Tidy(v, t)
  BY <1>4, <1>7, VisualTidy DEF Tidy
<1> HIDE DEF t
<1>9. Tidy(s, t)
  BY <1>1, <1>4, <1>8, TidyTrans
<1> QED
  BY <1>5, <1>9 DEF u

\* A tick of the timers.
LEMMA TickKeeps ==
  ASSUME PicturesInv, Pictures!Tick PROVE PicturesInv'
<1>1. PicturesOK(stage) /\ stage \in StageType /\ stage.players \in [Pictures!Slots -> Pictures!Player]
  BY StageParts DEF PicturesInv
<1>2. \A slot \in Pictures!Slots : stage.players[slot].own \in BOOLEAN /\ stage.players[slot].from \in BOOLEAN
  BY <1>1 DEF Pictures!Player
<1>3. CASE Pictures!IncomingPlays
  <2> PICK audible \in Pictures!Audible, readable \in Pictures!Readable :
        /\ Pictures!Present(stage, "incoming")
        /\ Pictures!Draws([Pictures!Halt(Pictures!Retire(stage, "foreground", audible, readable), "incoming") EXCEPT
                !.players["foreground"] = [stage.players["incoming"] EXCEPT !.playing = TRUE]], readable)
    BY <1>3 DEF Pictures!IncomingPlays
  <2> DEFINE left == Pictures!Retire(stage, "foreground", audible, readable)
             t == [Pictures!Halt(left, "incoming") EXCEPT
                !.players["foreground"] = [stage.players["incoming"] EXCEPT !.playing = TRUE]]
  <2>1. Tidy(stage, left) /\ Stays(stage, left, {"foreground", "retiring", "visualRetiring"})
    BY <1>1, ChoicesAreBoolean, RetireTidy, SlotNames
  <2>2. Pictures!Draws(t, readable)
    OBVIOUS
  <2> HIDE DEF left
  <2>3. Tidy(left, t)
    BY <1>1, <2>1, IncomingTidy DEF Pictures!Present
  <2> HIDE DEF t
  <2> QED
    BY <2>1, <2>2, <2>3, TidyTrans, TidyLeads, DrawnKeeps
<1>4. CASE Pictures!ForegroundEnds
  <2> PICK audible \in Pictures!Audible, readable \in Pictures!Readable :
        Pictures!Draws([Pictures!Retire(stage, "foreground", audible, readable) EXCEPT
               !.failed["foreground"] = @ \/ stage.players["foreground"].own], readable)
    BY <1>4 DEF Pictures!ForegroundEnds
  <2>1. Leads(stage, [Pictures!Retire(stage, "foreground", audible, readable) EXCEPT
               !.failed["foreground"] = @ \/ stage.players["foreground"].own])
    BY <1>1, <1>2, ChoicesAreBoolean, FailedLeads, SlotNames
  <2> QED
    BY <2>1, DrawnKeeps
<1>5. CASE Pictures!BackgroundPlays
  <2> PICK readable \in Pictures!Readable :
        Pictures!Draws([stage EXCEPT !.players["background"].playing = TRUE], readable)
    BY <1>5 DEF Pictures!BackgroundPlays
  <2>1. Leads(stage, [stage EXCEPT !.players["background"].playing = TRUE])
    BY <1>1, MarkedTidy, TidyLeads, SlotNames
  <2> QED
    BY <2>1, DrawnKeeps
<1>6. CASE Pictures!BackgroundFails
  <2> PICK audible \in Pictures!Audible, readable \in Pictures!Readable :
        Pictures!Draws([Pictures!Retire(stage, "background", audible, readable) EXCEPT
               !.failed["background"] = @ \/ stage.players["background"].own], readable)
    BY <1>6 DEF Pictures!BackgroundFails
  <2>1. Leads(stage, [Pictures!Retire(stage, "background", audible, readable) EXCEPT
               !.failed["background"] = @ \/ stage.players["background"].own])
    BY <1>1, <1>2, ChoicesAreBoolean, FailedLeads, SlotNames
  <2> QED
    BY <2>1, DrawnKeeps
<1>7. CASE Pictures!TailFails
  <2> PICK slot \in {"retiring", "visualRetiring"} :
        stage' = [IF stage.visual.active /\ stage.players[slot].from /\ stage.visual.source
                  THEN Pictures!ComesFrom(stage, {}) ELSE stage
                    EXCEPT !.players[slot].sounds = FALSE,
                           !.visual.frozen = @ \/ (stage.visual.active /\ stage.players[slot].from /\ stage.visual.source)]
    BY <1>7 DEF Pictures!TailFails
  <2> DEFINE still == stage.visual.active /\ stage.players[slot].from /\ stage.visual.source
  <2>1. still \in BOOLEAN
    OBVIOUS
  <2>2. stage' = [IF still THEN Pictures!ComesFrom(stage, {}) ELSE stage
                    EXCEPT !.players[slot].sounds = FALSE, !.visual.frozen = @ \/ still]
    OBVIOUS
  <2> HIDE DEF still
  <2>3. Tidy(stage, [IF still THEN Pictures!ComesFrom(stage, {}) ELSE stage
                    EXCEPT !.players[slot].sounds = FALSE, !.visual.frozen = @ \/ still])
    BY <1>1, <2>1, TailFailsTidy
  <2>4. Tidy(stage, stage')
    BY <2>2, <2>3
  <2> QED
    BY <2>4, TidyKeeps
<1>8. CASE Pictures!RampEnds
  <2> PICK slot \in {"retiring", "visualRetiring"} : stage' = [stage EXCEPT !.players[slot].sounds = FALSE]
    BY <1>8 DEF Pictures!RampEnds
  <2>1. slot \in Pictures!Slots /\ "image" \in Pictures!Roles
    BY DEF Pictures!Slots, Pictures!Roles
  <2> QED
    BY <1>1, <2>1, MarkedTidy, TidyKeeps
<1>9. CASE Pictures!FadeGoesOn \/ \E readable \in Pictures!Readable : Pictures!FadeEnds(readable)
  <2> PICK readable \in Pictures!Readable : stage' \in Pictures!Frame(stage, readable)
    BY <1>9 DEF Pictures!FadeGoesOn, Pictures!FadeEnds
  <2>1. Tidy(stage, stage')
    BY <1>1, ChoicesAreBoolean, FrameTidy
  <2> QED
    BY <2>1, TidyKeeps
<1>10. CASE Pictures!TailLeaves
  <2>1. Tidy(stage, stage')
    BY <1>1, <1>10, HaltTidy DEF Pictures!TailLeaves, Pictures!Slots
  <2> QED
    BY <2>1, TidyKeeps
<1>11. CASE Pictures!PictureLeaves
  <2>1. Tidy(stage, stage')
    BY <1>1, <1>11, ReleaseTidy DEF Pictures!PictureLeaves
  <2> QED
    BY <2>1, TidyKeeps
<1> QED
  BY <1>3, <1>4, <1>5, <1>6, <1>7, <1>8, <1>9, <1>10, <1>11 DEF Pictures!Tick

\* Every step keeps it.
LEMMA PicturesNext == PicturesInv /\ [DesktopNext]_desktopVars => PicturesInv'
<1> SUFFICES ASSUME PicturesInv, [DesktopNext]_desktopVars PROVE PicturesInv'
  OBVIOUS
<1>1. CASE UNCHANGED stage
  BY <1>1 DEF PicturesInv
<1>2. CASE Pictures!Next
  BY <1>2, ApplySceneKeeps, ClearingKeeps, ReadyKeeps, TickKeeps DEF Pictures!Next, Pictures!Apply
<1> QED
  BY <1>1, <1>2 DEF DesktopNext, desktopVars

\* For every sequence of scenes and failures: no two videos draw into one window, none is
\* promised while another draws into it, and three windows for sources and two for
\* backgrounds always suffice (availableSceneWindow).
THEOREM WindowsAlwaysShared == DesktopSpec => []WindowsAreShared
<1>1. DesktopInit => PicturesInv
  BY PicturesInit DEF DesktopInit
<1> QED
  BY <1>1, PicturesNext, PicturesShow, PTL DEF DesktopSpec
=============================================================================
