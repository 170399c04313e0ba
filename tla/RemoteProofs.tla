---------------------------- MODULE RemoteProofs ----------------------------
(***************************************************************************)
(* At most one way in from outside is ever open, for any number of         *)
(* operations, attempts, gateways and restarts: OneWayInv is inductive.    *)
(* The step that matters is Start: it appends a goroutine only after the   *)
(* one it waited for has ended, and OneWayInv says there is no other.      *)
(*                                                                         *)
(* And of every run of the helper process: a call of serve that has        *)
(* returned left nothing behind, and the origin is closed before the       *)
(* helper is told to stop.  The argument is the inductive invariant        *)
(* CleanInv: at each stage of Run it says which processes may exist, and   *)
(* it ties a closed input to a cancelled context and that to the origin.   *)
(*                                                                         *)
(* And that pairing is sound: PairingInv gives every request its own       *)
(* number, so a session that is made or revoked while others are under way *)
(* is nobody else's, and what a browser holds was once admitted.           *)
(***************************************************************************)
EXTENDS MCRemote, FiniteSetTheorems, TLAPS

USE DEF Idle, Is, Goto

\* The two sequences a process starts with.
LEMMA NoConns == <<>> \in Seq(ConnOK) /\ DOMAIN <<>> = {}
<1>1. <<>> \in Seq(ConnOK) /\ Len(<<>>) = 0
  OBVIOUS
<1>2. DOMAIN <<>> = 1..Len(<<>>)
  BY <1>1
<1> QED
  BY <1>1, <1>2

\* A sequence of one goroutine.
LEMMA OneConn ==
  ASSUME NEW c \in ConnOK
  PROVE  <<c>> \in Seq(ConnOK) /\ DOMAIN <<c>> = {1}
<1>1. <<c>> \in Seq(ConnOK) /\ Len(<<c>>) = 1
  OBVIOUS
<1>2. DOMAIN <<c>> = 1..Len(<<c>>)
  BY <1>1
<1> QED
  BY <1>1, <1>2

\* What an update of one goroutine does to the sequence of them.
LEMMA GoesFacts ==
  ASSUME conns \in Seq(ConnOK), NEW k \in DOMAIN conns, NEW c \in ConnOK, Goes(k, c)
  PROVE  /\ conns' \in Seq(ConnOK)
         /\ DOMAIN conns' = DOMAIN conns
         /\ conns'[k] = c
         /\ \A j \in DOMAIN conns : j # k => conns'[j] = conns[j]
  BY DEF Goes

\* A goroutine that goes on from a step it had not ended at.
LEMMA ConnKeepsInv ==
  ASSUME OneWayInv, NEW k \in DOMAIN conns, NEW c \in ConnOK, Goes(k, c),
         conns[k].pc # "ended", attempts' \in Nat,
         UNCHANGED <<lan, settings, current, op, generation, quitting>>
  PROVE  OneWayInv'
<1>1. /\ conns' \in Seq(ConnOK) /\ DOMAIN conns' = DOMAIN conns
      /\ \A j \in DOMAIN conns : j # k => conns'[j] = conns[j]
  BY GoesFacts DEF OneWayInv
<1>2. k = current \/ (Is("wait") /\ k = op.waits)
  BY DEF OneWayInv
<1>3. ~lan
  BY DEF OneWayInv
<1> QED
  BY <1>1, <1>2, <1>3 DEF OneWayInv

\* A step of a goroutine opens no second way in.
LEMMA ConnStepKeepsInv ==
  ASSUME OneWayInv, NEW k \in DOMAIN conns, ConnStep(k)
  PROVE  OneWayInv'
<1> DEFINE At(c, pc) == [c EXCEPT !.pc = pc]
<1>0. conns[k] \in ConnOK /\ attempts \in Nat
  BY DEF OneWayInv
<1>1. \A pc \in {"up", "announced", "failed", "waiting", "ended"} : At(conns[k], pc) \in ConnOK
  BY <1>0 DEF ConnOK
<1> HIDE DEF At
<1>2. CASE Connects(k)
  <2>1. Goes(k, At(conns[k], "up")) /\ conns[k].pc # "ended"
    BY <1>2 DEF Connects, At
  <2> QED
    BY <1>0, <1>1, <1>2, <2>1, ConnKeepsInv DEF Connects, counters
<1>3. CASE Announces(k)
  <2>1. Goes(k, At(conns[k], "announced")) /\ conns[k].pc # "ended"
    BY <1>3 DEF Announces, At
  <2> QED
    BY <1>0, <1>1, <1>3, <2>1, ConnKeepsInv DEF Announces, counters
<1>4. CASE Ends(k)
  <2>1. Goes(k, At(conns[k], "failed")) /\ conns[k].pc # "ended"
    BY <1>4 DEF Ends, At
  <2> QED
    BY <1>0, <1>1, <1>4, <2>1, ConnKeepsInv DEF Ends, counters
<1>5. CASE Reports(k)
  <2>1. conns[k].pc # "ended" /\ UNCHANGED <<lan, settings, current, op, generation, quitting, attempts>>
    BY <1>5 DEF Reports, counters
  <2>2. Goes(k, At(conns[k], "waiting")) \/ Goes(k, At(conns[k], "ended"))
    BY <1>5 DEF Reports, At
  <2> QED
    BY <1>0, <1>1, <2>1, <2>2, ConnKeepsInv
<1>6. CASE Retries(k)
  <2> DEFINE c == [conns[k] EXCEPT !.pc = "dialling", !.link = attempts + 1]
  <2>1. c \in ConnOK
    <3>1. [conns[k] EXCEPT !.pc = "dialling"] \in ConnOK /\ attempts + 1 \in Nat
      BY <1>0 DEF ConnOK
    <3>2. c = [[conns[k] EXCEPT !.pc = "dialling"] EXCEPT !.link = attempts + 1]
      OBVIOUS
    <3> QED
      BY <3>1, <3>2 DEF ConnOK
  <2>2. Goes(k, c) /\ conns[k].pc # "ended" /\ attempts' \in Nat
    BY <1>0, <1>6 DEF Retries
  <2>3. UNCHANGED <<lan, settings, current, op, generation, quitting>>
    BY <1>6 DEF Retries
  <2> HIDE DEF c
  <2> QED
    BY <2>1, <2>2, <2>3, ConnKeepsInv
<1>7. CASE Leaves(k)
  <2>1. Goes(k, At(conns[k], "ended")) /\ conns[k].pc # "ended"
    BY <1>7 DEF Leaves, At
  <2> QED
    BY <1>0, <1>1, <1>7, <2>1, ConnKeepsInv DEF Leaves, counters
<1> QED
  BY <1>2, <1>3, <1>4, <1>5, <1>6, <1>7 DEF ConnStep

\* Cancelling goroutines changes neither how many there are nor where they are.
LEMMA CancelsFacts ==
  ASSUME OneWayInv
  PROVE  /\ Cancels(conns) \in Seq(ConnOK)
         /\ DOMAIN Cancels(conns) = DOMAIN conns
         /\ \A k \in DOMAIN conns : Cancels(conns)[k].pc = conns[k].pc
<1>1. CASE current = 0 \/ current \notin DOMAIN conns
  <2>1. Cancels(conns) = conns
    BY <1>1 DEF Cancels, OneWayInv
  <2> QED
    BY <2>1 DEF OneWayInv
<1>2. CASE current # 0 /\ current \in DOMAIN conns
  <2> DEFINE c == [conns[current] EXCEPT !.cancelled = TRUE]
  <2>1. conns[current] \in ConnOK
    BY <1>2 DEF OneWayInv
  <2>2. c \in ConnOK /\ c.pc = conns[current].pc
    BY <2>1 DEF ConnOK
  <2>3. Cancels(conns) = [conns EXCEPT ![current] = c]
    BY <1>2 DEF Cancels
  <2> HIDE DEF c
  <2> QED
    BY <1>2, <2>2, <2>3 DEF OneWayInv
<1> QED
  BY <1>1, <1>2

\* Cancelling them all, likewise.
LEMMA CancelAllFacts ==
  ASSUME OneWayInv,
         conns' = [k \in DOMAIN conns |-> [conns[k] EXCEPT !.cancelled = TRUE]]
  PROVE  /\ conns' \in Seq(ConnOK)
         /\ DOMAIN conns' = DOMAIN conns
         /\ \A k \in DOMAIN conns : conns'[k].pc = conns[k].pc
<1>1. conns \in Seq(ConnOK) /\ DOMAIN conns = 1..Len(conns) /\ Len(conns) \in Nat
  BY DEF OneWayInv
<1>2. \A k \in DOMAIN conns :
        /\ [conns[k] EXCEPT !.cancelled = TRUE] \in ConnOK
        /\ [conns[k] EXCEPT !.cancelled = TRUE].pc = conns[k].pc
  <2> TAKE k \in DOMAIN conns
  <2>1. conns[k] \in ConnOK
    BY <1>1
  <2> QED
    BY <2>1 DEF ConnOK
<1>3. conns' \in [1..Len(conns) -> ConnOK]
  BY <1>1, <1>2
<1>4. conns' \in Seq(ConnOK)
  BY <1>1, <1>3
<1> QED
  BY <1>2, <1>4

-----------------------------------------------------------------------------
\* There is one way in at most at the start.
LEMMA InitHasOneWay == AccessInit => OneWayInv
<1> SUFFICES ASSUME AccessInit PROVE OneWayInv
  OBVIOUS
<1>1. NewConn(1, 1, FALSE) \in ConnOK
  BY DEF NewConn, ConnOK
<1>2. lan => settings.mode = "lan"
  BY DEF AccessInit
<1>3. settings.mode = "lan" => ~NeedsConnection(settings)
  BY DEF NeedsConnection
<1>4. \/ conns = <<>> /\ current = 0
      \/ NeedsConnection(settings) /\ conns = <<NewConn(1, 1, FALSE)>> /\ current = 1
  BY DEF AccessInit
<1>5. generation = 1 /\ attempts \in Nat /\ quitting = FALSE /\ op.kind = "none"
  BY DEF AccessInit
<1>6. CASE conns = <<>> /\ current = 0
  BY <1>2, <1>5, <1>6, NoConns DEF OneWayInv
<1>7. CASE NeedsConnection(settings) /\ conns = <<NewConn(1, 1, FALSE)>> /\ current = 1
  <2>1. conns \in Seq(ConnOK) /\ DOMAIN conns = {1}
    BY <1>1, <1>7, OneConn
  <2> QED
    BY <1>2, <1>3, <1>5, <1>7, <2>1 DEF OneWayInv
<1> QED
  BY <1>4, <1>6, <1>7

\* Starting an operation, and each of its steps before the connection's turn.
LEMMA QuietKeepsInv ==
  ASSUME OneWayInv, ~Is("wait"), ~(Is("wait"))',
         Is("stop")' => ~lan' \/ op'.next.mode = "lan",
         lan' => lan,
         UNCHANGED <<settings, generation, quitting, conns, current, attempts>>
  PROVE  OneWayInv'
  BY DEF OneWayInv

\* A change of the settings, and each of its steps.
LEMMA EditKeepsInv ==
  ASSUME OneWayInv, EditStep
  PROVE  OneWayInv'
<1>1. CASE Save
  <2>1. op'.next = op.next /\ op'.step = (IF op.next.mode # "lan" THEN "disable" ELSE "stop")
    BY <1>1 DEF Save
  <2>2. op.kind = "edit" /\ op.step = "save"
    BY <1>1 DEF Save
  <2> QED
    BY <1>1, <2>1, <2>2, QuietKeepsInv DEF Save, counters
<1>2. CASE SaveFails
  BY <1>2, QuietKeepsInv DEF SaveFails, counters
<1>3. CASE Disable
  BY <1>3, QuietKeepsInv DEF Disable, counters
<1>4. CASE DisableFails
  BY <1>4, QuietKeepsInv DEF DisableFails, counters
<1>5. CASE Stop
  <2>1. op'.kind = op.kind /\ op'.step = "wait" /\ op'.waits = current /\ op'.next = op.next
    BY <1>5 DEF Stop
  <2>2. /\ conns' \in Seq(ConnOK) /\ DOMAIN conns' = DOMAIN conns
        /\ \A k \in DOMAIN conns : conns'[k].pc = conns[k].pc
    BY <1>5, CancelsFacts DEF Stop
  <2>3. lan => conns' = <<>>
    BY <2>2 DEF OneWayInv
  <2>4. /\ op.kind = "edit" /\ op.step = "stop"
        /\ generation' = generation + 1 /\ current' = 0
        /\ UNCHANGED <<settings, quitting, lan, attempts>>
    BY <1>5 DEF Stop, counters
  <2> QED
    BY <2>1, <2>2, <2>3, <2>4 DEF OneWayInv
<1>6. CASE Start
  <2>1. /\ op.kind = "edit" /\ op.step = "wait"
        /\ ~(Is("wait"))' /\ ~(Is("stop"))'
        /\ UNCHANGED <<quitting, lan>> /\ settings' = op.next
    BY <1>6 DEF Start
  <2>2. \A k \in DOMAIN conns : conns[k].pc = "ended"
    BY <1>6, <2>1 DEF Start, HasEnded, OneWayInv
  <2>3. current = 0 /\ (lan => conns = <<>> /\ op.next.mode = "lan")
    BY <2>1 DEF OneWayInv
  <2>4. generation' = generation + 1
    BY <1>6 DEF Start, StartLocked
  <2>5. CASE ~op.restart /\ NeedsConnection(op.next)
    <3> DEFINE c == NewConn(generation + 1, attempts + 1, quitting)
    <3>1. c \in ConnOK
      BY DEF c, NewConn, ConnOK, OneWayInv
    <3>2. conns' = Append(conns, c) /\ current' = Len(conns) + 1 /\ attempts' = attempts + 1
      BY <1>6, <2>5 DEF Start, StartLocked
    <3>3. ~lan
      BY <2>3, <2>5 DEF NeedsConnection
    <3> HIDE DEF c
    <3>4. conns' \in Seq(ConnOK) /\ \A k \in DOMAIN conns' : k = current' \/ conns'[k].pc = "ended"
      BY <2>2, <3>1, <3>2 DEF OneWayInv
    <3> QED
      BY <2>1, <2>4, <3>2, <3>3, <3>4 DEF OneWayInv
  <2>6. CASE ~(~op.restart /\ NeedsConnection(op.next))
    <3>1. UNCHANGED <<attempts, conns, current>>
      BY <1>6, <2>6 DEF Start, StartLocked
    <3> QED
      BY <2>1, <2>2, <2>3, <2>4, <3>1 DEF OneWayInv
  <2> QED
    BY <2>5, <2>6
<1>7. CASE Commit
  BY <1>7, QuietKeepsInv DEF Commit, counters
<1> QED
  BY <1>1, <1>2, <1>3, <1>4, <1>5, <1>6, <1>7 DEF EditStep

\* Every step keeps it.
LEMMA NextKeepsInv ==
  ASSUME OneWayInv, [AccessNext]_accessVars
  PROVE  OneWayInv'
<1>1. CASE \E k \in DOMAIN conns : ConnStep(k)
  BY <1>1, ConnStepKeepsInv
<1>2. ASSUME NEW mode \in Modes, NEW gate \in Gates \union {NoGate}, Configure(mode, gate)
      PROVE  OneWayInv'
  BY <1>2, QuietKeepsInv DEF Configure
<1>3. CASE Reconnect
  <2>1. op.kind = "none" /\ op'.step = "stop" /\ op'.next = settings
    BY <1>3 DEF Reconnect
  <2>2. lan => settings.mode = "lan"
    BY DEF OneWayInv
  <2> QED
    BY <1>3, <2>1, <2>2, QuietKeepsInv DEF Reconnect
<1>4. CASE EditStep
  BY <1>4, EditKeepsInv
<1>5. CASE Quit \/ Close
  <2>1. /\ conns' \in Seq(ConnOK) /\ DOMAIN conns' = DOMAIN conns
        /\ \A k \in DOMAIN conns : conns'[k].pc = conns[k].pc
    BY <1>5, CancelAllFacts DEF Quit, Close
  <2>2. lan => conns' = <<>>
    BY <2>1 DEF OneWayInv
  <2>3. /\ UNCHANGED <<settings, current, lan, attempts>>
        /\ quitting' = quitting \/ quitting' = TRUE
        /\ generation' = generation \/ generation' = generation + 1
    BY <1>5 DEF Quit, Close, counters
  <2>4. op' = op \/ (op.kind = "none" /\ op'.kind = "close")
    BY <1>5 DEF Quit, Close
  <2>5. quitting' \in BOOLEAN /\ generation' \in Nat
    <3>1. quitting \in BOOLEAN /\ generation \in Nat
      BY DEF OneWayInv
    <3>2. quitting' \in BOOLEAN
      BY <2>3, <3>1, Zenon
    <3>3. generation' \in Nat
      BY <2>3, <3>1
    <3> QED
      BY <3>2, <3>3
  <2>6. CASE op' = op
    BY <2>1, <2>2, <2>3, <2>5, <2>6 DEF OneWayInv
  <2>7. CASE op.kind = "none" /\ op'.kind = "close"
    BY <2>1, <2>2, <2>3, <2>5, <2>7 DEF OneWayInv
  <2> QED
    BY <2>4, <2>6, <2>7
<1>6. CASE Exit \/ Crash
  <2>1. Gone
    BY <1>6 DEF Exit, Crash
  <2>2. /\ op'.kind = "down" /\ lan' = FALSE /\ conns' = <<>> /\ current' = 0
        /\ UNCHANGED <<generation, attempts, quitting>>
    BY <2>1 DEF Gone, counters
  <2> QED
    BY <2>2, NoConns DEF OneWayInv
<1>7. CASE Boot
  <2> DEFINE s == Load(disk)
  <2>1. /\ op'.kind = "none" /\ generation' = 1 /\ quitting' = FALSE
        /\ settings' = s /\ lan' = (s.mode = "lan")
        /\ conns' = (IF NeedsConnection(s) THEN <<NewConn(1, attempts + 1, FALSE)>> ELSE <<>>)
        /\ current' = (IF NeedsConnection(s) THEN 1 ELSE 0)
        /\ attempts' = attempts + (IF NeedsConnection(s) THEN 1 ELSE 0)
    BY <1>7 DEF Boot, Boots
  <2>2. NewConn(1, attempts + 1, FALSE) \in ConnOK /\ attempts' \in Nat
    BY <2>1 DEF NewConn, ConnOK, OneWayInv
  <2>3. s.mode = "lan" => ~NeedsConnection(s)
    BY DEF NeedsConnection
  <2> HIDE DEF s
  <2>4. CASE NeedsConnection(s)
    <3>1. conns' \in Seq(ConnOK) /\ DOMAIN conns' = {1}
      BY <2>1, <2>2, <2>4, OneConn
    <3> QED
      BY <2>1, <2>2, <2>3, <2>4, <3>1 DEF OneWayInv
  <2>5. CASE ~NeedsConnection(s)
    BY <2>1, <2>2, <2>5, NoConns DEF OneWayInv
  <2> QED
    BY <2>4, <2>5
<1>8. CASE UNCHANGED accessVars
  BY <1>8 DEF OneWayInv, accessVars
<1> QED
  BY <1>1, <1>2, <1>3, <1>4, <1>5, <1>6, <1>7, <1>8 DEF AccessNext

\* The invariant always holds.
LEMMA AlwaysOneWayInv == AccessSpec => []OneWayInv
  BY InitHasOneWay, NextKeepsInv, PTL DEF AccessSpec

\* The listener and the tunnels exclude one another, and two tunnels never
\* answer at the same time, whatever is configured, reconnected, quit, killed
\* and started again in whatever order.
THEOREM OnlyOneWayIn == AccessSpec => []OneWayIn
<1>1. OneWayInv => OneWayIn
  <2> SUFFICES ASSUME OneWayInv PROVE OneWayIn
    OBVIOUS
  <2>1. \A k \in Ways : k \in DOMAIN conns /\ conns[k].pc # "ended"
    BY DEF Ways, Reachable
  <2>2. \A k \in Ways : k = current \/ (Is("wait") /\ k = op.waits)
    BY <2>1 DEF OneWayInv
  <2>3. Is("wait") => \A k \in Ways : k = op.waits
    <3>1. \A k \in DOMAIN conns : k # 0
      BY DEF OneWayInv
    <3> QED
      BY <2>1, <2>2, <3>1 DEF OneWayInv
  <2> QED
    BY <2>1, <2>2, <2>3 DEF OneWayIn, OneWayInv
<1> QED
  BY <1>1, AlwaysOneWayInv, PTL

-----------------------------------------------------------------------------
(* The helper process. *)

HIDE DEF Idle, Is, Goto
USE DEF NoHelper, NoGuardian, appVars, processVars

\* Nothing runs at the start.
LEMMA InitIsClean == CloudflareInit => CleanInv
  BY DEF CloudflareInit, CleanInv, CloudflareTypeOK

\* A step of serve or of the origin.
LEMMA AppKeepsClean == CleanInv /\ AppStep => CleanInv'
<1> SUFFICES ASSUME CleanInv, AppStep PROVE CleanInv'
  OBVIOUS
<1>1. CASE CancelParent
  BY <1>1 DEF CleanInv, CloudflareTypeOK, CancelParent, Runs
<1>2. CASE ServerFails
  BY <1>2 DEF CleanInv, CloudflareTypeOK, ServerFails, Runs, CloseInput
<1>3. CASE OriginHears
  BY <1>3 DEF CleanInv, CloudflareTypeOK, OriginHears, Runs, ShutApi
<1>4. CASE OriginCloses
  BY <1>4 DEF CleanInv, CloudflareTypeOK, OriginCloses, Runs, CloseInput
<1>5. CASE Prepare
  BY <1>5 DEF CleanInv, CloudflareTypeOK, Prepare
<1>6. CASE PrepareFails
  BY <1>6 DEF CleanInv, CloudflareTypeOK, PrepareFails
<1>7. CASE Launch
  BY <1>7 DEF CleanInv, CloudflareTypeOK, Launch
<1>8. CASE LaunchFails
  BY <1>8, ZenonT(40) DEF CleanInv, CloudflareTypeOK, LaunchFails
<1>9. CASE WriteHeader
  <2>1. CASE pipe = "open" /\ guardian # "gone"
    BY <1>9, <2>1 DEF CleanInv, CloudflareTypeOK, WriteHeader
  <2>2. CASE ~(pipe = "open" /\ guardian # "gone")
    BY <1>9, <2>2 DEF CleanInv, CloudflareTypeOK, WriteHeader
  <2> QED
    BY <2>1, <2>2
<1>10. CASE Cancelled
  BY <1>10 DEF CleanInv, CloudflareTypeOK, Cancelled
<1>11. CASE TakeUrl
  BY <1>11 DEF CleanInv, CloudflareTypeOK, TakeUrl
<1>12. CASE GuardianEnded
  BY <1>12 DEF CleanInv, CloudflareTypeOK, GuardianEnded
<1>13. CASE Leave
  BY <1>13 DEF CleanInv, CloudflareTypeOK, Leave, ShutApi
<1>14. CASE AppDies
  BY <1>14 DEF CleanInv, CloudflareTypeOK, AppDies, Runs, ShutApi, CloseInput
<1> QED
  BY <1>1, <1>2, <1>3, <1>4, <1>5, <1>6, <1>7, <1>8, <1>9, <1>10, <1>11, <1>12, <1>13, <1>14 DEF AppStep

\* A step of the guardian or the helper.
LEMMA ProcessesKeepClean == CleanInv /\ ProcessStep => CleanInv'
<1> SUFFICES ASSUME CleanInv, ProcessStep PROVE CleanInv'
  OBVIOUS
<1>1. CASE GuardianReads
  BY <1>1 DEF CleanInv, CloudflareTypeOK, GuardianReads
<1>2. CASE GuardianReadsNothing
  BY <1>2 DEF CleanInv, CloudflareTypeOK, GuardianReadsNothing
<1>3. CASE StartHelper
  BY <1>3 DEF CleanInv, CloudflareTypeOK, StartHelper
<1>4. CASE StartHelperFails
  BY <1>4 DEF CleanInv, CloudflareTypeOK, StartHelperFails
<1>5. CASE HelperConnects
  BY <1>5 DEF CleanInv, CloudflareTypeOK, HelperConnects
<1>6. CASE HelperDies
  BY <1>6 DEF CleanInv, CloudflareTypeOK, HelperDies
<1>7. CASE SendUrl
  BY <1>7 DEF CleanInv, CloudflareTypeOK, SendUrl
<1>8. CASE InputEnds
  BY <1>8 DEF CleanInv, CloudflareTypeOK, InputEnds, Terminated
<1>9. CASE StartupTimeout
  BY <1>9 DEF CleanInv, CloudflareTypeOK, StartupTimeout, Terminated
<1>10. CASE HelperObeys
  BY <1>10 DEF CleanInv, CloudflareTypeOK, HelperObeys
<1>11. CASE Reaped
  BY <1>11 DEF CleanInv, CloudflareTypeOK, Reaped
<1>12. CASE GuardianEnds
  <2>1. helper # "terminated" /\ run \notin {"returned", "left"}
    BY <1>12 DEF CleanInv, GuardianEnds
  <2>2. /\ guardian' = "gone" /\ runDir' = FALSE
        /\ helper' = helper /\ run' = run /\ api' = api /\ server' = server
        /\ origin' = origin /\ app' = app /\ pipe' = pipe /\ ready' = ready
        /\ ctx' = ctx /\ parent' = parent /\ header' = header
    BY <1>12 DEF GuardianEnds
  <2>3. CloudflareTypeOK'
    <3>1. runDir' \in BOOLEAN /\ guardian' \in {"none", "reading", "starting", "watching",
            "stopping", "removing", "gone"}
      BY <2>2
    <3> QED
      BY <2>2, <3>1 DEF CleanInv, CloudflareTypeOK
  <2> QED
    BY <1>12, <2>1, <2>2, <2>3 DEF CleanInv, GuardianEnds
<1> QED
  BY <1>1, <1>2, <1>3, <1>4, <1>5, <1>6, <1>7, <1>8, <1>9, <1>10, <1>11, <1>12 DEF ProcessStep

\* The invariant always holds.
LEMMA AlwaysClean == CloudflareSpec => []CleanInv
<1>1. CleanInv /\ UNCHANGED cloudflareVars => CleanInv'
  BY DEF CleanInv, CloudflareTypeOK, cloudflareVars
<1>2. CleanInv /\ [CloudflareNext]_cloudflareVars => CleanInv'
  BY <1>1, AppKeepsClean, ProcessesKeepClean DEF CloudflareNext
<1> QED
  BY <1>2, InitIsClean, PTL DEF CloudflareSpec

\* When serve has returned, the guardian and the helper are reaped, the run
\* directory is gone and the origin answers nobody.
THEOREM ServeLeavesNothing == CloudflareSpec => []ReturnMeansCleaned
<1>1. CleanInv => ReturnMeansCleaned
  BY DEF CleanInv, ReturnMeansCleaned
<1> QED
  BY <1>1, AlwaysClean, PTL

\* The helper is told to stop only after the origin ended its streams, unless
\* the origin's listener failed.
THEOREM OriginIsFirst == CloudflareSpec => []OriginClosesFirst
<1>1. CleanInv => OriginClosesFirst
  BY DEF CleanInv, CloudflareTypeOK, OriginClosesFirst
<1> QED
  BY <1>1, AlwaysClean, PTL

\* While serve runs and once it returned, what is still there is what should be.
THEOREM ServeAlwaysClean == CloudflareSpec => []ServeIsClean
<1>1. ReturnMeansCleaned /\ OriginClosesFirst => ServeIsClean
  BY DEF ServeIsClean
<1> QED
  BY <1>1, ServeLeavesNothing, OriginIsFirst, PTL

-----------------------------------------------------------------------------
(* Pairing. *)

\* The inductive invariant.
PairingInv ==
  /\ Sessions!TypeOK /\ Sessions!RightKeyIsTaken
  /\ guesses \in [since : 0..MaxTime, count : 0..GuessLimit]
  /\ \A q \in flight : q.n <= sent /\ q.cookie < q.n
  /\ \A b \in Browsers : cookie[b] <= sent
  /\ \A s \in DOMAIN sessions \cup DOMAIN admitted : s <= sent
  /\ \A q, r \in flight : q.n = r.n => q = r
  /\ \A q \in flight :
       /\ q.n \notin DOMAIN admitted
       /\ \A b \in Browsers : cookie[b] # q.n
       /\ \A r \in flight : r.cookie # q.n
       /\ q.answer = "none" => q.n \notin DOMAIN sessions
       /\ Sessions!Revokes(q) => q.cookie \notin DOMAIN sessions
       /\ q.kind = "pair" /\ q.answer = "done" => q.cookie \notin DOMAIN sessions
  /\ \A s \in DOMAIN sessions \cap DOMAIN admitted : sessions[s] <= admitted[s]
  /\ \A b \in Browsers :
       cookie[b] \in DOMAIN sessions /\ now < sessions[cookie[b]] => cookie[b] \in DOMAIN admitted


\* A table of sessions keeps its bounds.
TableOK(table) ==
  /\ DOMAIN table \subseteq 1..MaxRequests /\ Cardinality(DOMAIN table) <= MaxSessions
  /\ \A s \in DOMAIN table : table[s] \in 0..now + Lifetime

\* What is left of a table of sessions after some have gone.
Part(table, smaller) ==
  /\ DOMAIN smaller \subseteq DOMAIN table
  /\ \A s \in DOMAIN smaller : smaller[s] = table[s]

USE DEF Sessions!Sessions

\* The instance counts as this module does.
LEMMA SameCardinality == \A S : Sessions!Cardinality(S) = Cardinality(S)
  BY DEF Sessions!Cardinality, Cardinality

\* Fewer sessions keep the bounds.
LEMMA FewerSessions ==
  ASSUME NEW table, NEW smaller, TableOK(table), Part(table, smaller), MaxSessions \in Nat
  PROVE  TableOK(smaller)
<1>1. IsFiniteSet(1..MaxRequests)
  BY PairingBounds, FS_Interval DEF Sessions!PairingAssumption
<1>2. IsFiniteSet(DOMAIN table)
  BY <1>1, FS_Subset DEF TableOK
<1>3. Cardinality(DOMAIN smaller) <= Cardinality(DOMAIN table) /\ Cardinality(DOMAIN table) \in Nat
      /\ Cardinality(DOMAIN smaller) \in Nat
  BY <1>2, FS_Subset, FS_CardinalityType DEF Part
<1> QED
  BY <1>3 DEF TableOK, Part

\* The sessions that have not expired.
LEMMA LiveTable ==
  ASSUME NEW table
  PROVE  /\ DOMAIN Sessions!Live(table) = {s \in DOMAIN table : now < table[s]}
         /\ Part(table, Sessions!Live(table))
  BY DEF Sessions!Live, Sessions!Restrict, Part

\* One session revoked.
LEMMA WithoutTable ==
  ASSUME NEW table, NEW s
  PROVE  /\ DOMAIN Sessions!Without(table, s) = DOMAIN table \ {s}
         /\ Part(table, Sessions!Without(table, s))
  BY DEF Sessions!Without, Sessions!Restrict, Part

\* One session made.
LEMMA WithTable ==
  ASSUME NEW table, NEW s
  PROVE  /\ DOMAIN Sessions!With(table, s) = DOMAIN table \cup {s}
         /\ Sessions!With(table, s)[s] = now + Lifetime
         /\ \A t \in DOMAIN table \ {s} : Sessions!With(table, s)[t] = table[t]
  BY DEF Sessions!With

\* One more session keeps the bounds while the table is not full.
LEMMA MoreSessions ==
  ASSUME NEW table, TableOK(table), Cardinality(DOMAIN table) < MaxSessions,
         NEW s \in 1..MaxRequests, now \in Nat
  PROVE  TableOK(Sessions!With(table, s))
<1>0. MaxSessions \in Nat /\ Lifetime \in Nat /\ MaxRequests \in Nat
  BY PairingBounds DEF Sessions!PairingAssumption
<1>1. IsFiniteSet(1..MaxRequests)
  BY <1>0, FS_Interval
<1>2. IsFiniteSet(DOMAIN table)
  BY <1>1, FS_Subset DEF TableOK
<1>3. Cardinality(DOMAIN table \cup {s}) \in {Cardinality(DOMAIN table), Cardinality(DOMAIN table) + 1}
  <2>1. CASE s \in DOMAIN table
    <3>1. DOMAIN table \cup {s} = DOMAIN table
      BY <2>1
    <3> QED
      BY <3>1
  <2>2. CASE s \notin DOMAIN table
    BY <1>2, <2>2, FS_AddElement
  <2> QED
    BY <2>1, <2>2
<1>4. Cardinality(DOMAIN table) \in Nat
  BY <1>2, FS_CardinalityType
<1> DEFINE more == Sessions!With(table, s)
<1>5. /\ DOMAIN more = DOMAIN table \cup {s} /\ more[s] = now + Lifetime
      /\ \A t \in DOMAIN table \ {s} : more[t] = table[t]
  BY WithTable
<1>6. \A t \in DOMAIN more : more[t] \in 0..now + Lifetime
  BY <1>0, <1>5 DEF TableOK
<1>7. Cardinality(DOMAIN more) <= MaxSessions
  BY <1>0, <1>3, <1>4, <1>5
<1>8. DOMAIN more \subseteq 1..MaxRequests
  BY <1>5 DEF TableOK
<1> QED
  BY <1>6, <1>7, <1>8 DEF TableOK

\* No session and no request at the start.
LEMMA PairingInitHolds == Sessions!Init => PairingInv
<1> SUFFICES ASSUME Sessions!Init PROVE PairingInv
  OBVIOUS
<1>0. MaxSessions \in Nat /\ Lifetime \in Nat /\ MaxRequests \in Nat /\ GuessLimit \in Nat
      /\ MaxTime \in Nat
  BY PairingBounds DEF Sessions!PairingAssumption
<1>1. DOMAIN Sessions!NoSessions = {} /\ Cardinality({}) = 0
  BY FS_EmptySet DEF Sessions!NoSessions
<1>2. Sessions!TypeOK
  BY <1>0, <1>1, SameCardinality DEF Sessions!Init, Sessions!TypeOK
<1> QED
  BY <1>0, <1>1, <1>2 DEF Sessions!Init, PairingInv, Sessions!RightKeyIsTaken

\* Time passes.
LEMMA TickKeeps == ASSUME PairingInv, Sessions!Tick PROVE PairingInv'
<1>0. MaxSessions \in Nat /\ Lifetime \in Nat /\ MaxRequests \in Nat /\ GuessLimit \in Nat
      /\ MaxTime \in Nat
  BY PairingBounds DEF Sessions!PairingAssumption
<1>1. Sessions!TypeOK'
  BY <1>0 DEF PairingInv, Sessions!TypeOK, Sessions!Tick
<1> QED
  BY <1>0, <1>1 DEF PairingInv, Sessions!Tick, Sessions!RightKeyIsTaken, Sessions!TypeOK, Sessions!Revokes

\* A browser sends.
LEMMA SendKeeps ==
  ASSUME PairingInv, NEW b \in Browsers, NEW kind \in Sessions!Kinds, Sessions!Send(b, kind)
  PROVE  PairingInv'
<1>0. MaxSessions \in Nat /\ Lifetime \in Nat /\ MaxRequests \in Nat /\ GuessLimit \in Nat
      /\ MaxTime \in Nat
  BY PairingBounds DEF Sessions!PairingAssumption
<1> DEFINE new == [n |-> sent + 1, browser |-> b, kind |-> kind, cookie |-> cookie[b], answer |-> "none"]
<1>a. sent \in Nat /\ sent < MaxRequests
  BY <1>0 DEF Sessions!Send, PairingInv, Sessions!TypeOK
<1>b. Part(admitted, admitted') /\ \A s \in DOMAIN admitted : now < admitted[s] => s \in DOMAIN admitted'
  <2>1. CASE admitted' = admitted
    BY <2>1 DEF Part
  <2>2. CASE admitted' = Sessions!Live(admitted)
    BY <2>2, LiveTable
  <2> QED
    BY <2>1, <2>2 DEF Sessions!Send
<1>1. Part(admitted, admitted') /\ UNCHANGED <<now, sessions, guesses, cookie>>
      /\ sent' = sent + 1 /\ sent < MaxRequests /\ sent \in Nat /\ flight' = flight \cup {new}
      /\ \A s \in DOMAIN admitted : now < admitted[s] => s \in DOMAIN admitted'
  BY <1>a, <1>b DEF Sessions!Send
<1>2. TableOK(sessions) /\ TableOK(admitted)
  BY SameCardinality DEF PairingInv, Sessions!TypeOK, TableOK
<1>3. TableOK(admitted')
  BY <1>0, <1>1, <1>2, FewerSessions
<1>4. new \in Sessions!Request
  BY <1>0, <1>1 DEF Sessions!Request, PairingInv, Sessions!TypeOK
<1>5. Sessions!TypeOK'
  BY <1>0, <1>1, <1>2, <1>3, <1>4, SameCardinality DEF PairingInv, Sessions!TypeOK, TableOK
<1>6. /\ \A q \in flight : q.n <= sent /\ q.cookie < q.n /\ q.n \in Nat /\ q.cookie \in Nat
      /\ \A c \in Browsers : cookie[c] <= sent /\ cookie[c] \in Nat
      /\ \A s \in DOMAIN sessions \cup DOMAIN admitted : s <= sent /\ s \in Nat
  BY <1>0 DEF PairingInv, Sessions!TypeOK, Sessions!Request
<1>7. /\ \A q \in flight' : q.n <= sent' /\ q.cookie < q.n
      /\ \A c \in Browsers : cookie'[c] <= sent'
      /\ \A s \in DOMAIN sessions' \cup DOMAIN admitted' : s <= sent'
  BY <1>1, <1>6 DEF Part
<1>8. \A q, r \in flight' : q.n = r.n => q = r
  BY <1>1, <1>6 DEF PairingInv
<1>9. \A q \in flight' :
       /\ q.n \notin DOMAIN admitted'
       /\ \A c \in Browsers : cookie'[c] # q.n
       /\ \A r \in flight' : r.cookie # q.n
       /\ q.answer = "none" => q.n \notin DOMAIN sessions'
  <2> SUFFICES ASSUME NEW q \in flight'
               PROVE /\ q.n \notin DOMAIN admitted'
                     /\ \A c \in Browsers : cookie'[c] # q.n
                     /\ \A r \in flight' : r.cookie # q.n
                     /\ q.answer = "none" => q.n \notin DOMAIN sessions'
    OBVIOUS
  <2>1. CASE q = new
    BY <1>1, <1>6, <2>1 DEF Part
  <2>2. CASE q \in flight
    BY <1>1, <1>6, <2>2 DEF Part, PairingInv
  <2> QED
    BY <1>1, <2>1, <2>2
<1>10. \A q \in flight' :
       /\ Sessions!Revokes(q) => q.cookie \notin DOMAIN sessions'
       /\ q.kind = "pair" /\ q.answer = "done" => q.cookie \notin DOMAIN sessions'
  BY <1>1 DEF PairingInv, Sessions!Revokes
<1>11. \A s \in DOMAIN sessions' \cap DOMAIN admitted' : sessions'[s] <= admitted'[s]
  BY <1>1 DEF PairingInv, Part
<1>12. \A c \in Browsers :
       cookie'[c] \in DOMAIN sessions' /\ now' < sessions'[cookie'[c]] => cookie'[c] \in DOMAIN admitted'
  <2> SUFFICES ASSUME NEW c \in Browsers, cookie[c] \in DOMAIN sessions, now < sessions[cookie[c]]
               PROVE  cookie[c] \in DOMAIN admitted'
    BY <1>1
  <2>1. cookie[c] \in DOMAIN admitted
    BY DEF PairingInv
  <2>2. sessions[cookie[c]] <= admitted[cookie[c]]
    BY <2>1 DEF PairingInv
  <2>3. now < admitted[cookie[c]]
    BY <1>0, <2>1, <2>2 DEF PairingInv, Sessions!TypeOK
  <2> QED
    BY <1>1, <2>1, <2>3
<1>13. Sessions!RightKeyIsTaken'
  BY <1>1 DEF PairingInv, Sessions!RightKeyIsTaken
<1> QED
  BY <1>1, <1>5, <1>7, <1>8, <1>9, <1>10, <1>11, <1>12, <1>13 DEF PairingInv, Sessions!Revokes

\* What an answer to q keeps, whoever gives it.
LEMMA AnswerKeeps ==
  ASSUME PairingInv, NEW q \in flight, q.answer = "none",
         NEW answer \in {"done", "unpaired", "throttled"}, Sessions!Says(q, answer),
         UNCHANGED <<now, admitted, cookie, sent>>,
         TableOK(sessions'), guesses' \in [since : 0..MaxTime, count : 0..GuessLimit],
         q.kind = "pair" => answer # "throttled",
         \A s \in DOMAIN sessions' :
           \/ s \in DOMAIN sessions /\ sessions'[s] = sessions[s]
           \/ s = q.n /\ q.kind = "pair" /\ answer = "done",
         q.kind = "pair" /\ answer = "done" => q.cookie \notin DOMAIN sessions',
         q.kind = "logout" /\ answer = "done" => q.cookie \notin DOMAIN sessions',
         q.kind \in {"logout", "stop"} /\ answer = "unpaired" => q.cookie \notin DOMAIN sessions'
  PROVE  PairingInv'
<1>0. MaxSessions \in Nat /\ Lifetime \in Nat /\ MaxRequests \in Nat /\ GuessLimit \in Nat
      /\ MaxTime \in Nat
  BY PairingBounds DEF Sessions!PairingAssumption
<1> DEFINE new == [q EXCEPT !.answer = answer]
<1>1. flight' = (flight \ {q}) \cup {new}
  BY DEF Sessions!Says
<1>2. q \in Sessions!Request
  BY DEF PairingInv, Sessions!TypeOK
<1>3. new \in Sessions!Request /\ new.n = q.n /\ new.kind = q.kind /\ new.cookie = q.cookie
      /\ new.browser = q.browser /\ new.answer = answer
  BY <1>2 DEF Sessions!Request
<1> HIDE DEF new
<1>4. \A r \in flight' : (r \in flight /\ r # q) \/ r = new
  BY <1>1
<1>5. \A r \in flight' : \E o \in flight :
        /\ r.n = o.n /\ r.kind = o.kind /\ r.cookie = o.cookie /\ r.browser = o.browser
        /\ r = o \/ (o = q /\ r = new)
        /\ r.answer = "none" => r = o
  BY <1>3, <1>4
<1>6. TableOK(admitted')
  BY SameCardinality DEF PairingInv, Sessions!TypeOK, TableOK
<1>7. Sessions!TypeOK'
  <2>1. guesses'.since \in 0..MaxTime /\ guesses'.count \in 0..GuessLimit
    OBVIOUS
  <2>2. flight' \subseteq Sessions!Request
    BY <1>1, <1>3 DEF PairingInv, Sessions!TypeOK
  <2>3. now' \in 0..MaxTime /\ sent' \in 0..MaxRequests /\ cookie' \in [Browsers -> 0..MaxRequests]
    BY DEF PairingInv, Sessions!TypeOK
  <2> QED
    BY <1>6, <2>1, <2>2, <2>3, SameCardinality DEF Sessions!TypeOK, TableOK
<1>8. \A r \in flight' : r.n <= sent' /\ r.cookie < r.n
  BY <1>5 DEF PairingInv
<1>9. \A s \in DOMAIN sessions' \cup DOMAIN admitted' : s <= sent'
  BY DEF PairingInv
<1>10. \A r, t \in flight' : r.n = t.n => r = t
  BY <1>3, <1>4 DEF PairingInv
<1>11. \A r \in flight' :
       /\ r.n \notin DOMAIN admitted'
       /\ \A b \in Browsers : cookie'[b] # r.n
       /\ \A t \in flight' : t.cookie # r.n
  BY <1>5 DEF PairingInv
<1>12. \A r \in flight' : r.answer = "none" => r.n \notin DOMAIN sessions'
  <2> SUFFICES ASSUME NEW r \in flight', r.answer = "none" PROVE r.n \notin DOMAIN sessions'
    OBVIOUS
  <2>1. r \in flight /\ r # q
    BY <1>3, <1>4
  <2>2. r.n # q.n
    BY <2>1 DEF PairingInv
  <2> QED
    BY <2>1, <2>2 DEF PairingInv
<1>13. \A r \in flight' : r.cookie \in DOMAIN sessions' => r.cookie \in DOMAIN sessions
  <2> SUFFICES ASSUME NEW r \in flight', r.cookie \in DOMAIN sessions' PROVE r.cookie \in DOMAIN sessions
    OBVIOUS
  <2>1. r.cookie # q.n
    BY <1>5 DEF PairingInv
  <2> QED
    BY <2>1
<1>14. \A r \in flight' :
       /\ Sessions!Revokes(r) => r.cookie \notin DOMAIN sessions'
       /\ r.kind = "pair" /\ r.answer = "done" => r.cookie \notin DOMAIN sessions'
  <2> SUFFICES ASSUME NEW r \in flight'
               PROVE  /\ Sessions!Revokes(r) => r.cookie \notin DOMAIN sessions'
                      /\ r.kind = "pair" /\ r.answer = "done" => r.cookie \notin DOMAIN sessions'
    OBVIOUS
  <2>1. CASE r = new
    BY <1>2, <1>3, <2>1 DEF Sessions!Revokes, Sessions!Request, Sessions!Kinds
  <2>2. CASE r \in flight
    BY <1>13, <2>2 DEF PairingInv
  <2> QED
    BY <1>4, <2>1, <2>2
<1>15. \A s \in DOMAIN sessions' \cap DOMAIN admitted' : sessions'[s] <= admitted'[s]
  BY DEF PairingInv
<1>16. \A b \in Browsers :
       cookie'[b] \in DOMAIN sessions' /\ now' < sessions'[cookie'[b]] => cookie'[b] \in DOMAIN admitted'
  BY DEF PairingInv
<1>17. Sessions!RightKeyIsTaken'
  BY <1>3, <1>4 DEF PairingInv, Sessions!RightKeyIsTaken
<1>18. \A b \in Browsers : cookie'[b] <= sent'
  BY DEF PairingInv
<1> QED
  BY <1>7, <1>8, <1>9, <1>10, <1>11, <1>12, <1>14, <1>15, <1>16, <1>17, <1>18
     DEF PairingInv, Sessions!Revokes

\* The types of what an answer reads.
LEMMA TablesAreOK ==
  ASSUME PairingInv
  PROVE  /\ TableOK(sessions) /\ TableOK(admitted) /\ now \in Nat
         /\ Sessions!Window \in [since : 0..MaxTime, count : 0..GuessLimit]
<1>0. MaxSessions \in Nat /\ Lifetime \in Nat /\ MaxRequests \in Nat /\ GuessLimit \in Nat
      /\ MaxTime \in Nat
  BY PairingBounds DEF Sessions!PairingAssumption
<1>1. TableOK(sessions) /\ TableOK(admitted)
  BY SameCardinality DEF PairingInv, Sessions!TypeOK, TableOK
<1>2. now \in 0..MaxTime
  BY DEF PairingInv, Sessions!TypeOK
<1>3. Sessions!Window \in [since : 0..MaxTime, count : 0..GuessLimit]
  BY <1>0, <1>2 DEF Sessions!Window, PairingInv
<1> QED
  BY <1>0, <1>1, <1>2, <1>3

\* A pairing request is answered.
LEMMA PairKeeps ==
  ASSUME PairingInv, NEW q \in flight, Sessions!Pair(q)
  PROVE  PairingInv'
<1>0. MaxSessions \in Nat /\ Lifetime \in Nat /\ MaxRequests \in Nat /\ GuessLimit \in Nat
      /\ MaxTime \in Nat
  BY PairingBounds DEF Sessions!PairingAssumption
<1>1. /\ q.answer = "none" /\ q.kind \in {"pair", "guess"}
      /\ UNCHANGED <<now, admitted, cookie, sent>>
  BY DEF Sessions!Pair, Sessions!DesktopOnly
<1>2. /\ TableOK(sessions) /\ now \in Nat /\ Sessions!Window \in [since : 0..MaxTime, count : 0..GuessLimit]
      /\ guesses \in [since : 0..MaxTime, count : 0..GuessLimit]
  BY TablesAreOK DEF PairingInv
<1> DEFINE live == Sessions!Live(sessions)
<1>3. Part(sessions, live) /\ TableOK(live)
  BY <1>0, <1>2, LiveTable, FewerSessions
<1> HIDE DEF live
<1>4. CASE Sessions!Refuses(q) /\ Sessions!Says(q, "throttled") /\ guesses' = Sessions!Window /\ sessions' = live
  <2>1. q.kind # "pair"
    BY <1>4 DEF Sessions!Refuses
  <2>2. TableOK(sessions')
    BY <1>3, <1>4
  <2>3. TableOK(sessions)'
    BY <1>1, <2>2 DEF TableOK
  <2> QED
    BY <1>1, <1>2, <1>3, <1>4, <2>1, <2>2, AnswerKeeps DEF Part
<1>5. CASE /\ ~Sessions!Refuses(q) /\ Sessions!Says(q, "unpaired") /\ sessions' = live
           /\ guesses' = IF q.kind = "guess" THEN [Sessions!Window EXCEPT !.count = @ + 1] ELSE guesses
  <2>1. guesses' \in [since : 0..MaxTime, count : 0..GuessLimit]
    BY <1>0, <1>2, <1>5 DEF Sessions!Refuses
  <2> QED
    BY <1>1, <1>3, <1>5, <2>1, AnswerKeeps DEF Part
<1>6. CASE /\ Sessions!Grants(q, live) /\ Sessions!Says(q, "done")
           /\ sessions' = Sessions!Without(Sessions!With(live, q.n), q.cookie)
           /\ UNCHANGED guesses
  <2> DEFINE more == Sessions!With(live, q.n)
  <2>1. q.kind = "pair" /\ Cardinality(DOMAIN live) < MaxSessions
    BY <1>6, SameCardinality DEF Sessions!Grants
  <2>2. q.n \in 1..MaxRequests
    BY DEF PairingInv, Sessions!TypeOK, Sessions!Request
  <2>3. TableOK(more)
    BY <1>2, <1>3, <2>1, <2>2, MoreSessions
  <2>w. DOMAIN more = DOMAIN live \cup {q.n} /\ \A t \in DOMAIN live \ {q.n} : more[t] = live[t]
    BY WithTable
  <2> HIDE DEF more
  <2>4. \A s \in DOMAIN more : s = q.n \/ (s \in DOMAIN sessions /\ more[s] = sessions[s])
    BY <1>3, <2>w DEF Part
  <2>5. Part(more, sessions') /\ DOMAIN sessions' = DOMAIN more \ {q.cookie}
    BY <1>6, WithoutTable DEF more
  <2>6. TableOK(sessions')
    BY <1>0, <2>3, <2>5, FewerSessions
  <2>7. \A s \in DOMAIN sessions' : s = q.n \/ (s \in DOMAIN sessions /\ sessions'[s] = sessions[s])
    BY <2>4, <2>5 DEF Part
  <2> QED
    BY <1>1, <1>2, <1>6, <2>1, <2>5, <2>6, <2>7, AnswerKeeps
<1> QED
  BY <1>4, <1>5, <1>6 DEF Sessions!Pair, live

\* A request with a session is answered.
LEMMA UseKeeps ==
  ASSUME PairingInv, NEW q \in flight, Sessions!Use(q)
  PROVE  PairingInv'
<1>0. MaxSessions \in Nat
  BY PairingBounds DEF Sessions!PairingAssumption
<1>1. /\ q.answer = "none" /\ q.kind \in {"logout", "stop"}
      /\ UNCHANGED <<now, admitted, cookie, sent, guesses>>
  BY DEF Sessions!Use, Sessions!DesktopOnly
<1>2. TableOK(sessions) /\ guesses \in [since : 0..MaxTime, count : 0..GuessLimit]
  BY TablesAreOK DEF PairingInv
<1> DEFINE without == Sessions!Without(sessions, q.cookie)
<1>3. /\ Part(sessions, sessions) /\ Part(sessions, without)
      /\ q.cookie \notin DOMAIN without
  <2>1. Part(sessions, without) /\ DOMAIN without = DOMAIN sessions \ {q.cookie}
    BY WithoutTable
  <2> QED
    BY <2>1 DEF Part
<1> HIDE DEF without
<1>4. \/ sessions' = sessions /\ q.kind # "logout" /\ Sessions!Says(q, "done")
      \/ sessions' = without /\ \E answer \in {"done", "unpaired"} : Sessions!Says(q, answer)
  BY DEF Sessions!Use, without
<1>5. CASE sessions' = sessions /\ q.kind # "logout" /\ Sessions!Says(q, "done")
  BY <1>1, <1>2, <1>5, AnswerKeeps
<1>6. CASE sessions' = without /\ \E answer \in {"done", "unpaired"} : Sessions!Says(q, answer)
  <2>1. TableOK(sessions') /\ Part(sessions, sessions') /\ q.cookie \notin DOMAIN sessions'
    BY <1>0, <1>2, <1>3, <1>6, FewerSessions
  <2> QED
    BY <1>1, <1>2, <1>6, <2>1, AnswerKeeps DEF Part
<1> QED
  BY <1>4, <1>5, <1>6

\* A request that is over leaves nothing behind.
LEMMA LoseKeeps ==
  ASSUME PairingInv, NEW q \in flight, Sessions!Lose(q)
  PROVE  PairingInv'
<1>1. Sessions!TypeOK'
  BY DEF PairingInv, Sessions!TypeOK, Sessions!Lose
<1> QED
  BY <1>1 DEF PairingInv, Sessions!Lose, Sessions!RightKeyIsTaken, Sessions!Revokes

\* The gateway takes note of an answer, which reaches its browser or not.
LEMMA ObserveKeeps ==
  ASSUME PairingInv, NEW q \in flight, Sessions!Observe(q)
  PROVE  PairingInv'
<1>0. MaxSessions \in Nat /\ Lifetime \in Nat /\ MaxRequests \in Nat /\ GuessLimit \in Nat
      /\ MaxTime \in Nat
  BY PairingBounds DEF Sessions!PairingAssumption
<1> DEFINE live == Sessions!Live(admitted)
           table == IF Sessions!Revokes(q) THEN Sessions!Without(live, q.cookie) ELSE live
           learns == Sessions!Learns(q, table)
           rest == Sessions!Without(table, q.cookie)
           more == Sessions!With(rest, q.n)
<1>1. /\ q.answer # "none" /\ flight' = flight \ {q} /\ UNCHANGED <<now, sessions, guesses, sent>>
      /\ admitted' = IF learns THEN more ELSE table
      /\ \/ UNCHANGED cookie
         \/ learns /\ cookie' = [cookie EXCEPT ![q.browser] = q.n]
         \/ q.kind = "logout" /\ q.answer = "done" /\ cookie' = [cookie EXCEPT ![q.browser] = 0]
  BY DEF Sessions!Observe
<1>2. /\ TableOK(admitted) /\ TableOK(sessions) /\ now \in Nat
      /\ q.n \in 1..MaxRequests /\ q \in Sessions!Request
      /\ cookie \in [Browsers -> 0..MaxRequests] /\ sent \in 0..MaxRequests
  BY TablesAreOK DEF PairingInv, Sessions!TypeOK, Sessions!Request
<1>3. /\ Part(admitted, live) /\ DOMAIN live = {s \in DOMAIN admitted : now < admitted[s]}
  BY LiveTable
<1> HIDE DEF live
<1>4. /\ Part(live, table)
      /\ DOMAIN table = DOMAIN live \ (IF Sessions!Revokes(q) THEN {q.cookie} ELSE {})
  <2>1. Part(live, live)
    BY DEF Part
  <2>2. Part(live, Sessions!Without(live, q.cookie))
        /\ DOMAIN Sessions!Without(live, q.cookie) = DOMAIN live \ {q.cookie}
    BY WithoutTable
  <2> QED
    BY <2>1, <2>2
<1> HIDE DEF table
<1>5. Part(admitted, table) /\ TableOK(table)
  <2>1. Part(admitted, table)
    BY <1>3, <1>4 DEF Part
  <2> QED
    BY <1>0, <1>2, <2>1, FewerSessions
<1>6. Part(table, rest) /\ DOMAIN rest = DOMAIN table \ {q.cookie}
  BY WithoutTable
<1> HIDE DEF rest
<1>7. /\ DOMAIN more = DOMAIN rest \cup {q.n} /\ more[q.n] = now + Lifetime
      /\ \A t \in DOMAIN rest \ {q.n} : more[t] = rest[t]
  BY WithTable
<1>8. learns => q.kind = "pair" /\ q.answer = "done"
  BY DEF Sessions!Learns
<1>9. learns => TableOK(more)
  <2> SUFFICES ASSUME learns PROVE TableOK(more)
    OBVIOUS
  <2>1. TableOK(rest)
    BY <1>0, <1>5, <1>6, FewerSessions
  <2>2. IsFiniteSet(DOMAIN table)
    <3>1. IsFiniteSet(1..MaxRequests)
      BY <1>0, FS_Interval
    <3> QED
      BY <1>5, <3>1, FS_Subset DEF TableOK
  <2>3. Cardinality(DOMAIN rest) < MaxSessions
    <3>1. CASE q.cookie \in DOMAIN table
      <4>1. Cardinality(DOMAIN rest) = Cardinality(DOMAIN table) - 1
        BY <1>6, <2>2, <3>1, FS_RemoveElement
      <4>2. Cardinality(DOMAIN table) \in Nat /\ Cardinality(DOMAIN table) <= MaxSessions
        BY <1>5, <2>2, FS_CardinalityType DEF TableOK
      <4> QED
        BY <1>0, <4>1, <4>2
    <3>2. CASE q.cookie \notin DOMAIN table
      <4>1. Cardinality(DOMAIN table) < MaxSessions
        BY <3>2, SameCardinality DEF Sessions!Learns
      <4>2. DOMAIN rest = DOMAIN table
        BY <1>6, <3>2
      <4> QED
        BY <4>1, <4>2
    <3> QED
      BY <3>1, <3>2
  <2> QED
    BY <1>2, <2>1, <2>3, MoreSessions
<1> HIDE DEF more, learns
<1>10. TableOK(admitted')
  BY <1>1, <1>5, <1>9
<1>11. \A s \in DOMAIN admitted' : s \in DOMAIN table \/ (learns /\ s = q.n)
  BY <1>1, <1>6, <1>7 DEF Part
<1>12. \A s \in DOMAIN admitted' :
         admitted'[s] = now + Lifetime \/ (s \in DOMAIN admitted /\ admitted'[s] = admitted[s])
  BY <1>1, <1>5, <1>6, <1>7 DEF Part
<1>13. \A b \in Browsers : cookie'[b] = cookie[b] \/ (learns /\ cookie'[b] = q.n) \/ cookie'[b] = 0
  BY <1>1, <1>2
<1>14. cookie' \in [Browsers -> 0..MaxRequests]
  BY <1>0, <1>1, <1>2
<1>15. Sessions!TypeOK'
  <2>1. now' \in 0..MaxTime /\ sent' \in 0..MaxRequests /\ flight' \subseteq Sessions!Request
        /\ guesses'.since \in 0..MaxTime /\ guesses'.count \in 0..GuessLimit
    BY <1>1 DEF PairingInv, Sessions!TypeOK
  <2> QED
    BY <1>1, <1>2, <1>10, <1>14, <2>1, SameCardinality DEF Sessions!TypeOK, TableOK
<1>16. q.n <= sent /\ q.n # 0
  BY <1>0, <1>2 DEF PairingInv
<1>17. \A r \in flight' : r.n # q.n
  BY <1>1 DEF PairingInv
<1>18. /\ \A r \in flight' : r.n <= sent' /\ r.cookie < r.n
       /\ \A b \in Browsers : cookie'[b] <= sent'
       /\ \A s \in DOMAIN sessions' \cup DOMAIN admitted' : s <= sent'
  BY <1>1, <1>2, <1>5, <1>11, <1>13, <1>16 DEF PairingInv, Part
<1>19. \A r \in flight' :
         /\ r.n \notin DOMAIN admitted'
         /\ \A b \in Browsers : cookie'[b] # r.n
         /\ \A t \in flight' : t.cookie # r.n
         /\ r.answer = "none" => r.n \notin DOMAIN sessions'
         /\ r.n # 0
  BY <1>0, <1>1, <1>5, <1>11, <1>13, <1>17 DEF PairingInv, Part, Sessions!TypeOK, Sessions!Request
<1>20. \A s \in DOMAIN sessions' \cap DOMAIN admitted' : sessions'[s] <= admitted'[s]
  BY <1>1, <1>2, <1>12 DEF PairingInv, TableOK
<1>21. \A b \in Browsers :
         cookie'[b] \in DOMAIN sessions' /\ now' < sessions'[cookie'[b]] => cookie'[b] \in DOMAIN admitted'
  <2> SUFFICES ASSUME NEW b \in Browsers, cookie'[b] \in DOMAIN sessions, now < sessions[cookie'[b]]
               PROVE  cookie'[b] \in DOMAIN admitted'
    BY <1>1
  <2>1. CASE learns /\ cookie'[b] = q.n
    BY <1>1, <1>7, <2>1
  <2>2. cookie'[b] # 0
    BY <1>2 DEF TableOK
  <2>3. CASE cookie'[b] = cookie[b]
    <3> DEFINE s == cookie[b]
    <3>1. s \in DOMAIN admitted /\ sessions[s] <= admitted[s]
      BY <2>3 DEF PairingInv
    <3>2. now < admitted[s]
      BY <1>2, <2>3, <3>1 DEF TableOK
    <3>3. s \in DOMAIN live
      BY <1>3, <3>1, <3>2
    <3>4. Sessions!Revokes(q) \/ learns => q.cookie # s
      BY <1>8, <2>3 DEF PairingInv
    <3> QED
      BY <1>1, <1>4, <1>6, <1>7, <2>3, <3>3, <3>4
  <2> QED
    BY <1>13, <2>1, <2>2, <2>3
<1>22. /\ \A r, t \in flight' : r.n = t.n => r = t
       /\ \A r \in flight' :
            /\ Sessions!Revokes(r) => r.cookie \notin DOMAIN sessions'
            /\ r.kind = "pair" /\ r.answer = "done" => r.cookie \notin DOMAIN sessions'
       /\ Sessions!RightKeyIsTaken'
       /\ guesses' \in [since : 0..MaxTime, count : 0..GuessLimit]
  BY <1>1 DEF PairingInv, Sessions!Revokes, Sessions!RightKeyIsTaken
<1> QED
  BY <1>15, <1>18, <1>19, <1>20, <1>21, <1>22 DEF PairingInv, Sessions!Revokes

\* Pairing is sound for any number of browsers, requests and sessions (auth.go,
\* admission.go).
THEOREM PairingAlwaysSound == RemoteSpec => []PairingIsSound
<1>1. RemoteInit => PairingInv
  BY PairingInitHolds DEF RemoteInit
<1>2. PairingInv /\ [RemoteNext]_remoteVars => PairingInv'
  <2> SUFFICES ASSUME PairingInv, [RemoteNext]_remoteVars PROVE PairingInv'
    OBVIOUS
  <2>1. Sessions!Next \/ UNCHANGED pairingVars
    BY DEF RemoteNext, remoteVars
  <2>2. CASE UNCHANGED pairingVars
    BY <2>2 DEF pairingVars, PairingInv, Sessions!TypeOK, Sessions!RightKeyIsTaken, Sessions!Revokes
  <2> QED
    BY <2>1, <2>2, TickKeeps, SendKeeps, PairKeeps, UseKeeps, ObserveKeeps, LoseKeeps DEF Sessions!Next
<1>3. PairingInv => PairingIsSound
  <2> SUFFICES ASSUME PairingInv PROVE Sessions!PairedIsAdmitted
    BY DEF PairingInv, PairingIsSound
  <2>1. \A b \in Browsers : cookie[b] \in DOMAIN Sessions!Live(sessions)
          => cookie[b] \in DOMAIN sessions /\ now < sessions[cookie[b]]
    BY LiveTable
  <2>2. \A s \in DOMAIN sessions : sessions[s] \in Int /\ now \in Int
    BY DEF PairingInv, Sessions!TypeOK
  <2>3. \A s \in DOMAIN admitted : admitted[s] \in Int
    BY DEF PairingInv, Sessions!TypeOK
  <2>4. \A b \in Browsers : cookie[b] \in DOMAIN sessions /\ now < sessions[cookie[b]]
          => cookie[b] \in DOMAIN admitted /\ now < admitted[cookie[b]]
    BY <2>2, <2>3 DEF PairingInv
  <2>5. DOMAIN Sessions!Live(admitted) = {s \in DOMAIN admitted : now < admitted[s]}
    BY LiveTable
  <2> QED
    BY <2>1, <2>4, <2>5 DEF Sessions!PairedIsAdmitted
<1> QED
  BY <1>1, <1>2, <1>3, PTL DEF RemoteSpec
=============================================================================
