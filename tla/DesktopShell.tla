---------------------------- MODULE DesktopShell ----------------------------
(* The Windows desktop shell (desktop_windows.cpp) with the controller of       *)
(* playlist files (playlistfile/controller.go): one user-interface thread, its  *)
(* task queue, and the one request for a playlist dialog that both sides keep.  *)
(*                                                                              *)
(* A modal dialog, the quit confirmation and the tray menu each run a nested    *)
(* message pump inside the handler that opened them.  `pumps` is the stack of   *)
(* these: messages are handled as long as the thread lives, but a handler goes  *)
(* on only when its pump is the innermost.  A handler is otherwise one step,    *)
(* and a function from shell to shell.                                          *)
(*                                                                              *)
(* Windows may refuse any message one thread posts (its queue is full), and     *)
(* only post() looks at the answer.  The field `stranded` is history: it guards *)
(* nothing and says that the message for the next task was refused and that no  *)
(* other is to come.                                                            *)
EXTENDS Naturals, Sequences, FiniteSets

CONSTANTS
  TaskLimit,   \* length of the task queue (64 in the code)
  PostFails,   \* may Windows refuse a message that is posted?
  MaxInputs    \* bound: things people ask for

ShellAssumption ==
  TaskLimit \in Nat \ {0} /\ PostFails \in BOOLEAN /\ MaxInputs \in Nat

VARIABLES
  shell,       \* the state behind namespace desktop
  start,       \* the request being handed over, between its reservation and its end
  channel,     \* desktopPlaylistResults, of capacity one
  controller,  \* playlistfile.Controller: identity and phase of the last request
  main,        \* the loop of main.go: "running", "closing" or "ended"
  inputs       \* how much was asked for

vars == <<shell, start, channel, controller, main, inputs>>

Dialogs == {"media", "playlist"}
NoResult == [id |-> 0, outcome |-> "none"]
Outcomes == {"none", "path", "cancelled", "error"}
Phases == {"idle", "choosing", "working", "done"}
NoStart == [id |-> 0, at |-> "none"]
Ids == 0..(MaxInputs + 1)
Results == [id : Ids, outcome : Outcomes]

Task(kind, id) == [kind |-> kind, id |-> id]
Pump(kind, id, phase) == [kind |-> kind, id |-> id, phase |-> phase]

TypeOK ==
  /\ shell.tasks \in Seq([kind : Dialogs \cup {"admin"}, id : Ids]) /\ Len(shell.tasks) <= TaskLimit
  /\ shell.pumps \in Seq([kind : Dialogs \cup {"confirm", "menu"}, id : Ids,
                          phase : {"creating", "showing", "visible", "dismissed"}])
  /\ shell.wakes \in Nat /\ shell.request \in Ids /\ shell.result \in Results
  /\ \A flag \in {"ready", "stopping", "over", "ended", "scheduled", "timer", "shutdown",
                  "quitRequested", "accepted", "stranded"} : shell[flag] \in BOOLEAN
  /\ start \in [id : Ids, at : {"none", "reserved", "queued"}]
  /\ channel \in Seq(Results) /\ Len(channel) <= 1
  /\ controller \in [id : Ids, phase : Phases, closed : BOOLEAN]
  /\ main \in {"running", "closing", "ended"} /\ inputs \in 0..MaxInputs

\* what PostMessageW may answer
Posted == IF PostFails THEN BOOLEAN ELSE {TRUE}

\* The thread runs and the address of Admin is about to be registered, unless the
\* message for that was refused.
Init ==
  /\ \E posted \in Posted :
       shell = [ready |-> FALSE, stopping |-> FALSE, over |-> FALSE, ended |-> FALSE,
                scheduled |-> FALSE, timer |-> FALSE, shutdown |-> FALSE,
                quitRequested |-> FALSE, accepted |-> FALSE, stranded |-> FALSE,
                request |-> 0, result |-> NoResult, tasks |-> <<Task("admin", 0)>>,
                wakes |-> IF posted THEN 1 ELSE 0, pumps |-> <<>>]
  /\ start = NoStart /\ channel = <<>> /\ main = "running" /\ inputs = 0
  /\ controller = [id |-> 0, phase |-> "idle", closed |-> FALSE]

-------------------------------------------------------------------------------
(* Functions of the user-interface thread *)

Kinds(s) == {s.pumps[i].kind : i \in DOMAIN s.pumps}
ChooserActive(s) == Kinds(s) \cap Dialogs # {}
Confirming(s) == "confirm" \in Kinds(s)

Inner(s) == s.pumps[Len(s.pumps)]
Opened(s, pump) == [s EXCEPT !.pumps = Append(@, pump)]
Left(s) == [s EXCEPT !.pumps = SubSeq(@, 1, Len(@) - 1)]
InPhase(s, phase) == [s EXCEPT !.pumps[Len(s.pumps)].phase = phase]

Finish(s, id, outcome) ==
  IF id # 0 /\ s.request = id /\ s.result = NoResult
  THEN [s EXCEPT !.result = [id |-> id, outcome |-> outcome]]
  ELSE s

\* cancelChooser and cancelCloseConfirmation: only what is on the screen can be told
Dismissed(s) ==
  [s EXCEPT !.pumps = [i \in DOMAIN s.pumps |->
     IF s.pumps[i].kind # "menu" /\ s.pumps[i].phase = "visible"
     THEN [s.pumps[i] EXCEPT !.phase = "dismissed"]
     ELSE s.pumps[i]]]

\* told: the dialog got the message (the timer repeats one that was refused)
ShutdownUI(s, told) ==
  LET stopped == Finish([s EXCEPT !.stopping = TRUE, !.ready = FALSE], s.request, "cancelled") IN
  IF s.over THEN s
  ELSE IF ChooserActive(s) \/ Confirming(s) 
  THEN [IF told THEN Dismissed(stopped) ELSE stopped EXCEPT !.timer = TRUE]
  ELSE [stopped EXCEPT !.timer = FALSE, !.over = TRUE]

\* FinishChooser and FinishPlaylist, whichever way the handler ends (no dialog is left
\* to tell by then)
Closed(s) == IF s.stopping THEN ShutdownUI(Left(s), TRUE) ELSE Left(s)

MayOpenMedia(s) ==
  s.ready /\ ~s.stopping /\ ~ChooserActive(s) /\ ~Confirming(s) /\ s.request = 0

ChooseMedia(s) ==
  LET taken == [s EXCEPT !.scheduled = FALSE] IN
  IF MayOpenMedia(s) THEN Opened(taken, Pump("media", 0, "creating")) ELSE taken

\* slip: the prompt before closing is not counted as a dialog
OtherDialogWithoutPrompt(s) == ChooserActive(s)

OtherDialog(s) == ChooserActive(s) \/ Confirming(s)

ChoosePlaylist(s, id) ==
  IF s.request # id THEN s
  ELSE IF s.stopping \/ ~s.ready THEN Finish(s, id, "cancelled")
  ELSE IF OtherDialog(s) THEN Finish(s, id, "error")
  ELSE Opened(s, Pump("playlist", id, "creating"))

RunTask(s, task) ==
  CASE task.kind = "admin" -> [s EXCEPT !.ready = TRUE]
    [] task.kind = "media" -> ChooseMedia(s)
    [] task.kind = "playlist" -> ChoosePlaylist(s, task.id)

\* One task for one message, and a message for the next one: nobody looks whether
\* Windows took it.
DrainTasks(s, posted) ==
  LET rest == Tail(s.tasks)
      wakes == IF rest # <<>> /\ posted THEN s.wakes ELSE s.wakes - 1
  IN  IF s.stopping \/ s.tasks = <<>> THEN [s EXCEPT !.wakes = @ - 1]
      ELSE RunTask([s EXCEPT !.tasks = rest, !.wakes = wakes,
                             !.stranded = rest # <<>> /\ wakes = 0], Head(s.tasks))

Ask == inputs < MaxInputs /\ inputs' = inputs + 1
ShellOnly == UNCHANGED <<start, channel, controller, main>>
Becomes(s) == ~shell.ended /\ shell' = s /\ ShellOnly

-------------------------------------------------------------------------------
(* What the thread does by itself *)

\* slip: tasks wait until no dialog is open
MayDrainAtRest(s) == s.wakes > 0 /\ s.pumps = <<>>

MayDrain(s) == s.wakes > 0

Drain ==
  /\ MayDrain(shell)
  /\ \E posted \in Posted : Becomes(DrainTasks(shell, posted))
  /\ UNCHANGED inputs

\* the dialog exists; it is shown unless a shutdown came first
DialogIsCreated ==
  /\ shell.pumps # <<>> /\ Inner(shell).phase = "creating"
  /\ \/ /\ ~shell.stopping
        /\ Becomes(InPhase(shell, "showing"))
     \/ /\ shell.stopping
        /\ Becomes(Closed(Finish(shell, Inner(shell).id, "cancelled")))
     \/ Becomes(Closed(Finish(shell, Inner(shell).id, "error")))
  /\ UNCHANGED inputs

DialogAppears ==
  /\ shell.pumps # <<>> /\ Inner(shell).phase = "showing"
  /\ Becomes(InPhase(shell, "visible"))
  /\ UNCHANGED inputs

\* Show or MessageBox returns with a choice
Answered(s, outcome) ==
  LET inner == Inner(s) IN
  CASE inner.kind = "playlist" ->
         Closed(Finish(s, inner.id, IF s.stopping THEN "cancelled" ELSE outcome))
    [] inner.kind = "media" -> Closed(s)
    [] inner.kind = "confirm" /\ s.stopping -> ShutdownUI(Left(s), TRUE)
    [] inner.kind = "confirm" /\ outcome = "path" ->
         [Left(s) EXCEPT !.accepted = TRUE, !.quitRequested = TRUE]
    [] OTHER -> Left(s)

\* the message the shutdown posted closes the dialog
DialogObeys ==
  /\ shell.pumps # <<>> /\ Inner(shell).phase = "dismissed"
  /\ Becomes(Answered(shell, "cancelled"))
  /\ UNCHANGED inputs

HearShutdown ==
  /\ shell.shutdown
  /\ \E told \in Posted : Becomes([ShutdownUI(shell, told) EXCEPT !.shutdown = FALSE])
  /\ UNCHANGED inputs

TimerTicks ==
  /\ shell.timer /\ shell.stopping
  /\ Becomes(Dismissed(shell))
  /\ UNCHANGED inputs

\* the outer pump sees uiQuit
ThreadEnds ==
  /\ shell.over /\ shell.pumps = <<>>
  /\ Becomes([shell EXCEPT !.ended = TRUE])
  /\ UNCHANGED inputs

Thread ==
  \/ Drain \/ DialogIsCreated \/ DialogAppears \/ DialogObeys \/ HearShutdown \/ TimerTicks
  \/ ThreadEnds

-------------------------------------------------------------------------------
(* What people do on the host *)

AnswerDialog(outcome) ==
  /\ shell.pumps # <<>> /\ Inner(shell).kind # "menu" /\ Inner(shell).phase \in {"visible", "dismissed"}
  /\ Becomes(Answered(shell, outcome))
  /\ UNCHANGED inputs

ChooseMediaCommand == Ask /\ ~shell.over /\ Becomes(ChooseMedia(shell))

QuitCommand == Ask /\ ~shell.over /\ Becomes([shell EXCEPT !.quitRequested = TRUE])

OpenMenu ==
  /\ Ask /\ ~shell.over /\ "menu" \notin Kinds(shell)
  /\ Becomes(Opened(shell, Pump("menu", 0, "visible")))

LeaveMenu(chosen) ==
  /\ shell.pumps # <<>> /\ Inner(shell).kind = "menu"
  /\ Becomes(CASE chosen = "media" -> ChooseMedia(Left(shell))
               [] chosen = "quit" -> [Left(shell) EXCEPT !.quitRequested = TRUE]
               [] OTHER -> Left(shell))
  /\ UNCHANGED inputs

MayConfirm(s) ==
  /\ s.ready /\ ~s.stopping /\ ~s.quitRequested /\ ~s.accepted
  /\ ~ChooserActive(s) /\ ~Confirming(s)

CloseWindow ==
  /\ Ask /\ MayConfirm(shell)
  /\ Becomes(Opened(shell, Pump("confirm", 0, "showing")))

People ==
  \/ \E outcome \in {"path", "cancelled"} : AnswerDialog(outcome)
  \/ \E chosen \in {"none", "media", "quit"} : LeaveMenu(chosen)
  \/ ChooseMediaCommand \/ QuitCommand \/ OpenMenu \/ CloseWindow

-------------------------------------------------------------------------------
(* Requests from controllers *)

Available == shell.ready /\ ~shell.stopping

Reserve ==
  LET id == controller.id + 1 IN
  /\ Ask /\ start = NoStart
  /\ ~controller.closed /\ Available /\ controller.phase \notin {"choosing", "working"}
  /\ shell.request = 0
  /\ shell' = [shell EXCEPT !.request = id]
  /\ start' = [id |-> id, at |-> "reserved"]
  /\ UNCHANGED <<channel, controller, main>>

GiveUp == shell' = [shell EXCEPT !.request = 0] /\ start' = NoStart /\ UNCHANGED controller

\* the first half of post
Enqueue ==
  /\ start.at = "reserved"
  /\ IF shell.stopping \/ Len(shell.tasks) >= TaskLimit
     THEN GiveUp
     ELSE /\ shell' = [shell EXCEPT !.tasks = Append(@, Task("playlist", start.id))]
          /\ start' = [start EXCEPT !.at = "queued"]
          /\ UNCHANGED controller
  /\ UNCHANGED <<channel, main, inputs>>

\* PostMessage, and the controller takes note of the request
Wake ==
  /\ start.at = "queued"
  /\ shell' = [shell EXCEPT !.wakes = @ + 1, !.stranded = FALSE]
  /\ controller' = [controller EXCEPT !.id = start.id, !.phase = "choosing"]
  /\ start' = NoStart
  /\ UNCHANGED <<channel, main, inputs>>

WakeFails == PostFails /\ start.at = "queued" /\ GiveUp /\ UNCHANGED <<channel, main, inputs>>

ChooseFiles ==
  LET asked == [shell EXCEPT !.scheduled = TRUE, !.tasks = Append(@, Task("media", 0))] IN
  /\ Ask /\ Available /\ shell.request = 0 /\ ~shell.scheduled
  /\ Len(shell.tasks) < TaskLimit
  /\ \/ shell' = [asked EXCEPT !.wakes = @ + 1, !.stranded = FALSE]
     \/ PostFails /\ shell' = [asked EXCEPT !.scheduled = FALSE]
  /\ ShellOnly

TakeResult ==
  /\ main # "ended" /\ channel = <<>> /\ shell.result # NoResult
  /\ channel' = <<shell.result>>
  /\ shell' = [shell EXCEPT !.result = NoResult, !.request = 0]
  /\ UNCHANGED <<start, controller, main, inputs>>

Complete ==
  /\ main = "running" /\ channel # <<>> /\ start = NoStart
  /\ channel' = <<>>
  /\ controller' =
       IF controller.closed \/ controller.phase # "choosing" \/ Head(channel).id # controller.id
       THEN controller
       ELSE [controller EXCEPT !.phase = IF Head(channel).outcome = "path" THEN "working" ELSE "done"]
  /\ UNCHANGED <<shell, start, main, inputs>>

WorkEnds ==
  /\ controller.phase = "working"
  /\ controller' = [controller EXCEPT !.phase = "done"]
  /\ UNCHANGED <<shell, start, channel, main, inputs>>

\* a quit from the shell, from Admin or from the system ends the loop; Close waits for Start
LeaveLoop ==
  /\ main = "running" /\ start = NoStart
  /\ main' = "closing"
  /\ controller' = [controller EXCEPT !.closed = TRUE]
  /\ UNCHANGED <<shell, start, channel, inputs>>

\* the quit the shell asked for is heard
HearQuit == shell.quitRequested /\ LeaveLoop
Quit == Ask /\ main = "running" /\ start = NoStart /\ main' = "closing"
        /\ controller' = [controller EXCEPT !.closed = TRUE] /\ UNCHANGED <<shell, start, channel>>

\* Close has waited for the workers; the native loop ends, posts the shutdown and
\* joins the thread, whether or not the message was taken
PostShutdown ==
  /\ main = "closing" /\ controller.phase # "working"
  /\ main' = "ended"
  /\ \E posted \in Posted : shell' = [shell EXCEPT !.shutdown = posted]
  /\ UNCHANGED <<start, channel, controller, inputs>>

Go ==
  \/ Enqueue \/ Wake \/ WakeFails \/ TakeResult \/ Complete \/ WorkEnds \/ HearQuit \/ PostShutdown

Requests == Reserve \/ ChooseFiles \/ Quit

Next == Thread \/ People \/ Go \/ Requests

\* The thread pumps, a dialog appears and obeys, the handler of a request goes on,
\* and poller, main loop and file worker run.  Nobody has to answer a dialog or
\* leave a menu.
Fairness ==
  /\ WF_vars(Drain) /\ WF_vars(DialogIsCreated)
  /\ WF_vars(DialogAppears) /\ WF_vars(DialogObeys)
  /\ WF_vars(HearShutdown) /\ WF_vars(TimerTicks)
  /\ WF_vars(ThreadEnds) /\ WF_vars(Enqueue \/ Wake \/ WakeFails)
  /\ WF_vars(TakeResult) /\ WF_vars(Complete)
  /\ WF_vars(WorkEnds) /\ WF_vars(HearQuit)
  /\ WF_vars(PostShutdown)

Spec == Init /\ [][Next]_vars /\ Fairness

-------------------------------------------------------------------------------
(* Properties *)

\* There is never a second dialog over the first: the menus, the shortcuts, the
\* close button and requests from controllers all look before they open one
\* (chooseMedia, choosePlaylist, confirmWindowClose), and look again when their
\* turn comes inside another dialog's pump.
OneDialog == Cardinality({i \in DOMAIN shell.pumps : shell.pumps[i].kind # "menu"}) <= 1

\* A request the controller reports as choosing is somewhere: in the queue with a
\* message to come for it, in its dialog, or answered and not yet taken.  Otherwise
\* saving and loading would be refused as busy until the host restarts.  Only one
\* refused message can leave it in the queue for good: the one drainTasks posts for
\* the next task.
InQueue(id) == Task("playlist", id) \in {shell.tasks[i] : i \in DOMAIN shell.tasks}
OnScreen(id) ==
  \E i \in DOMAIN shell.pumps : shell.pumps[i].kind = "playlist" /\ shell.pumps[i].id = id

RequestIsSomewhere ==
  controller.phase = "choosing" /\ ~controller.closed =>
    \/ channel # <<>> /\ Head(channel).id = controller.id
    \/ shell.request = controller.id /\
         \/ shell.result.id = controller.id
         \/ InQueue(controller.id) /\ (shell.wakes > 0 \/ shell.stranded)
         \/ OnScreen(controller.id)

MenuOpen == "menu" \in Kinds(shell)

\* the one message of ss_windows_desktop_shutdown was refused
Untold == main = "ended" /\ ~shell.shutdown /\ ~shell.stopping

\* A shutdown ends the thread, whatever dialog is open and however it got there:
\* the join in ss_windows_desktop_shutdown returns.  Nobody has to answer the
\* dialog; only a tray menu has to be left, and Windows has to take the message
\* that announces the shutdown (the dialog may be told late).
ShutdownCompletes == []<>~MenuOpen => (main = "ended" ~> shell.ended \/ Untold)

\* Whoever asks for a playlist dialog sees it or gets an answer, even while another
\* dialog stays open unattended (the reason why drainTasks takes one task at a time),
\* unless the message for its turn is refused.
RequestIsShownOrAnswered ==
  controller.phase = "choosing" ~>
    \/ controller.phase # "choosing" \/ controller.closed \/ OnScreen(controller.id)
    \/ shell.stranded

\* Without the two exceptions: what the comments at lines 765 and 1035 of
\* desktop_windows.cpp want.  Neither holds when PostMessage can fail.
EveryRequestIsHeard ==
  controller.phase = "choosing" ~>
    controller.phase # "choosing" \/ controller.closed \/ OnScreen(controller.id)
ShutdownIsHeard == []<>~MenuOpen => (main = "ended" ~> shell.ended)

\* The file chosen in a playlist dialog is the answer to that dialog's request: the
\* identifier "is returned with selection, cancellation, or error"
\* (desktop_native.go).  It does not hold when PostMessage can fail.
ChoiceIsHeard ==
  [][AnswerDialog("path") /\ Inner(shell).kind = "playlist" /\ ~shell.stopping
     => /\ shell.result = NoResult
        /\ shell'.result = [id |-> Inner(shell).id, outcome |-> "path"]]_vars
=============================================================================
