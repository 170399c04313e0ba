# Formal model of Smart-Stage

Smart-Stage plays the audio, video and still images of a stage show on one
host. Phones and tablets press cues over the LAN, through a public gateway or
through a Cloudflare tunnel; the host decodes the media natively and shows it
on a second display. What must never go wrong is what the audience would
notice: STOP that does not stop, a picture that appears after the stage was
switched off, a screen that says "playing" when nothing plays, an update that
restarts the host during a show. And what the operator would notice the next
day: a show that was saved and is gone, an installation that no longer starts.

The centre is `internal/app.Service`, one object behind one mutex that is used
by every HTTP request, three preparation workers, the native event loop, the
updater and the host's own dialogs. Around it stand two native renderers that
run concurrently with it, and parts that share little with it: the saved
configuration, the updater, remote access, the desktop shell.

## Contents

| files | what they are |
| --- | --- |
| `ServiceState`, `Coordinator` | `app.Service`: its state and helpers, its critical sections as actions |
| `NativeScene`, `StageSystem` | the macOS renderer; service and renderer together |
| `WindowsScene`, `WindowsSystem` | the Windows renderer; the same service with it |
| `StagePictures` | picture windows and cross-fades of the Windows renderer |
| `DesktopShell`, `AdminWindow` | the Windows user-interface thread with its dialogs; the WebView of the Admin window |
| `Validation`, `RequestLog`, `LiveStatus`, `ConnectionSlots` | media checks; request identities; status streams; the bounded listener |
| `Store`, `DurableShow` | the saved configuration; what it promises |
| `UpdateManager`, `UpdateHelper`, `UpdateHandoff` | the updater of the running host; the helper that replaces it; the two in sequence |
| `RemoteAccess`, `CloudflareHelper` | modes of remote access; one account-free tunnel with its three processes |
| `Tunnel`, `Pairing` | the public gateway: requests over one connection; browser sessions |
| `MCCoordinator`, `MCStageSystem`, `MCTransport`, `MCWindowsSystem`, `MCDesktop`, `MCRemote`, `MCHost`, `*.cfg` | the instances TLC checks |
| `CoordinatorProofs` | proofs about `Coordinator`: types, the update reservation |
| `PlaybackLemmas`, `PlaybackProofs` | proofs about `Coordinator`: everything else its runs check |
| `HandoverLemmas`, `StageProofs` | proofs about `StageSystem`: its invariant, that it implements `Coordinator`, and that what the service believes comes true |
| `DesktopProofs` | proofs about `DesktopShell`, `AdminWindow` and `StagePictures` |
| `HostProofs` | proofs about `Store`, `UpdateManager`, `UpdateHelper`, `UpdateHandoff` and `RequestLog` |
| `RemoteProofs` | proofs about `RemoteAccess`, `CloudflareHelper` and `Pairing` |
| `PROJECT.json` | components, runs, mutants, the map from definitions to source lines, hazards, findings, theorems |

To repeat a run: `tlc -config Host.cfg MCHost`; the table under "Runs" names
the pairs. To repeat the proofs: `tlapm HostProofs.tla`, and so on.

A definition whose comment begins with "slip" is not part of the model: it is
the operator it precedes with a plausible mistake in it. `PROJECT.json` lists
under "mutants" which property is violated when the mistake is made.

## Inventory

Paths are relative to `src/internal` unless they say otherwise.

### Playback coordinator: `app/service.go`, `scene.go`, `transport.go`, `volume.go`, `update.go`

State (all guarded by `Service.mu`): the phase shown to controllers
(`stopped, loading, playing, paused, stopping, error`), the active cue, the
pause and seek intent; three counters, `generation`, `transportRevision` and
`stopEpoch`, that name what a request or an answer was meant for; the source
handed to the renderer (`foreground`), the image and the background with their
own sequences; the stage intent (`stageDesired`, `stageSerial`,
`stageEnablePending`) and the stage fact (`StageEnabled`); three one-slot
mailboxes to the workers; `removing`, `configBusy`, `updatePending`, `closed`;
the last scene and its revision; the log of request identities; subscribers.

Operations: PLAY (which selects, toggles, pauses, seeks or sets the volume),
STOP, Stop image, emergency stop, `loadLoop`/`prepare` and
`visualLoop`/`prepareVisual` (inspection without the lock for up to 35 s, then a
commit), `nativeEvent`, `ReserveUpdate`, `Subscribe`, `Close`.

Interaction: called by HTTP handlers, the updater and the desktop shell; calls
the renderer (`ApplyScene`) with the lock held; sends to the workers with the
lock held; receives native events on a channel.

Hard: commits of preparations that were superseded, stopped or closed meanwhile;
events of an earlier source or transport intent; one-slot sends under the lock;
an image hiding behind a cue of unknown kind, which hands the selection back to
a source that never stopped; requests repeated by a controller that got no
answer.

Correct when: the phase agrees with the work behind it, STOP is final, no send
can block, the intent shown is the intent whose acknowledgement is awaited, the
renderer was asked for what the service believes, every visible change is
announced and reaches every stream, one press acts once.

### Saved show: `app/edit.go`, `append.go`, `playlist_file.go`, stage part of `scene.go`

State: `config` (cues, cached kinds and errors, background buttons, default
background, outputs), `editMu`, `removing`, `configBusy`. Operations:
`EditPlaylist`, `AppendHostFiles`, `EditCueVolume`, `ConfigureOutputs`,
`ConfigureStage`, `Stage`, `LoadPlaylist`, and `validationLoop`. Each checks
under `mu`, works on files without it, and commits under it again. Hard: what
playback does in between; failing saves; an update reservation in between; a
result that arrives for a file a cue no longer names. Correct when: selections
name cues of the show, edits do not disturb playback they may not disturb, a
failed save changes nothing, a cached result belongs to its file.

### Native renderers: `platform/bridge_darwin.m`, `bridge_windows.cpp`, `platform_native.go`, `bridge.h`

State: the latest scene (a mailbox in front of the main thread), the applied
scene, players with what they reported, started and ended, a queue of at most
256 events; on Windows a pool of five video windows and the fade under way.
Operations: store a scene, apply it, fade, report `playing`, `paused`,
`progress`, `ended`, `error`, `stage`, `stopped`, `device-lost`, `escape`. Hard:
a scene stored between a player's readiness and its report; the queue dropping
its oldest entry; two players during a cross-fade; windows of sounds and
pictures that still fade out. Correct when: every intent of the service is
acknowledged or failed, nothing is reported on a scene it does not belong to,
and the stage settles on the picture of the newest scene.

### Desktop shell: `platform/desktop_windows.cpp`, `playlistfile/controller.go`

State: one thread with a stack of nested message pumps (dialogs, the quit
confirmation, the tray menu), its task queue, the one request for a playlist
dialog that shell and controller both keep; the WebView, its browser process and
its private profile. Hard: tasks that arrive inside a dialog's pump; Quit while
a dialog is open; late completions of asynchronous creation calls; a wake-up
that cannot be posted. Correct when: one dialog at a time, no request forgotten,
shutdown completes, nothing starts after Quit.

### Configuration store: `store/store.go`, `native_unix.go`

State: `state.json` and `state.json.bak`, on the disk and in the page cache, a
temporary file. Operations: open, save (backup, then state, each by write, sync,
rename and a flush of the directory). Hard: a crash, a power failure or a
failing system call between any two of them. Correct when: both files are always
whole, a restart finds the last saved show or one tried since.

### Sessions and pairing: `auth/auth.go`, `gateway/admission.go`

State: paired sessions with expiry (at most 128), the budgets of wrong guesses;
the gateway's own copy of the sessions. Correct when: the bounds hold, only the
right key pairs, and the gateway admits whom the desktop would.

### HTTP API: `httpapi/*.go`

Decodes requests, checks sessions and CSRF, and routes to the components above.
State: the bounded listener (`listener.go`), event streams, the listeners' life
cycle. Correct when: a connection slot is released once on every path, and
streams end so that servers can.

### Public gateway: `gateway/*.go`, `src/cmd/smartstage-gateway`

State: the tunnel of each desktop, requests in flight with bounded reply slots,
lanes reserved for STOP, counted on both sides. Operations: forward, reply,
cancel, disconnect, replace the tunnel. Hard: a slow browser against one reader
for everyone; cancellation racing the answer; lanes exhausted by incomplete
bodies; each side noticing the end of the connection by itself. Correct when:
STOP always finds a lane and is answered, and answers reach their own browser.

### Remote access: `remote/manager.go`, `cloudflared/*.go`, `src/cmd/smartstage/cloudflare.go`, `remote.go`

State: mode (LAN, gateway, Cloudflare), connection generation, published
address, restart reservation; origin server, guardian and cloudflared. Hard:
callbacks of an earlier mode; saving before a step that then fails; any process
dying while another starts. Correct when: one way in is open, the address shown
belongs to it, and no process outlives the desktop.

### Updater: `update/*.go`, `src/cmd/smartstage/main.go`

State: the manager's phase, the reservation it took from the service, the
prepared update; the helper's place in its sequence, the files it moves, the
confirmation of the new version. Hard: who owns the reservation on each failing
path; a crash between moving the old installation away and the new one in; a
confirmation that races the timeout. Correct when: the reservation is released
exactly once and one working installation exists at every point.

### The rest

`files` (host file browser), `lan`, `identity`, `locale`, `qrcode`,
`browseropen`, `gatewayinstall`, the web controllers (`web/assets`) and most of
`src/cmd`: no protocol of their own, or pure I/O. Controllers appear in the
model as senders of requests built from any older snapshot.

## What is modelled

### ServiceState

A service is one record; a helper such as `StopForeground` (the source's
`stopForegroundLocked`) is an operator from the record at entry to the record at
exit. Because the caller holds the mutex nothing can happen in between, so
composing helpers is composing functions. The field names are the source's.
Three history fields are added and never read by the code's part: `now` counts
external inputs, `offAt` and `armedAt` say when the stage was last switched off
and when the request that last switched it on was accepted; two flags observe
what no field of the source shows: `notified`, whether the critical section ran
`changedLocked`, and `wedged`, whether a mailbox was ever sent to while full.

What is abstracted: cues, paths and devices are opaque; positions, durations,
volumes, fades, labels and error texts are left out, because no control depends
on them beyond choices the actions make explicitly (a file may be anything the
decoder says, a selected output may be gone). A cancelled context is recognised
by its generation or sequence, since the source cancels exactly where it
advances them. The renderer refuses a scene only after its own `Close`, which
runs after `Service.Close`; `Halted` is that outcome.

### Coordinator

| group | actions | code |
| --- | --- | --- |
| `Commands` | `SetMasterVolume`, `PauseOrResume`, `Seek`, `Press...`, `Stop`, `EmergencyStop`, `Close` | `Play`, `transportLocked`, `Stop`, `EmergencyStop`, `Close`; `stopImageLocked` through a repeated PLAY |
| `Preparation` | `Take...`, `Finish...`, `Drop...` for loads, images, backgrounds | `loadLoop`/`prepare`, `visualLoop`/`prepareVisual` |
| `Native` | `NativeReport`, `NativeFailure`, `NativeEscape` | `eventLoop`/`nativeEvent` |
| `Update` | `ReserveUpdate`, `ReleaseUpdate` | `ReserveUpdate` and the function it returns |
| `Stage` | `StageOff`, `StageOnBegin`, `StageOnEnd`, `StageOnRefused` | `Stage` |
| `Show` | `Begin...`, `Prepare...`, `Commit...`, `Refuse`, `SaveFailed` | `editPlaylistTransactionLocked`, `ConfigureOutputs`, `ConfigureStage`, `LoadPlaylist` |

Every command is asked for under any stop epoch, generation or transport
revision up to the current one: a delayed, reordered or repeated request is one
with an older snapshot. Operations that release the mutex in the middle are
several actions; what they carry from one to the next is in `edit` (there is one
at a time, `editMu`) and in `stageCalls` (any number). Between `Take` and
`Finish` a worker is inspecting a file; what it will find is chosen when it
finishes.

The renderer is an environment in this module: it reports on the scene it was
last given or, late, on the one before; a source's report carries the current
identity and revision, or an outdated one (0); what a source says under its
newest revision agrees with the pause intent of that revision. That either
bridge is such a renderer is checked, not assumed (`CoordinatorSpec` below).

### NativeScene and StageSystem

The macOS renderer's main thread runs one task after another: apply the newest
scene, `ready` after something changed in a player, the end of a file, a
failure, a timer, Escape. Any other thread may call `ss_scene` in the middle of
a task, and a task finds out only where it calls `currentScene`. So a task is a
list of steps, `todo`, and a step is what happens from one such look to the
next; a step that finds a newer revision does nothing (`StepOvertaken`).

| in the model | in `bridge_darwin.m` |
| --- | --- |
| `wanted` | `requestedSceneRevision`, `latestCommand` |
| `renderer.applied` | `appliedSceneRevision`, `sceneGeneration`, `sceneTransportRevision` |
| `renderer.foreground` | `sceneForeground`, an `SSScenePlayer` |
| `renderer.background`, `.tail` | `sceneBackground`; `sceneRetiring` while it is audible |
| `renderer.endedID`, `.stoppedPending`, `.stageEnabled` | the statics of these names |
| `renderer.escapedAt` | `sceneEmergencyPending`, which `ss_scene` clears: the revision it was set under |
| `events` | the queue behind `emitScene`, `ss_poll` and the channel to Go, at most `EventLimit` long |
| `ApplyNothing`, `ApplyHard`, `ApplyWithoutDisplay`, `ApplyScene` | `applyScene`, by its returns |
| `Ready...` | `ready`, by its returns |
| `Finish`, `Mix`, `Emit` | `finishSceneForeground`, `mixScene`, `emitScene` |
| `Loads`, `Runs`, `Sought`, `ReachesEnd`, `Progresses` | the observers and completion handlers of a player |
| `PlayerFails`, `BackgroundFails`, `LosesDevice`, `PressEscape` | `scenePlayerFailed`, `sceneCheckDevices`, `sceneEmergency` |

Left out: pixels and gains (a fade is "still heard" or not), images, the hidden
seek that fetches the first frame of a paused video (part of loading), the list
of devices, the legacy diagnostic commands and `ss_quit`. Whether what is
replaced is audible is chosen when it was playing. The timer reports progress
only while no such report is queued: more of them change nothing.

`StageSystem` is `Coordinator` without `Native`, and `NativeScene` with `wanted`
bound to `svc.scene`: `applySceneLocked` calls `ss_scene` with the mutex held, so
storing a scene belongs to the critical section that made it. `HearEvent` is
the poller, `eventLoop` and `nativeEvent` for the oldest event. What
`NativeReport`, `NativeFailure` and `NativeEscape` allowed any renderer is now
what this one does, and `CoordinatorSpec` says it does nothing else.

### WindowsScene and WindowsSystem

The same contract on Media Foundation. One thread owns windows and sessions and
runs message handlers; `step` and `slot` say where the running handler is
between two calls of `sceneCurrent`. A source goes through `loading` (asked of
the loader thread), `incoming` (opened) and `foreground` (activated); a player
carries the operation it has asked of its session (`operation`), what the
session has yet to say, and what was reported. `ApplyScene` and its variants are
`applyScene`, `Loads` is `completeSceneLoad`, `BeginReading` to `ReadEnd` are
`pumpScenePlayback`, `Requests` is `reconcileScenePlayback`, `ReportStopped`,
`Progresses`, `SayEnd` belong to `sceneTick`. `FaultKinds` says which failures
may happen: to load a source, in its session, when windows are cleaned up, of
the display, of the gain, of a device, of a background, and Escape.

`WindowsSystem` composes it with the service as `StageSystem` does, and checks
it against the same `Coordinator`.

### StagePictures

What `WindowsScene` leaves out of the picture: which player draws into which
window (three for scenes, two for backgrounds), what a fade comes from and goes
to, what is captured when a window has to be given back, and who is halted when
no window is free. `stage` is the record of it; `ApplyScene` enters a scene as
what is in it and what changed since the one before; `Ticked` is one frame of
`visualFrame`. A fade takes as many frames as it likes. Its own faults, a
capture or a start that fails, clear the scene (`stage.lost`).

### DesktopShell and AdminWindow

`pumps` is the stack of nested message loops inside the handler that opened
them: messages are handled as long as the thread lives, a handler goes on only
when its pump is the innermost. `DrainTasks` runs one task of the queue, from
whichever pump. `start`, `channel` and `controller` are the Go side:
`Controller.Start`, the poller's result channel and the loop in `Complete`.
With `PostFails` every `PostMessageW` may be refused: in `post` (952, whose callers
undo the request), in `drainTasks` (772) and in the shutdown (1039), which ignore the
answer, and in the cancellation of a dialog, which a timer repeats (`Posted`).
`stranded` is a history field that no action reads: it says that a refusal at 772
left tasks without a message.
People open dialogs, answer them, open the tray menu and quit at any time, and
owe nothing. `AdminWindow` follows the two asynchronous creation calls of
WebView2, the browser process and its exit event, and the removal of the
profile. The macOS delegate has no such structure and is not modelled.

### Store and DurableShow

Every system call of `Save` is a step that may fail or be the last before the
process dies (`CrashProcess`) or the machine loses its power (`LosePower`).
A file has three contents: what the process sees (`seen`), what the directory
would hold if flushed now (`landing`), what a power failure leaves (`disk`); an
unsynced file may be torn. A configuration is the number of the save that made
it. `DurableShow` is the promise: one cell that holds the version saved last,
or one whose saving has been tried since and whose fate is open until the next
save or start settles it. The refinement mapping gives it the two places the
version may be found in, `disk["state"]` and `landing["state"]`.

### Updates

`UpdateManager` cuts each goroutine (check, installation, main's loop, the
restart asked for by remote access) at its critical sections; what a `defer`
releases is a step of its own. `updateReady` is the channel to main's loop,
`Drain` and `Finish` are main after it. Playback is reduced to pressing it on
and off. `UpdateHelper` has one step per rename, launch and record, each with
its failure; `at` says which version is where, `newApp` how far the new version
is, and the helper or the new version may die before every step. `Kind` is
"binary" or "bundle", which differ in what a running application keeps busy.
`UpdateHandoff` puts them in sequence: the helper runs once main has launched it
and has only its own exit left.

### Host parts: Validation, RequestLog, LiveStatus, ConnectionSlots

`Validation` is the loop over a copy of the show against edits (cloned under the
lock, saved without it, merged), level changes and playback's own inspections.
`RequestLog` takes any copy of any request at any time; the log keeps the newest
`Limit`. `LiveStatus` is one wake-up slot per stream. `ConnectionSlots` is the
accept loop of `listener.go` with connections closed by two parties at once.

### Remote parts: RemoteAccess, CloudflareHelper, Tunnel, Pairing

`RemoteAccess`: `Configure`, `Reconnect` and `Close` hold `serial` and are cut at
the critical sections of `mu`; connection goroutines of every generation live on
until they notice that they were cancelled, and their callbacks carry their
generation. Saving may fail, closing the LAN listener may fail, the host may
restart, the process may be killed. `CloudflareHelper` follows one call of
`serve` through three processes that hold each other's lifetime by a pipe.
`Tunnel` numbers requests, keeps two first-in first-out channels and both sides'
books; browsers leave or stall at any time, and each end notices the end of the
connection on its own. `Pairing` is a desktop that issues and expires sessions
and a gateway that learns them from answers it passes on.

## Runs

`MaxInputs` bounds the external inputs of one behaviour (commands, failures,
beginnings of operations); reports of the renderer, workers and the second
halves of operations are not counted, so they can always finish in every order.
Every property is about few inputs that meet: the shortest counterexample of
each mutant needs two to four.

| run | module, configuration | states | what it shows |
| --- | --- | --- | --- |
| `playback` | `MCCoordinator`, `CoordinatorPlayback.cfg` | 340 k | two cues, no edits: phase and work agree; no mailbox is full when sent to; the acknowledged intent is the shown one; the scene is the believed one; STOP is final and stays so |
| `stage` | `MCCoordinator`, `CoordinatorStage.cfg` | 560 k | stage, Escape, reservation: an old request never shows the stage again; a reserved host is idle; what controllers see changes with an announcement only, one case of the stage flag apart |
| `show` | `MCCoordinator`, `CoordinatorShow.cfg` | 1.8 M | edits, loads, outputs, failing saves: selections name cues of the show |
| `kept_cue` | `MCCoordinator`, `CoordinatorKeptCue.cfg` | violation | an edit during a replacement: a removed cue becomes active again (see "Findings") |
| `transport` | `MCTransport`, `StageTransport.cfg` | 4.8 M | service and macOS renderer: one sound, 3 inputs, 2 faults, or one moving background that comes and goes, 4 inputs: what the service believes is so; STOP is confirmed by silence, even where a newer scene fades the background out before the answer is heard |
| `screen` | `MCStageSystem`, `StageScreen.cfg` | 240 k | with stage, moving background, Escape, a queue of three: the two implement `Coordinator`; under fairness STOP is answered and an end is noticed |
| `system` | `MCStageSystem`, `StageAll.cfg` | 1.3 M | every operation from a show of one cue, 2 inputs, 1 fault, a queue of two: the inductive invariant of service and macOS renderer together |
| `lost_report` | `MCStageSystem`, `StageLostReport.cfg` | violation | PLAY and volume: an acknowledgement is lost for good (see "Findings") |
| `windows` | `MCWindowsSystem`, `WindowsStage.cfg` | 198 k | the same service over the Windows renderer with every kind of fault: refinement, belief, silence and liveness |
| `desktop` | `MCDesktop`, `Desktop.cfg` | 242 k | dialogs, tray menu and Quit on one thread, while Windows may refuse any message that is posted; the Admin browser; the pool of picture windows |
| `remote` | `MCRemote`, `Remote.cfg` | 450 k | the gateway tunnel, pairing, changes of remote mode, the Cloudflare processes |
| `host` | `MCHost`, `Host.cfg` | 171 k | saves and crashes, the update from check to confirmation, validation, repeated requests, streams, connection slots |

`playback`, `stage` and `show` each let one group of operations interleave with
the workers (`PlaybackSpec`, `StageSpec` and `ShowSpec` are disjuncts of `Next`);
`system` restricts nothing and pays with fewer inputs. Two cues are enough for
everything that needs an old and a new selection; one of them has a known kind
and the other one, in `playback` and `kept_cue`, none, so that it may turn out
to be an image. Deadlock is not checked: when the inputs are used up and the
workers are done the host rests, as it does in reality.

`desktop`, `remote` and `host` check several modules in one instance. The parts
share no variable: nothing one does can enable, disable or change a step of
another, so a property of one part holds in the product of all of them exactly
when it holds of the part alone. A behaviour therefore chooses one `part` at the
beginning, the others stay in an initial state, and TLC explores the sum of the
state spaces. Fairness is each module's own; where an action is enabled in the
initial state of a resting part its fairness is asked only of the part that
runs. Where parts do meet they are composed: `UpdateHandoff`,
`StageSystem`, `WindowsSystem`.

Bounds, and why they are enough:

- `EventLimit` is 2 to 4 instead of 256, so that the queue does overflow; in
  `lost_report` it is 8, more than that run ever queues, so that the loss shown
  there is not the queue's. `MaxFaults` bounds failures and presses of Escape.
- `store`: four saves and three crashes, so that a save can follow a start that
  followed a failed save that followed a start.
- updates: two checks beside the first, playback pressed twice; the helper has
  no loop and needs no bound.
- `validation`: two cues and two files, two edits and two requests to check: the
  second result can belong to neither the file nor the job of the first.
- request log: a limit of 2 and four identities, five of which are taken: every
  identity can be forgotten and come back.
- streams: three for two places; slots: three connections for two slots.
- tunnel: two requests, twice: two STOPs for one lane, and a STOP beside a stream
  whose answer is longer than the one reply slot. Pairing: two browsers, two
  sessions, a lifetime of one tick, one wrong guess.
- remote access: three operations, three connection attempts, two starts, two
  gateways. The Cloudflare part has no bound: one call of `serve` is finite.
- pictures: three scenes without images, two with them; the pool has its real
  size, three and two.

## Properties

`Coordinator`:

- `WorkMatchesState`: "loading" has a current job or a committed source behind
  it, "playing" and "paused" a source of the active cue, resting phases none;
  pending images and their jobs come and go together.
- `NeverWedged`: no send under the mutex can block.
- `AcksAwaited`: while playing or paused, pause, seek and revision of the
  service and of the source agree. A source left with an older revision would
  have all its reports discarded and never be acknowledged again.
- `SceneInSync`: with no preparation pending, the last scene handed to the
  renderer is the one the service believes in.
- `SelectionsExist`: every selection, and every preparation that can still
  commit, names a cue of the show.
- `ReservedIdle`, and its inductive strengthening `ReservationInv`.
- `OffIsRespected`: whoever switched the stage off last wins over every request
  accepted before.
- `StopHolds` (`StopIsFinal`, `StaysQuiet`): a step that ends in stopping or
  error under a new epoch has stopped everything, and from there only a new
  input brings anything back.
- `ChangesAreNotified`: every change controllers can see advances the state
  revision and wakes them. `View` is what `Snapshot` copies of the modelled
  state, the stage flag included. One case is excepted because it happens
  (`FlagOnly`): a native report changes the stage flag alone, in phase "loading" or
  "error", where `nativeEvent` then finds the report of no other use. The property
  says that there is no second case; see "Known deviations".

`StageSystem` and `WindowsSystem`:

- `BeliefIsReal`: once nothing is under way between the two, a source the
  service shows as playing or paused has a player, a resting service has none,
  and both agree on the stage, except while a source is being inspected: what
  fails in the scene before it is not believed then, and the scene that follows
  reports again. On Windows it holds for the faults the renderer
  reports of what plays (`HeardBeliefIsReal`); see "Known deviations".
- `StoppedIsSilent`: the service takes an event for the answer to STOP only when
  nothing plays, and nothing fades but what a newer scene than the event's has
  replaced since. There is such a case: the event is queued, the same background
  button takes the moving background away, which fades, and then the event is
  heard. No source has played since STOP, so what fades is that background.
  It takes four inputs, which `transport` has; the Windows renderer can do the
  same (`retireWithFade`), in more inputs than `windows` has.
- `CoordinatorSpec`: refinement. Every step of the two is a step of
  `Coordinator` or changes nothing in it. A fault of the renderer counts there
  as an input when it is heard, hence `MaxInputs + MaxFaults`.
- `AnswersCome` (`StopIsAnswered`, `EndIsNoticed`): "stopping" is left, and a
  source that ended by itself leaves the screens, even if a newer scene drops
  the event that said so, or the queue does.
- `SystemInv`, for every operation together: the types of both sides, the limit
  of the queue, everything `Coordinator` keeps by itself, and how the two sides
  agree: the scene handed over is numbered as the service counts (`HandedOver`),
  nothing the renderer holds, has queued as a step or has reported is newer, or
  contradicts the newest scene (`RendererIsSound`), each fault is heard at most
  once (`FaultsAreCounted`), and nothing plays while a loaded show is saved
  (`LoadRests`).
- `ReportsAreHeard`, which does not hold: see "Findings".

Desktop: `DialogsAreSound` (one dialog at a time; a request is in the queue with a
message to come for it, in its dialog or answered), `DialogsEnd` (shutdown
completes whatever is open, and a request is shown or answered even while another
dialog stays unattended); both hold while Windows may refuse any message that is
posted, but for the two whose refusal nobody looks at: after a refusal at
`desktop_windows.cpp:772` a request may be left waiting (`stranded`), after one at
1039 the thread is never told to end (`Untold`); see "Known deviations".
Of its windows: `AdminEndsCleanly` (late completions start nothing, the profile is removed when
nobody uses it, a failure leaves Reload possible), `WindowsAreShared` (no two
videos in one window, and always a window for the next), `PictureSettles` (when
scenes stop coming the stage settles on the last one's picture).

Remote: `AnswersAreOwn`, `StopHasALane`, `TunnelGoesOn` (STOP is answered
however slow other browsers are; abandoned work ends), `PairingIsSound` (whom
the desktop would accept the gateway admits; wrong guesses do not lock the key
out), `OneWayIn`, `SwitchSettles` (every change of mode ends, and then link,
disk and reservation agree with what is in force), `ServeIsClean` and
`ServeEnds` (origin before connector, everything reaped, no orphan whoever
dies).

Host: `StoreInv` and `StoreIsDurable` (both files whole, the backup one that was
in force, a restart finds what was promised), `ReservationIsOwned` (exactly one
owner, and nothing plays under it), `HelperIsSafe` (a whole installation always
there, not exchanged under its own process, two copies never run, what is
recorded is so), `UpdateSettles` (reservations come back, what is prepared is
launched or given up, the helper ends well), `ResultsAreTrue` (results belong to
their files; every cue is checked in the end), `ActsOnce`, `StreamsKeepUp`,
`SlotsComeBack`.

## Fairness

Weak, and per actor; the safety runs assume none.

- Service and renderer (`SystemFairness`): each preparation worker (inspection
  has a time limit of 35 s), the main queue or stage thread taking the newest
  scene and finishing its task, the decoder preparing, seeking, starting and
  reaching the end of a file (or failing, which is possible but never required),
  the fade timer, and the poller with `eventLoop`. None for controllers, faults
  or progress reports. `BackgroundStarts` needs it because a retiring sound
  keeps the floor until the background it yields to has started (`mixScene`).
- `DesktopShell`: the thread's messages, timer and dialogs' own handling of a
  cancellation, the controller's loop. The timer tells an open dialog every 50 ms
  to close, and Windows takes one of these messages in the end. Nobody has to
  answer a dialog or quit; `ShutdownCompletes` assumes that a tray menu is left
  again.
- `StagePictures`: loads are answered, frames are drawn, ramps end.
- `Tunnel`: both readers, the connection's two ends noticing its loss, handlers
  that were cancelled; a STOP's own body, browser and handler. Nothing of other
  browsers and handlers.
- `RemoteAccess`: an operation under way goes on, and a cancelled connection ends;
  the network owes no connection. `CloudflareHelper`: every process goes on with
  what it has begun, and a terminated helper ends (`process_unix.go` kills it
  after a grace period).
- `UpdateManager`: its goroutines have time limits, and `Close` waits two seconds.
  `UpdateHelper`: its waits have deadlines.
- `Validation`: the loop and the save under way; `LiveStatus`: each handler;
  `ConnectionSlots`: the loop, and a close that began.

Nothing is assumed of controllers, browsers, people, faults or the network.

## Theorems

Every theorem holds for all values of its module's constants: any set of cues,
any bound on inputs, saves, crashes, checks or operations. TLC checks each
inductive invariant or what follows from it in the runs above.

### The update reservation: `CoordinatorProofs`

From `CueAssumption` (the empty identity is no cue) and `ShowAssumption` (the
saved show is well formed):

- `InvariantHolds`: `Spec => []ReservationInv`
- `TypeCorrect`: `Spec => []TypeOK`
- `ReservationHolds`: `Spec => []ReservedIdle`

`ReservedIdle` is not inductive. A reservation is granted in phase "stopped";
that nothing plays then needs "a resting phase has no source and no active cue";
that no load can commit needs only the phase; that no image can commit needs
"an image job under way is the current one only while an image is pending", with
the order of job and sequence; that the display stays dark needs "the scene the
renderer holds shows the stage only if it is wanted", because the renderer
reports on that scene; that an ended source leaves no active cue when an image
hands the selection back needs "no source is identified by 0" and "no source, no
cue". `Settled` collects these, `InStep` is the part about the scene.
`CoordinatorProofs` shows first that every helper keeps the records well formed and
preserves `Settled` and `InStep`, under what its callers guarantee, then has one
step per action. The proof made one dependency visible that the code does not state: `nativeEvent` accepts
`stageEnabled` from any report on the current revision, so the reservation
relies on the renderer never reporting a shown stage for a scene that hides it
(`Honest`).

### Playback: `PlaybackLemmas`, `PlaybackProofs`

From the same two assumptions:

- `PlaybackHolds`: `Spec => []PlaybackInv`, and from it `WorkHolds`,
  `NeverBlocks`, `AcksHold`, `SceneHolds`, `SelectionsHold`, `OffHolds`: every
  safety invariant of the `Coordinator` runs for every set of cues.
- `StopFinal`, `QuietStays`, both as `StopsHold`, and `ChangesNotified`: the
  action properties. `ChangesNotified` needs to know where a report that changes the
  stage flag may be passed over in silence: what a playing source can report is
  always announced, nothing that rests has a source, and the renderer does not
  say "stopped" of a scene that has one (`Names`: the scene names the source that
  plays), which leaves "loading" and "error" (`PassedOver`).

`PlaybackInv` is `ReservationInv` with seven parts, each about one concern and
each a relation between the service and the jobs that prepare for it, because
none of the invariants is inductive by itself:

- `LoadsAgree` (foreground): that "loading" has work behind it is kept by a
  newer load only if the mailbox holds the newest tag and its worker an older
  one; that a phase shown as playing is the source's needs the source's cue,
  pause, seek and revision to be those of the service, across the path on which
  an image hands the selection back.
- `~s.wedged`: a send finds its slot free because `invalidateLocked` drained it
  in the same critical section.
- `ImagesAgree`, `BackgroundsAgree`: a current job prepares what is pending, so
  a result that passes the tag test is the one asked for.
- `OffHonoured`: every request that could still show the stage (mailbox, worker,
  image job, Stage call waiting for the stage lock) was accepted after the last
  time the stage was switched off, or carries a serial given up since. Each of
  the four sources alone can break `OffIsRespected`, so all of them are in it.
- `SelectionsAgree`: an edit that saves outside the lock removes nothing that is
  selected, because `validateSelectionsLocked` marked it before (`removing`) and
  every selection tests the mark.
- `SceneAgrees`: a helper that changes what is on stage without a new scene
  leaves a preparation pending that ends in one.

`PlaybackLemmas` proves the parts helper by helper, with one lemma on which
fields each helper leaves alone, so that a part is proved only for the helpers
that write what it reads; `PlaybackProofs` has one lemma per action. The action
properties use `Proper`: what a critical section that starts in a `PlaybackInv`
state does to the epoch, the clock and the view.

### Service and macOS renderer: `HandoverLemmas`, `StageProofs`

From the same assumptions and `RendererAssumption` (the video backgrounds are
cues, the queue holds at least one event):

- `SystemHolds`: `SystemSpec => []SystemInv`
- `SystemImplementsCoordinator`: `SystemSpec => CoordinatorSpec`
- `SystemIsSafe`: with this renderer, the safety invariants of `Coordinator`.
- `BeliefAlwaysReal`: `SystemSpec /\ [](Len(events) < EventLimit) => []BeliefIsReal`.
  The hypothesis is what `BeliefIsReal` needs of the code: the queue drops its
  oldest event at 256, and the event dropped may be the one that would have told.
- `StoppedAlwaysSilent`: `SystemSpec => StoppedIsSilent`, whatever plays, fails or
  is dropped.

`Coordinator` lets a renderer report whatever names the source or the scene the
service holds (`Reports`). That the bridge says no more is not inductive: an
event lies in the queue while scenes and selections change, a step of a task
runs after other scenes were stored, and `nativeEvent` reads the phase at the
time it hears. So the invariant speaks of every step and every event wherever it
lies, in terms that survive the service's going on:

- `HandedOver`: what was handed over last carries the service's numbers, its
  source and its intent. Every critical section keeps it, and never takes a
  number back (`Onward`); `HandoverLemmas` proves both helper by helper, as
  `Follows`.
- `Known(svc, id)`: a source the renderer may know is no newer than the
  generation, and is not that generation while it is still being inspected. This
  is what makes an event of a replaced source harmless for good.
- of the newest scene only: what a player, a step or an event says agrees with
  it (`Fits`). A newer scene makes it void, because revisions only grow.
- `FaultsAreCounted`: a fault passes from the player to the task and from there
  to the queue, so it is an input of `Coordinator` once.
- `LoadRests`: a loaded show is committed without a new scene for the source,
  which is right only because nothing has begun to play since `configBusy` was
  set, whatever the renderer reported meanwhile.

`StageProofs` has one lemma per action of the renderer; they share what a step
must show between two scenes (`KeepsBoth`) and when it applies one
(`AppliedKeeps`). An event that is heard is then matched with a report of
`Coordinator` that has the same effect (`Heard`): under its own revision if that
is the newest, otherwise under the one before, since `nativeEvent` asks only
whether the scene is the newest. The remaining lemmas
show that the operators of `Coordinator` do not depend on `MaxInputs`, which the
mapping raises by `MaxFaults`.

`BeliefIsReal` speaks of quiet moments only. `BeliefInv`, inductive together with
`SystemInv`, says what holds between them: whatever the service believes of its
newest scene and is not so, something on its way will tell (`Due`: the steps of
the running task and the events in the queue). A source without a player has its
failure or its end due, the whole scene has failed, or everything was wiped by
Escape or a lost device (`SourceIsBelieved`); a stage that is not as believed has
its report due (`StageIsBelieved`); and what the events say of the stage is so
(`EventsAreTrue`). That the service then listens needs `Trusts`: the source it
waits for was asked under its newest intent, and a scene that shows the stage
carries its generation, without which `nativeEvent` would pass over the failure.

- Every critical section of the service hands over a scene under its own
  generation, which makes all that was due void and the scene unapplied, or
  changes nothing the reports depend on (`Calm`, helper by helper in
  `HandoverLemmas`). `LoadIsDark` covers the one that replaces the whole show.
- An event that leaves the queue makes the service hand over a scene, or is one
  it may pass over, or notes the stage it names (`EventTells`).
- A step of the renderer within a task keeps what is due (`BelievesOn`); one that
  applies a scene starts anew (`BelievesAnew`). A scene is left out only for an
  Escape the service has yet to hear of (`Attempts`).


`StoppedIsSilent` speaks of the step in which the answer is heard; what makes it
true happened before. `SilenceInv` follows the answer: while STOP waits for it,
a "stopped" of the service's generation that is still a step of the running task
finds nothing playing and nothing fading, and one in the queue was said under a
scene no newer than the applied one and was followed by nothing but fades of
newer scenes (`AnswersAreSilent`, `SaidInOrder`).

- The service begins to stop under a newer generation than any it had
  (`StopsAnew`, helper by helper), and nobody says a generation newer than the
  service's (`SystemInv`): no old "stopped" can be taken for the new answer.
- Within one scene no step of the renderer begins to play or to fade once the
  answer is resolved (`StepIsSilent`); a new scene throws the running task away
  and makes what is queued older than itself (`TurnIsSilent`).
- The answer is resolved only by a hard scene, which has torn everything down, and
  in `completeSceneFade`, with nothing audible.
- No other event turns "stopping" into "stopped" (`AnswerIsStopped`).

TLC checked `BeliefInv` and `SilenceInv` as invariants on the bounds of the runs before
they were proved.

### The saved show: `HostProofs`

From `BoundAssumption`: `StoreHolds` (`StoreTypeOK /\ StoreInv`),
`AlwaysReadable`, `BackupIsGood`, `BackupIsKept` and `StoreImplementsPromise`
(`StoreSpec => StoreIsDurable`: every step of a save, a start or a crash is a
step of `DurableShow` or a stutter). That both files are whole is not inductive:
it needs "what is about to be renamed was synced", and the mapping needs "while a
save has not renamed the state file, no place holds the version being saved",
so that the version counts as tried from that rename on and not before.

### The updater and request identities: `HostProofs`

- `OneOwner`, `PlaybackWaits` and both as `AlwaysOwned`. `OwnerInv` adds who may
  be at work in which phase and that a reservation held while main still loops
  has an owner (`Owned`): each goroutine releases what it took because nobody
  else can have taken it over.
- `AlwaysRecoverable`, `OneCopyAlways`, `OutcomeAlwaysTrue`,
  `FilesRestWhileItRuns`, and all of them as `HelperAlwaysSafe`.
  `RecoverableInv` says at each place in the helper's sequence which version
  lies where and that no copy of the application runs while files move.
- `UpdateAlwaysSettled`: when the process is over no prepared update is left
  behind. `SettledInv` says who still has to launch or abort it while the
  manager closes. `HelperAlwaysEndsWell`: `EndsInv` adds to `RecoverableInv` what
  the helper has recorded or started by each of its last steps.
- `UpdateIsBoth`: the composition implements both halves
  (`UpdateSpec => ManagerSpec /\ HelperSpec`), so what is proved of each holds of
  an update as a whole: `UpdateIsSafe`.
- `PressesActOnce`: a request that is repeated within the window acts once. The
  invariant `LogInv` says that the queue of kept identities is the end of the
  history of all accepted ones and that the map has exactly these keys.

### Remote access: `RemoteProofs`

- `OnlyOneWayIn`: one connection at most, and none beside an open LAN listener.
  `OneWayInv` adds that a connection that has not ended is the current one or
  the one the operation under way waits for, and that the LAN listener is open
  only before the first connection of the process.
- `ServeLeavesNothing`, `OriginIsFirst` and both as `ServeAlwaysClean`. When
  `serve` has returned no process and no directory is left: that needs the
  guardian's place in its sequence to say whether cloudflared lives (`CleanInv`).
- `PairingAlwaysSound`: the gateway admits whom the desktop would, and guesses
  never lock out the key. An answer of the desktop and its arrival at the gateway
  are apart, and others overtake it, so `PairingInv` says what every answer in
  flight may still do to the gateway's table. Every request has a number of its
  own, which is in no cookie and not in the table before its answer arrives; an
  answer that revokes a session, or comes with a new pairing, names a cookie that
  is no longer among the desktop's sessions; and the gateway keeps an entry at
  least as long as the desktop keeps the session.

### Windows desktop: `DesktopProofs`

From the assumptions of the three modules. The windows are any finite sets of at
least three and two.

- `DialogsAlwaysSound`: never a second dialog over the first, and every request
  is somewhere between the caller and the dialog. The invariant follows a request
  through the queue, the nested message loop of a dialog, and the shutdown that
  overtakes it; a queue that is not empty has a message to come or was left without
  one by a refusal in `drainTasks`, and by nothing else (`HandedOverInv`).
- `AdminAlwaysEndsCleanly`: the asynchronous creation of the WebView against the
  end of the host.
- `WindowsAlwaysShared`: no two videos draw into one window, and none is refused
  for want of one. `availableVideoSurface` looks at the players only, so the
  invariant says which players a request still due, a tail and a fade may hold at
  the same time. From that follows by counting who can hold a window at that
  moment that one is left (`SourcesHaveOne`, `BackgroundsHaveOne`).

### What is only model-checked

The other properties, on the bounds above: those of the Windows renderer, the
liveness of the macOS renderer (`AnswersCome`), and the parts of `MCHost` and
`MCRemote` not named here. Liveness and enabledness cannot be stated to the provers at hand.
Neither can induction over data, so what the recursive definitions compute is
checked on the instances' inputs only; no module with a theorem has a recursive
operator. Safety properties that could be proved next are listed under "Plan".

## Findings

`kept_cue` (`app/edit.go:136`): cue A plays; PLAY of a cue B of unknown kind
makes B active in phase "loading" while A stays audible. An edit that removes A
is accepted, because it is compared with the active cue only. If B then proves
to be an image, the selection goes back to A, which the show no longer has:
`edit.go:138` tells the operator to stop a cue before removing it, and
`docs/api.md:254` promises 409 for the removal of an active cue.

`lost_report` (`bridge_darwin.m:1537`, and `1525` for a pause): `ready` marks
the player as reported and then calls `emitScene`, which says nothing if a newer
scene was stored in between. A master volume change stores one without a new
transport revision; when it is applied, the mark stays, and nothing is reported
again. The cue plays and the service says "loading", progress included, until
the next pause, seek, STOP or end. `bridge.h:37` promises that playing and
paused acknowledge the transport, `docs/api.md:176` that the state follows the
engine. Clearing the mark when `emitScene` returns without an event, or when a
newer revision is applied, would repair it.

## Known deviations

The modules state a few more things that documents, comments or tests say of
this code and that the models refute. No configuration lists them. To see a
counterexample, add the definition to the configuration named with it: as an
INVARIANT, or as a PROPERTY where it has a box or `~>`. Those of `DesktopShell` and
`Tunnel` are reached through the instances `Shell` of `MCDesktop` and `Lanes` of
`MCRemote`, so they need a definition of their own there first.

- `WindowsSystem!ReportsAreHeard` (`bridge_windows.cpp:1098`; `WindowsStage.cfg`):
  the same as `lost_report`, on Windows. The stage thread marks a report as made
  and emits it only if its scene is still the newest stored (1062-1066).
- `WindowsSystem!CompletionIsTaken` (`bridge_windows.cpp:1159`): MESessionEnded
  is taken from the session's queue and ignored when a newer scene was stored
  between the look at 1113 and the test at 1159. The session says it only once,
  so a cue kept by a volume change never completes, although
  `playback/backend.go:95-96` calls the event the authoritative completion.
- `WindowsSystem!FailuresAreHeard` (`bridge_windows.cpp:987`): a scene that cannot
  be applied is cleared and reported under its own transport revision. After a
  pause the service waits for the next one, drops the report (`service.go:668`)
  and goes on as if the source were there; `docs/media-compatibility.md:45-47`
  promises silence and blackout.
- `DesktopShell!ChoiceIsHeard` (`desktop_windows.cpp:952`; `Desktop.cfg`): a task
  stays queued although its wake-up could not be posted and the request was
  refused. The retry has the same identifier; one of the two dialogs' answers is
  lost (431-435). `desktop_native.go:55-56` promises it for each request.
- `DesktopShell!EveryRequestIsHeard` (`desktop_windows.cpp:772`; `Desktop.cfg`):
  `drainTasks` posts the message for the next task and ignores the answer. A media
  request whose own message was refused (952) leaves a task behind; a playlist
  request comes after it with the only message; the media task is taken, the
  message for the next one refused, and the playlist request waits, its controller
  "choosing", until some other task brings a message. The comment at 765-767 says that
  one task is taken at a time so that none is stranded.
- `DesktopShell!ShutdownIsHeard` (`desktop_windows.cpp:1039`; `Desktop.cfg`): the one
  message that announces the shutdown is logged as refused, and the thread is joined
  all the same: the host never ends. The comment at 1035 says that the message "is
  never dropped by the bounded ordinary-task queue", which is so; Windows may
  still refuse it. Both need `PostFails`, which `Desktop.cfg` sets.
- `Coordinator!EveryChangeIsNotified` (`app/service.go:673-678`;
  `CoordinatorStage.cfg`): `nativeEvent` stores the stage flag of any report on the
  newest scene and then returns without `changedLocked` when the report is of no
  use in this phase (682, 697, 712, 723, 733). While a cue is loading, and after a
  failure, the flag that every controller is shown (`docs/api.md:167`) may so change
  without a new revision or a wake-up; the next announced change brings it along. Every step
  out of these two phases announces itself.
- `Store!FailedSaveChangesNothing` (`store/native_unix.go:31`; `Host.cfg`): when
  the flush after the rename fails, `Save` returns an error and the service keeps
  the old show, but the file holds the refused one. `store_test.go:76` fails
  where a "failed save changed state".
- `Tunnel!StopIsTaken` (`gateway/client.go:160`; `Remote.cfg`): the desktop sends
  `done` before the deferred call that gives its lane back, so the gateway may
  admit a STOP which the desktop refuses with 429 (138-141).
  `docs/gateway-install.md:66-67` promises four reserved STOP requests.
- `CloudflareHelper!RuntimeIsRemoved` (`cloudflared/guardian.go:87`; `Remote.cfg`):
  the guardian learns its directory from the header on its standard input. If the
  application dies between 194 and 202 it returns before the deferred removal at
  96; the comment at 39-41 promises the removal.
- `UpdateManager!FailureIsRetryable` (`update/manager.go:352`; `Host.cfg`): the
  ten minutes of an attempt may end between staging and the look at the context.
  The update is then aborted without `installError`, and the phase stays
  "downloading": `busyLocked` refuses every later attempt until a restart.
  `manager_test.go:243` fails where "failed staging is not retryable".

## Not modelled

Where a component is called partly modelled in `PROJECT.json`, this is the rest:

- Service: labels, colours, positions, durations and levels; export of a show.
- Native renderers: pixels, gains, image layers of the macOS bridge, hidden
  first-frame seeks, device enumeration, cursor, Media Foundation's topology, the
  legacy diagnostic commands.
- Desktop shell: menus, icons, the queue of files opened from outside
  (`queueFiles`, `poll_files`), and the macOS delegate.
- Store: the replacement on Windows and the process lock.
- Pairing: the form used on the LAN, and budgets of guesses beyond one; gateway
  entries whose session the desktop forgot stay until they expire, and are
  refused by the desktop.
- Tunnel: registration, framing and configuration; an answer cut after it began
  ends for the browser like a short one.
- Remote access: redemption of tokens; the two states for want of configuration
  are one. `UndoMayFail` is FALSE in `Remote.cfg`: when the undo of a failed
  change cannot be saved either, the mode on the disk and the one in force differ
  until the next change. After a failed closing of the LAN listener the mode
  stays "lan" without a listener.
- Cloudflare: the download and its verification are one step that may fail; the
  guardian being killed from outside; the application dying inside that step,
  which leaves a directory.
- Updater: discovery, staging, signatures, the firewall entry, the install lock,
  removal of residue, and a copy started by hand while the helper works.
- `files`, `lan`, `identity`, `locale`, `qrcode`, `browseropen`: functions of the
  operating system's answers without state between calls. `gatewayinstall`: one
  sequence of package, service and file operations. `web/assets`: any controller,
  this one included, is a sender of requests built from an older snapshot.

Most lines of C and C++ below `src` are not the program's: 68,921 of them are the
vendored header `platform/webview2/WebView2.h`, which declares COM interfaces,
and about 2,000 are test programs, `src/scripts/native-*-windows.cpp`. The map
covers the part of `bridge_windows.cpp` and `desktop_windows.cpp` that has
behaviour of its own; a large share of the C and C++ lines can never be mapped.

## Plan

Done: the service, both renderers with refinement and liveness, the Windows
shell, the store with its abstract specification, the updater on both sides of
the hand-over, remote access, the gateway's tunnel and sessions, the small
concurrent parts of the host, and the theorems above.

Next, in this order:

1. Theorems: the refinement of the Windows system, where the service's side
   (`HandedOver`) is the same, and then its `StoppedIsSilent`; the slot counts of `ConnectionSlots`, the wake-ups
   of `LiveStatus`, the lanes of `Tunnel`.
2. The image jobs of the macOS bridge beside `NativeScene`, and `StagePictures`
   driven by `WindowsScene` instead of by scenes of its own.
3. The replacement on Windows as a second implementation of `DurableShow`.
4. `UpdateManager` with the reservation of `Coordinator` in place of its own
   `reserved` and `playing`.

Not planned: the gateway installer, the host file browser and the web
controllers, for the reasons given above.
