-------------------------- MODULE CloudflareHelper --------------------------
(***************************************************************************)
(* One account-free tunnel: cloudflareControl.serve (cmd/smartstage/       *)
(* cloudflare.go), cloudflared.Run and launchGuardian (internal/           *)
(* cloudflared/run.go, guardian.go), and the two processes they start.     *)
(*                                                                         *)
(* Three processes hold each other's lifetime.  The application serves an  *)
(* origin on loopback and starts a guardian, a copy of itself; the         *)
(* guardian starts the cloudflared helper.  The application never kills    *)
(* the guardian: it closes the guardian's standard input, and the guardian *)
(* stops its helper, removes the run directory and ends.  The operating    *)
(* system closes the same pipe when the application dies.                  *)
(*                                                                         *)
(* The model follows one call of serve.  Not modelled: the download        *)
(* (prepareBinary either yields a run directory or fails without one),     *)
(* what the two programs print, a guardian killed from outside, a          *)
(* directory the operating system refuses to remove.                       *)
(***************************************************************************)
EXTENDS Naturals

VARIABLES
  app,        \* the application's process: "runs" or "dead"
  parent,     \* the manager's context is cancelled
  ctx,        \* serve's own context is cancelled (cloudflare.go:39)
  api,        \* the remote handler: "none", "open" or "closed" (api, closed)
  server,     \* the origin's listener: "open", "failed" or "closed"
  origin,     \* the goroutine that closes the origin: "waits", "drains", "done"
  run,        \* where Run is: "preparing", "launching", "writing", "watching",
              \* "reaping", "returned"; and serve itself: "left"
  runDir,     \* the private run directory exists
  pipe,       \* the guardian's input: "none", "open" or "closed"
  header,     \* the launch message is in the pipe
  guardian,   \* "none", "reading", "starting", "watching", "stopping",
              \* "removing" or "gone"
  helper,     \* the cloudflared process: "none", "dialling", "connected",
              \* "terminated" (told to stop) or "gone"
  ready       \* the public URL: "none", "sent" by the guardian, or "taken"

cloudflareVars == <<app, parent, ctx, api, server, origin, run, runDir, pipe, header,
          guardian, helper, ready>>

appVars == <<api, server, origin>>
processVars == <<guardian, helper>>

CloudflareTypeOK ==
  /\ app \in {"runs", "dead"}
  /\ parent \in BOOLEAN /\ ctx \in BOOLEAN /\ runDir \in BOOLEAN /\ header \in BOOLEAN
  /\ api \in {"none", "open", "closed"}
  /\ server \in {"open", "failed", "closed"}
  /\ origin \in {"waits", "drains", "done"}
  /\ run \in {"preparing", "launching", "writing", "watching", "reaping",
              "returned", "left"}
  /\ pipe \in {"none", "open", "closed"}
  /\ guardian \in {"none", "reading", "starting", "watching", "stopping",
                   "removing", "gone"}
  /\ helper \in {"none", "dialling", "connected", "terminated", "gone"}
  /\ ready \in {"none", "sent", "taken"}

\* serve has its listener, its origin goroutine, and calls Run.
CloudflareInit ==
  /\ app = "runs" /\ parent = FALSE /\ ctx = FALSE
  /\ api = "none" /\ server = "open" /\ origin = "waits"
  /\ run = "preparing" /\ runDir = FALSE
  /\ pipe = "none" /\ header = FALSE
  /\ guardian = "none" /\ helper = "none" /\ ready = "none"

-----------------------------------------------------------------------------
(* The application: the origin.                                            *)

Runs == app = "runs" /\ run # "left"

\* Cancelling serve's context closes the guardian's input (AfterFunc).
CloseInput == IF pipe = "open" THEN "closed" ELSE pipe

\* The manager stops this connection, or quits.
CancelParent ==
  /\ Runs /\ ~parent
  /\ parent' = TRUE
  /\ UNCHANGED <<app, ctx, appVars, run, runDir, pipe, header, processVars, ready>>

\* server.Serve ends with an error: the context is cancelled.
ServerFails ==
  /\ Runs /\ server = "open"
  /\ server' = "failed"
  /\ ctx' = TRUE
  /\ pipe' = CloseInput
  /\ UNCHANGED <<app, parent, api, origin, run, runDir, header, processVars, ready>>

\* closeOrigin refuses every new request and ends the open streams ...
ShutApi == IF api = "open" THEN "closed" ELSE api

\* slip in OriginHears: the helper is cancelled before the origin is closed.
HelperFirst ==
  /\ Runs /\ origin = "waits" /\ (parent \/ ctx)
  /\ origin' = "drains"
  /\ ctx' = TRUE
  /\ pipe' = CloseInput
  /\ UNCHANGED <<app, parent, api, server, run, runDir, header, processVars, ready>>

\* ... started by either context,
OriginHears ==
  /\ Runs /\ origin = "waits" /\ (parent \/ ctx)
  /\ origin' = "drains"
  /\ api' = ShutApi
  /\ UNCHANGED <<app, parent, ctx, server, run, runDir, pipe, header, processVars, ready>>

\* and after a drain closes the listener; only then is the helper told.
OriginCloses ==
  /\ Runs /\ origin = "drains"
  /\ origin' = "done"
  /\ server' = "closed"
  /\ ctx' = TRUE
  /\ pipe' = CloseInput
  /\ UNCHANGED <<app, parent, api, run, runDir, header, processVars, ready>>

-----------------------------------------------------------------------------
(* The application: Run and launchGuardian.                                *)

\* prepareBinary made the run directory.
Prepare ==
  /\ app = "runs" /\ run = "preparing"
  /\ run' = "launching"
  /\ runDir' = TRUE
  /\ UNCHANGED <<app, parent, ctx, appVars, pipe, header, processVars, ready>>

\* prepareBinary failed, or was cancelled: it leaves no directory.
PrepareFails ==
  /\ app = "runs" /\ run = "preparing"
  /\ run' = "returned"
  /\ UNCHANGED <<app, parent, ctx, appVars, runDir, pipe, header, processVars, ready>>

\* The guardian's process is started, its input held open.
Launch ==
  /\ app = "runs" /\ run = "launching"
  /\ guardian' = "reading"
  /\ pipe' = IF ctx THEN "closed" ELSE "open"
  /\ run' = "writing"
  /\ UNCHANGED <<app, parent, ctx, appVars, runDir, header, helper, ready>>

\* The context was cancelled, or the process cannot be started.
LaunchFails ==
  /\ app = "runs" /\ run = "launching"
  /\ run' = "returned"
  /\ runDir' = FALSE
  /\ UNCHANGED <<app, parent, ctx, appVars, pipe, header, processVars, ready>>

\* The launch message is written; a closed input makes it an error, after
\* which only the guardian's end is awaited.
WriteHeader ==
  /\ app = "runs" /\ run = "writing"
  /\ IF pipe = "open" /\ guardian # "gone"
       THEN header' = TRUE /\ run' = "watching" /\ pipe' = pipe
       ELSE header' = header /\ run' = "reaping" /\ pipe' = "closed"
  /\ UNCHANGED <<app, parent, ctx, appVars, runDir, processVars, ready>>

\* The loop of launchGuardian sees the cancellation and waits for the end.
Cancelled ==
  /\ app = "runs" /\ run = "watching" /\ ctx
  /\ run' = "reaping"
  /\ pipe' = "closed"
  /\ UNCHANGED <<app, parent, ctx, appVars, runDir, header, processVars, ready>>

\* The loop takes the public URL: serve opens the remote handler and the
\* manager publishes its link, unless serve is already ending.
TakeUrl ==
  /\ app = "runs" /\ run = "watching" /\ ready = "sent"
  /\ ready' = "taken"
  /\ api' = IF ~ctx /\ origin = "waits" /\ api = "none" THEN "open" ELSE api
  /\ UNCHANGED <<app, parent, ctx, server, origin, run, runDir, pipe, header, processVars>>

\* cmd.Wait returned: Run removes the run directory and returns.
GuardianEnded ==
  /\ app = "runs" /\ run \in {"watching", "reaping"} /\ guardian = "gone"
  /\ run' = "returned"
  /\ runDir' = FALSE
  /\ pipe' = "closed"
  /\ UNCHANGED <<app, parent, ctx, appVars, header, processVars, ready>>

\* serve's own exit: the origin is closed, both its goroutines are awaited.
Leave ==
  /\ app = "runs" /\ run = "returned"
  /\ run' = "left"
  /\ api' = ShutApi
  /\ server' = "closed" /\ origin' = "done" /\ ctx' = TRUE
  /\ UNCHANGED <<app, parent, runDir, pipe, header, processVars, ready>>

\* The application is killed: its sockets and its pipe ends go with it.
AppDies ==
  /\ Runs
  /\ app' = "dead"
  /\ api' = ShutApi
  /\ server' = "closed"
  /\ pipe' = CloseInput
  /\ UNCHANGED <<parent, ctx, origin, run, runDir, header, processVars, ready>>

-----------------------------------------------------------------------------
(* The guardian (runGuardian, runProcess) and the helper.                  *)

\* A whole launch message is read ...
GuardianReads ==
  /\ guardian = "reading" /\ header
  /\ guardian' = "starting"
  /\ UNCHANGED <<app, parent, ctx, appVars, run, runDir, pipe, header, helper, ready>>

\* ... or the end of the input, which ends the guardian at once.
GuardianReadsNothing ==
  /\ guardian = "reading" /\ ~header /\ pipe = "closed"
  /\ guardian' = "gone"
  /\ UNCHANGED <<app, parent, ctx, appVars, run, runDir, pipe, header, helper, ready>>

StartHelper ==
  /\ guardian = "starting"
  /\ guardian' = "watching"
  /\ helper' = "dialling"
  /\ UNCHANGED <<app, parent, ctx, appVars, run, runDir, pipe, header, ready>>

\* The program cannot be started, or the input ended before it was.
StartHelperFails ==
  /\ guardian = "starting"
  /\ guardian' = "removing"
  /\ UNCHANGED <<app, parent, ctx, appVars, run, runDir, pipe, header, helper, ready>>

HelperConnects ==
  /\ helper = "dialling"
  /\ helper' = "connected"
  /\ UNCHANGED <<app, parent, ctx, appVars, run, runDir, pipe, header, guardian, ready>>

\* The helper ends of its own accord.
HelperDies ==
  /\ helper \in {"dialling", "connected"}
  /\ helper' = "gone"
  /\ UNCHANGED <<app, parent, ctx, appVars, run, runDir, pipe, header, guardian, ready>>

\* URL and registered connection are known: one line to the application.
SendUrl ==
  /\ guardian = "watching" /\ helper = "connected" /\ ready = "none"
  /\ app = "runs"
  /\ ready' = "sent"
  /\ UNCHANGED <<app, parent, ctx, appVars, run, runDir, pipe, header, processVars>>

\* Stopping the helper: terminated now, killed 1.5 s later.
Terminated == IF helper = "gone" THEN "gone" ELSE "terminated"

\* slip in InputEnds: the guardian stops watching once the tunnel is up.
InputEndsBeforeUrl ==
  /\ guardian = "watching" /\ pipe = "closed" /\ ready = "none"
  /\ guardian' = "stopping"
  /\ helper' = Terminated
  /\ UNCHANGED <<app, parent, ctx, appVars, run, runDir, pipe, header, ready>>

\* Any end of the input ends this lifetime.
InputEnds ==
  /\ guardian = "watching" /\ pipe = "closed"
  /\ guardian' = "stopping"
  /\ helper' = Terminated
  /\ UNCHANGED <<app, parent, ctx, appVars, run, runDir, pipe, header, ready>>

\* No public URL within 90 s.
StartupTimeout ==
  /\ guardian = "watching" /\ ready = "none"
  /\ guardian' = "stopping"
  /\ helper' = Terminated
  /\ UNCHANGED <<app, parent, ctx, appVars, run, runDir, pipe, header, ready>>

HelperObeys ==
  /\ helper = "terminated"
  /\ helper' = "gone"
  /\ UNCHANGED <<app, parent, ctx, appVars, run, runDir, pipe, header, guardian, ready>>

\* runProcess has waited for the helper.
Reaped ==
  /\ guardian \in {"watching", "stopping"} /\ helper = "gone"
  /\ guardian' = "removing"
  /\ UNCHANGED <<app, parent, ctx, appVars, run, runDir, pipe, header, helper, ready>>

GuardianEnds ==
  /\ guardian = "removing"
  /\ guardian' = "gone"
  /\ runDir' = FALSE
  /\ UNCHANGED <<app, parent, ctx, appVars, run, pipe, header, helper, ready>>

-----------------------------------------------------------------------------
AppStep ==
  \/ CancelParent \/ ServerFails \/ AppDies
  \/ OriginHears \/ OriginCloses
  \/ Prepare \/ PrepareFails \/ Launch \/ LaunchFails \/ WriteHeader
  \/ Cancelled \/ TakeUrl \/ GuardianEnded \/ Leave

ProcessStep ==
  \/ GuardianReads \/ GuardianReadsNothing \/ StartHelper \/ StartHelperFails
  \/ HelperConnects \/ HelperDies \/ SendUrl
  \/ InputEnds \/ StartupTimeout \/ HelperObeys \/ Reaped \/ GuardianEnds

CloudflareNext == AppStep \/ ProcessStep

CloudflareSpec == CloudflareInit /\ [][CloudflareNext]_cloudflareVars

\* Every goroutine that can go on does, every process that is told to end
\* does (the helper is killed if it will not); nothing makes the helper
\* connect, the network work, or anybody cancel.
GoesOn ==
  /\ WF_cloudflareVars(OriginHears) /\ WF_cloudflareVars(OriginCloses)
  /\ WF_cloudflareVars(Launch \/ LaunchFails)
  /\ WF_cloudflareVars(WriteHeader) /\ WF_cloudflareVars(Cancelled)
  /\ WF_cloudflareVars(TakeUrl) /\ WF_cloudflareVars(GuardianEnded)
  /\ WF_cloudflareVars(Leave)
  /\ WF_cloudflareVars(GuardianReads \/ GuardianReadsNothing)
  /\ WF_cloudflareVars(StartHelper \/ StartHelperFails)
  /\ WF_cloudflareVars(SendUrl) /\ WF_cloudflareVars(InputEnds)
  /\ WF_cloudflareVars(HelperObeys) /\ WF_cloudflareVars(Reaped)
  /\ WF_cloudflareVars(GuardianEnds)

CloudflareFairSpec ==
  CloudflareSpec /\ WF_cloudflareVars(Prepare \/ PrepareFails) /\ GoesOn

-----------------------------------------------------------------------------
(* Properties.                                                             *)

NoHelper == helper \in {"none", "gone"}
NoGuardian == guardian \in {"none", "gone"}

\* When serve has returned nothing of it is left: both processes are reaped,
\* the run directory is removed and the origin answers nobody (run.go:41-43
\* "Cancellation waits for process reaping and removes its private runtime
\* directory"): only then may the manager start the next connection.
ReturnMeansCleaned ==
  run = "left" => NoHelper /\ NoGuardian /\ ~runDir /\ api # "open" /\ server = "closed"

\* Why: who may still be there at each stage of Run, and what a closed input
\* and a cancelled context say of the origin.
CleanInv ==
  /\ CloudflareTypeOK
  /\ run \in {"preparing", "launching"} => guardian = "none"
  /\ run = "preparing" => ~runDir
  /\ run = "writing" => pipe # "none"
  /\ guardian \in {"none", "reading", "starting"} => helper = "none"
  /\ guardian \in {"removing", "gone"} => NoHelper
  /\ run \in {"returned", "left"} => NoGuardian /\ ~runDir
  /\ run = "left" => api # "open" /\ server = "closed"
  /\ helper = "terminated" => guardian = "stopping" /\ (pipe = "closed" \/ ready = "none")
  /\ ready = "none" => api = "none"
  /\ origin # "waits" => api # "open"
  /\ app = "runs" /\ pipe = "closed" => ctx \/ guardian = "gone"
  /\ app = "runs" /\ ctx => origin # "waits" \/ server = "failed"

\* The origin ends its streams before the helper is told to stop, so that the
\* helper still carries their ends (cloudflare.go:31-32); only a listener
\* that failed on its own is the other way round.
OriginClosesFirst ==
  helper = "terminated" /\ app = "runs" => api # "open" \/ server = "failed"

\* Both: while serve runs and once it returned, what is still there is what should be.
ServeIsClean == ReturnMeansCleaned /\ OriginClosesFirst

\* No process outlives the application that started it, whatever moment the
\* application is killed at, nor a call of serve that returned.
NoOrphan ==
  app = "dead" \/ run = "left" ~> NoHelper /\ NoGuardian

\* Cancelling a connection ends it: the manager waits for this under the lock
\* that serialises every change of mode (manager.go:255-267).
ServeReturns == parent ~> run = "left" \/ app = "dead"

\* Cancelled, failed or killed, a connection ends and leaves no process behind.
ServeEnds == NoOrphan /\ ServeReturns

\* guardian.go:41-44: when the parent is terminated abruptly, the guardian
\* removes the runtime files.
RuntimeIsRemoved == app = "dead" /\ guardian # "none" ~> ~runDir
=============================================================================
