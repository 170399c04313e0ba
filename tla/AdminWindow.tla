----------------------------- MODULE AdminWindow -----------------------------
(* The page inside the Windows Admin window (desktop_windows.cpp): WebView2 is   *)
(* created by two asynchronous calls, lives in a private profile directory with  *)
(* a browser process of its own, and is taken down while any of this may still   *)
(* be under way.  WebView2 itself is external: a call may fail at once or in its *)
(* callback, a browser may exit at any time.                                     *)
EXTENDS Naturals

CONSTANT MaxShows   \* bound: how often the window is shown or reloaded

ShowsAssumption == MaxShows \in Nat

VARIABLES
  admin,    \* the state the user-interface thread keeps
  callback, \* the completion WebView2 still owes
  browser,  \* do processes use the profile?
  profile,  \* the directory: "none", "created" or "removed"
  shows

vars == <<admin, callback, browser, profile, shows>>

Init ==
  /\ admin = [creating |-> FALSE, environment |-> FALSE, view |-> FALSE, stopping |-> FALSE,
              over |-> FALSE, ended |-> FALSE, hadRuntime |-> FALSE, registered |-> FALSE,
              exited |-> FALSE]
  /\ callback = "none" /\ browser = FALSE /\ profile = "none" /\ shows = 0

Fails(state) == [state EXCEPT !.creating = FALSE]

\* showWindow and Reload, when there is no page yet
ShowWindow ==
  /\ shows < MaxShows /\ shows' = shows + 1
  /\ ~admin.stopping /\ ~admin.creating /\ ~admin.view
  /\ profile' = "created"
  /\ \/ callback' = "environment" /\ admin' = [admin EXCEPT !.creating = TRUE]
     \/ callback' = callback /\ admin' = admin    \* the loader is missing or refuses
  /\ UNCHANGED browser

\* slip: a late callback does not look whether the host stops
HeardAlways(kind) == callback = kind /\ ~admin.ended /\ UNCHANGED <<profile, shows>>

\* Handler::Invoke
Heard(kind) == callback = kind /\ ~admin.stopping /\ UNCHANGED <<profile, shows>>

EnvironmentCreated ==
  /\ Heard("environment")
  /\ \/ /\ admin' = [admin EXCEPT !.environment = TRUE]    \* creating again
        /\ callback' = "controller" /\ browser' = TRUE
     \/ /\ \E environment \in {admin.environment, TRUE} :
             admin' = [Fails(admin) EXCEPT !.environment = environment]
        /\ callback' = "none" /\ UNCHANGED browser

\* configureWebView may fail too, and closes what it has
ControllerCreated ==
  /\ Heard("controller")
  /\ callback' = "none"
  /\ \E view \in BOOLEAN : admin' = [Fails(admin) EXCEPT !.view = view]
  /\ UNCHANGED browser

\* whatever comes after the stop is let go
LateCallback ==
  /\ callback # "none" /\ admin.stopping /\ ~admin.ended
  /\ callback' = "none"
  /\ UNCHANGED <<admin, browser, profile, shows>>

BrowserExits ==
  /\ browser /\ browser' = FALSE
  /\ admin' = [admin EXCEPT !.exited = @ \/ (admin.registered /\ ~admin.ended)]
  /\ UNCHANGED <<callback, profile, shows>>

\* shutdownUI while a dialog is open
BeginStop ==
  /\ ~admin.stopping
  /\ admin' = [admin EXCEPT !.stopping = TRUE]
  /\ UNCHANGED <<callback, browser, profile, shows>>

\* shutdownUI: the exit of the browser is observed where WebView2 can do so
TearDown ==
  /\ ~admin.over
  /\ \E observed \in {FALSE, admin.environment} :
       admin' = [admin EXCEPT !.stopping = TRUE, !.over = TRUE, !.view = FALSE,
                              !.hadRuntime = admin.environment \/ admin.creating,
                              !.registered = observed, !.environment = observed]
  /\ UNCHANGED <<callback, browser, profile, shows>>

ProfileReleased(state) == ~state.hadRuntime \/ (state.registered /\ state.exited)

\* the wait for the browser is over or has lasted ten seconds
ThreadEnds ==
  /\ admin.over /\ ~admin.ended
  /\ admin' = [admin EXCEPT !.ended = TRUE, !.environment = FALSE]
  /\ \/ profile = "created" /\ ProfileReleased(admin) /\ profile' = "removed"
     \/ UNCHANGED profile
  /\ UNCHANGED <<callback, browser, shows>>

Next ==
  \/ ShowWindow \/ EnvironmentCreated \/ ControllerCreated \/ LateCallback \/ BrowserExits
  \/ BeginStop \/ TearDown \/ ThreadEnds

Spec == Init /\ [][Next]_vars

-------------------------------------------------------------------------------
(* Properties *)

\* The private profile is removed only when no process of its browser uses it any
\* more, whatever was under way when the host stopped ("BrowserProcessExited
\* guarantees that the full group is done", uiMain).
ProfileIsUnused == profile = "removed" => ~browser

\* While the host runs, "creating" means that WebView2 still owes an answer.  A
\* flag left behind by a failure would turn every later Reload into nothing.
ReloadIsPossible == admin.creating /\ ~admin.stopping => callback # "none"

\* No page and no browser process comes to life once the host stops, however late
\* the completion of a call arrives.
NothingStartsLate ==
  [][admin.stopping => (admin'.view => admin.view) /\ (browser' => browser)]_vars
=============================================================================
