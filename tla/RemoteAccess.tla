---------------------------- MODULE RemoteAccess ----------------------------
(***************************************************************************)
(* Which way in from outside is open: remote.Manager (internal/remote/     *)
(* manager.go) with the LAN listener it closes (lanControl, cmd/smartstage/*)
(* remote.go) and the part of main's loop that ends the process (main.go). *)
(*                                                                         *)
(* One mode is chosen: the LAN listener, a public gateway, or an account-  *)
(* free Cloudflare tunnel.  The manager keeps one connection goroutine for *)
(* the last two; a goroutine retries until it is cancelled, and reports    *)
(* into the manager's status and Admin's links through callbacks that may  *)
(* be late.  Configure, Reconnect and Close are serialised by one lock     *)
(* ("serial"); `op' is the operation that holds it, and every step of an   *)
(* operation is one critical section of the other lock ("mu") or one call  *)
(* out of the manager.                                                     *)
(*                                                                         *)
(* Addresses and tokens are abstracted: a saved gateway is a model value   *)
(* (both parts, validated), a link is the number of the attempt that made  *)
(* its pairing authority.                                                  *)
(***************************************************************************)
EXTENDS Naturals, Sequences, FiniteSets

CONSTANTS
  Gates,               \* saved gateways, address and token
  NoGate,              \* nothing is saved
  CloudflareAvailable, \* the host has an official helper (cloudflared.Support)
  UndoMayFail,         \* saving the old settings back may fail as well
  MaxOps,              \* bound: operations
  MaxAttempts,         \* bound: no goroutine retries after so many attempts
  MaxBoots             \* bound: starts of the program

ASSUME RemoteAssumption ==
  /\ NoGate \notin Gates
  /\ CloudflareAvailable \in BOOLEAN /\ UndoMayFail \in BOOLEAN
  /\ MaxOps \in Nat /\ MaxAttempts \in Nat /\ MaxBoots \in Nat

Modes == {"lan", "gateway", "cloudflare"}
Settings == [mode : Modes, gate : Gates \union {NoGate}]

Idle == [kind |-> "none"]
NoLink == 0

VARIABLES
  disk,         \* gateway.json
  settings,     \* m.settings
  generation,   \* m.generation
  closed,       \* m.closed
  status,       \* m.status: state, the link and whether a restart is promised
  shown,        \* what Admin was told last: [mode, link] (lanControl.changed)
  quitting,     \* the context of main, the manager's parent, is cancelled
  lan,          \* the LAN listener and its streams are open
  conns,        \* the connection goroutines of this process, in order of start
  current,      \* m.connectionDone: the index of the goroutine, 0 for none
  op,           \* the operation under "serial"
  reservation,  \* service.ReserveUpdate for a restart: "none", "held", "committed"
  ops, attempts, boots  \* counters, for the bounds

accessVars == <<disk, settings, generation, closed, status, shown, quitting, lan, conns,
          current, op, reservation, ops, attempts, boots>>

counters == <<ops, attempts, boots>>
told == <<status, shown>>

-----------------------------------------------------------------------------
(* Settings.                                                               *)

DefaultMode == IF CloudflareAvailable THEN "cloudflare" ELSE "gateway"

\* Load: an unconfigured gateway becomes the default mode.
Load(d) ==
  IF d.mode = "gateway" /\ d.gate = NoGate THEN [d EXCEPT !.mode = DefaultMode] ELSE d

\* The edit Configure makes of what the user sent: another mode keeps the saved
\* gateway when its fields are blank.  Blank fields for the gateway itself keep
\* no address, and are refused.
Edited(old, mode, gate) ==
  [mode |-> mode, gate |-> IF mode # "gateway" /\ gate = NoGate THEN old.gate ELSE gate]

Accepts(next) ==
  /\ next.mode = "gateway" => next.gate # NoGate
  /\ next.mode = "cloudflare" => CloudflareAvailable

NeedsConnection(s) ==
  \/ s.mode = "cloudflare" /\ CloudflareAvailable
  \/ s.mode = "gateway" /\ s.gate # NoGate

StateOf(s) ==
  CASE s.mode = "lan"     -> "disabled"
    [] NeedsConnection(s) -> "connecting"
    [] OTHER              -> "unavailable"

-----------------------------------------------------------------------------
(* Connections.                                                            *)

NewConn(gen, link, stopped) == [generation |-> gen, cancelled |-> stopped, link |-> link, pc |-> "dialling"]

\* Somebody outside reaches the remote handler through this goroutine.
Reachable(c) == c.pc \in {"up", "announced"}

Goes(k, c) == conns' = [conns EXCEPT ![k] = c]

\* The test every callback makes under mu.
IsCurrent(c) == ~closed /\ c.generation = generation /\ ~c.cancelled

\* connectionCancel of the goroutine the manager knows.
Cancels(cs) == IF current = 0 THEN cs ELSE [cs EXCEPT ![current].cancelled = TRUE]

\* startLocked, from settings s: what it tells and whom it starts.
StartLocked(s, needsRestart) ==
  LET starts == ~needsRestart /\ NeedsConnection(s)
  IN /\ generation' = generation + 1
     /\ status' = [state |-> IF needsRestart THEN "disabled" ELSE StateOf(s),
                   link |-> NoLink, restart |-> needsRestart]
     /\ shown' = [mode |-> s.mode, link |-> NoLink]
     /\ IF starts
          THEN /\ attempts' = attempts + 1
               /\ conns' = Append(conns, NewConn(generation + 1, attempts + 1, quitting))
               /\ current' = Len(conns) + 1
          ELSE UNCHANGED <<attempts, conns, current>>

\* A process starts on what is saved: main opens the listener in LAN mode
\* only, and New starts the connection.
Boots(d) ==
  LET s == Load(d)
      starts == NeedsConnection(s)
  IN /\ settings' = s
     /\ generation' = 1
     /\ closed' = FALSE
     /\ status' = [state |-> StateOf(s), link |-> NoLink, restart |-> FALSE]
     /\ shown' = [mode |-> s.mode, link |-> NoLink]
     /\ quitting' = FALSE
     /\ lan' = (s.mode = "lan")
     /\ conns' = IF starts THEN <<NewConn(1, attempts + 1, FALSE)>> ELSE <<>>
     /\ current' = IF starts THEN 1 ELSE 0
     /\ attempts' = attempts + (IF starts THEN 1 ELSE 0)
     /\ op' = Idle
     /\ reservation' = "none"

AccessInit ==
  /\ disk \in {d \in Settings : d.mode = "lan" \/ d.gate = NoGate}
  /\ LET s == Load(disk)
         starts == NeedsConnection(s)
     IN /\ settings = s
        /\ generation = 1
        /\ closed = FALSE
        /\ status = [state |-> StateOf(s), link |-> NoLink, restart |-> FALSE]
        /\ shown = [mode |-> s.mode, link |-> NoLink]
        /\ quitting = FALSE
        /\ lan = (s.mode = "lan")
        /\ conns = IF starts THEN <<NewConn(1, 1, FALSE)>> ELSE <<>>
        /\ current = IF starts THEN 1 ELSE 0
        /\ attempts = IF starts THEN 1 ELSE 0
  /\ op = Idle /\ reservation = "none" /\ ops = 0 /\ boots = 1

-----------------------------------------------------------------------------
(* The connection goroutines (connect, connectCloudflare).                 *)

\* The tunnel is up: its handler answers from now on.
Connects(k) ==
  /\ conns[k].pc = "dialling"
  /\ Goes(k, [conns[k] EXCEPT !.pc = "up"])
  /\ UNCHANGED <<disk, settings, generation, closed, told, quitting, lan, current,
                 op, reservation, counters>>

\* The callback: the link is shown, unless the connection is not wanted.
Announces(k) ==
  LET c == conns[k]
  IN /\ c.pc = "up"
     /\ Goes(k, [c EXCEPT !.pc = "announced"])
     /\ IF IsCurrent(c)
          THEN /\ status' = [status EXCEPT !.state = "connected", !.link = c.link]
               /\ shown' = [mode |-> settings.mode, link |-> c.link]
          ELSE UNCHANGED told
     /\ UNCHANGED <<disk, settings, generation, closed, quitting, lan, current, op,
                    reservation, counters>>

\* The tunnel ends, or never came: with its cancellation, or of itself.
Ends(k) ==
  /\ conns[k].pc \in {"dialling", "up", "announced"}
  /\ Goes(k, [conns[k] EXCEPT !.pc = "failed"])
  /\ UNCHANGED <<disk, settings, generation, closed, told, quitting, lan, current,
                 op, reservation, counters>>

\* The goroutine withdraws the link and waits, or leaves.
Reports(k) ==
  LET c == conns[k]
  IN /\ c.pc = "failed"
     /\ IF IsCurrent(c)
          THEN /\ status' = [status EXCEPT !.state = "error", !.link = NoLink]
               /\ shown' = [mode |-> settings.mode, link |-> NoLink]
               /\ Goes(k, [c EXCEPT !.pc = "waiting"])
          ELSE /\ Goes(k, [c EXCEPT !.pc = "ended"])
               /\ UNCHANGED told
     /\ UNCHANGED <<disk, settings, generation, closed, quitting, lan, current, op,
                    reservation, counters>>

\* The backoff has passed: a new attempt with a new pairing authority.
Retries(k) ==
  /\ conns[k].pc = "waiting" /\ ~conns[k].cancelled
  /\ attempts < MaxAttempts
  /\ attempts' = attempts + 1
  /\ Goes(k, [conns[k] EXCEPT !.pc = "dialling", !.link = attempts + 1])
  /\ UNCHANGED <<disk, settings, generation, closed, told, quitting, lan, current, op,
                 reservation, ops, boots>>

\* The wait is cut short.
Leaves(k) ==
  /\ conns[k].pc = "waiting" /\ conns[k].cancelled
  /\ Goes(k, [conns[k] EXCEPT !.pc = "ended"])
  /\ UNCHANGED <<disk, settings, generation, closed, told, quitting, lan, current,
                 op, reservation, counters>>

ConnStep(k) ==
  Connects(k) \/ Announces(k) \/ Ends(k) \/ Reports(k) \/ Retries(k) \/ Leaves(k)

-----------------------------------------------------------------------------
(* The operations.  An edit that is refused outright changes nothing.      *)

Is(step) == op.kind = "edit" /\ op.step = step

Goto(step) == op' = [op EXCEPT !.step = step]

\* Configure: the edit is valid, and a restart, if it takes one, is reserved.
Configure(mode, gate) ==
  LET next == Edited(settings, mode, gate)
      needsRestart == next.mode = "lan" /\ settings.mode # "lan"
  IN /\ op = Idle /\ ops < MaxOps
     /\ ~closed /\ ~status.restart
     /\ Accepts(next)
     /\ reservation' = IF needsRestart THEN "held" ELSE reservation
     /\ op' = [kind |-> "edit", step |-> "save", next |-> next,
               restart |-> needsRestart, waits |-> 0]
     /\ ops' = ops + 1
     /\ UNCHANGED <<disk, settings, generation, closed, told, quitting, lan, conns,
                    current, attempts, boots>>

\* Reconnect: as Configure with the settings in force, from stopConnection on.
Reconnect ==
  /\ op = Idle /\ ops < MaxOps
  /\ ~closed /\ ~status.restart
  /\ NeedsConnection(settings)
  /\ op' = [kind |-> "edit", step |-> "stop", next |-> settings,
            restart |-> FALSE, waits |-> 0]
  /\ ops' = ops + 1
  /\ UNCHANGED <<disk, settings, generation, closed, told, quitting, lan, conns,
                 current, reservation, attempts, boots>>

Save ==
  /\ Is("save")
  /\ disk' = op.next
  /\ Goto(IF op.next.mode # "lan" THEN "disable" ELSE "stop")
  /\ UNCHANGED <<settings, generation, closed, told, quitting, lan, conns, current,
                 reservation, counters>>

\* abort: the reservation is given back.
Aborted == IF reservation = "held" THEN "none" ELSE reservation

SaveFails ==
  /\ Is("save")
  /\ op' = Idle
  /\ reservation' = Aborted
  /\ UNCHANGED <<disk, settings, generation, closed, told, quitting, lan, conns,
                 current, counters>>

\* DisableLAN closes the listener and every stream on it ...
Disable ==
  /\ Is("disable")
  /\ lan' = FALSE
  /\ Goto("stop")
  /\ UNCHANGED <<disk, settings, generation, closed, told, quitting, conns, current,
                 reservation, counters>>

\* slip in Undone: the new settings stay saved.
NotUndone == {disk}

\* ... and when closing it reports an error, the old settings are saved back.
Undone == IF UndoMayFail THEN {disk, settings} ELSE {settings}

DisableFails ==
  /\ Is("disable") /\ lan
  /\ lan' = FALSE
  /\ disk' \in Undone
  /\ op' = Idle
  /\ reservation' = Aborted
  /\ UNCHANGED <<settings, generation, closed, told, quitting, conns, current, counters>>

\* stopConnection: everything of the old connection is stale from here on ...
Stop ==
  /\ Is("stop")
  /\ generation' = generation + 1
  /\ conns' = Cancels(conns)
  /\ current' = 0
  /\ op' = [op EXCEPT !.step = "wait", !.waits = current]
  /\ UNCHANGED <<disk, settings, closed, told, quitting, lan, reservation, counters>>

\* slip in HasEnded: the next starts without waiting.
HasEndedByNow(k) == TRUE

\* ... and has ended before the next may start.
HasEnded(k) == k \in DOMAIN conns => conns[k].pc = "ended"

Start ==
  /\ Is("wait")
  /\ HasEnded(op.waits)
  /\ settings' = op.next
  /\ StartLocked(op.next, op.restart)
  /\ op' = IF op.restart THEN [op EXCEPT !.step = "commit"] ELSE Idle
  /\ UNCHANGED <<disk, closed, quitting, lan, reservation, ops, boots>>

\* The restart is handed to main's loop.
Commit ==
  /\ Is("commit")
  /\ reservation' = "committed"
  /\ op' = Idle
  /\ UNCHANGED <<disk, settings, generation, closed, told, quitting, lan, conns,
                 current, counters>>

EditStep ==
  \/ Save \/ SaveFails \/ Disable \/ DisableFails \/ Stop \/ Start \/ Commit

-----------------------------------------------------------------------------
(* The end of the process.                                                 *)

\* Quit: main's context, the parent of every connection's, is cancelled.
Quit ==
  /\ op.kind # "down" /\ ~quitting
  /\ quitting' = TRUE
  /\ conns' = [k \in DOMAIN conns |-> [conns[k] EXCEPT !.cancelled = TRUE]]
  /\ UNCHANGED <<disk, settings, generation, closed, told, lan, current, op,
                 reservation, counters>>

\* main's loop takes the quit or the restart: Close.
Close ==
  /\ op = Idle /\ (quitting \/ reservation = "committed")
  /\ closed' = TRUE
  /\ generation' = generation + 1
  /\ conns' = [k \in DOMAIN conns |-> [conns[k] EXCEPT !.cancelled = TRUE]]
  /\ op' = [kind |-> "close"]
  /\ UNCHANGED <<disk, settings, told, quitting, lan, current, reservation, counters>>

Gone ==
  /\ op' = [kind |-> "down"]
  /\ lan' = FALSE
  /\ conns' = <<>>
  /\ current' = 0
  /\ UNCHANGED <<disk, settings, generation, closed, told, quitting, reservation, counters>>

\* Close has waited for every goroutine; the listener goes, then the process.
Exit ==
  /\ op.kind = "close"
  /\ \A k \in DOMAIN conns : conns[k].pc = "ended"
  /\ Gone

\* The process is killed.
Crash == op.kind # "down" /\ Gone

\* It is started again, by the restart's helper or by hand.
Boot ==
  /\ op.kind = "down" /\ boots < MaxBoots
  /\ Boots(disk)
  /\ boots' = boots + 1
  /\ UNCHANGED <<disk, ops>>

-----------------------------------------------------------------------------
AccessNext ==
  \/ \E k \in DOMAIN conns : ConnStep(k)
  \/ \E mode \in Modes, gate \in Gates \union {NoGate} : Configure(mode, gate)
  \/ Reconnect
  \/ EditStep
  \/ Quit \/ Close \/ Exit \/ Crash \/ Boot

AccessSpec == AccessInit /\ [][AccessNext]_accessVars

ConnEnds(k) == k \in DOMAIN conns /\ conns[k].cancelled /\ (Ends(k) \/ Reports(k) \/ Leaves(k))

\* What an operation does by itself goes on; a cancelled connection ends (its
\* context cuts short every call it makes).  Nothing else is owed: a network
\* need not work, nor a connection fail.
AccessFairness ==
  /\ WF_accessVars(EditStep) /\ WF_accessVars(Close) /\ WF_accessVars(Exit)
  /\ \A k \in 1..(MaxOps + 1) : WF_accessVars(ConnEnds(k))

-----------------------------------------------------------------------------
(* Properties.                                                             *)

ConnOK ==
  [generation : Nat, cancelled : BOOLEAN, link : Nat,
   pc : {"dialling", "up", "announced", "failed", "waiting", "ended"}]

AccessTypeOK ==
  /\ disk \in Settings /\ settings \in Settings
  /\ generation \in Nat /\ closed \in BOOLEAN /\ quitting \in BOOLEAN /\ lan \in BOOLEAN
  /\ status \in [state : {"disabled", "connecting", "connected", "error", "unavailable"},
                 link : Nat, restart : BOOLEAN]
  /\ shown \in [mode : Modes, link : Nat]
  /\ conns \in Seq(ConnOK) /\ current \in 0..Len(conns)
  /\ op \in [kind : {"none", "close", "down"}] \union
           [kind : {"edit"}, step : {"save", "disable", "stop", "wait", "commit"},
            next : Settings, restart : BOOLEAN, waits : 0..Len(conns)]
  /\ reservation \in {"none", "held", "committed"}
  /\ ops \in Nat /\ attempts \in Nat /\ boots \in Nat

Ways == {k \in DOMAIN conns : Reachable(conns[k])}

\* At most one way in is ever open: two connections never answer at the same
\* time, and none answers beside the LAN listener, which is open in LAN mode
\* only (remote.go:17-18, manager.go:253-254).
OneWayIn ==
  /\ \A j, k \in Ways : j = k
  /\ lan => Ways = {} /\ settings.mode = "lan"

\* Why: at most one goroutine has not ended, the one the manager knows or the
\* one an operation waits for, and the listener is closed before the old
\* connection's replacement is even prepared.
OneWayInv ==
  /\ conns \in Seq(ConnOK)
  /\ current \in Nat /\ generation \in Nat /\ attempts \in Nat /\ quitting \in BOOLEAN
  /\ \A k \in DOMAIN conns :
       conns[k].pc = "ended" \/ k = current \/ (Is("wait") /\ k = op.waits)
  /\ Is("wait") => current = 0
  /\ Is("stop") \/ Is("wait") => ~lan \/ op.next.mode = "lan"
  /\ lan => conns = <<>> /\ settings.mode = "lan"

\* When no operation is under way the link Admin shows is that of the
\* connection in force, in the mode in force, and the status agrees with it.
LinkIsLive ==
  op = Idle /\ ~quitting =>
    /\ shown = [mode |-> settings.mode, link |-> status.link]
    /\ shown.link # NoLink =>
         \E k \in DOMAIN conns :
           /\ k = current
           /\ conns[k].link = shown.link /\ conns[k].pc \in {"announced", "failed"}

\* What a restart would load is what is in force: an edit that was refused
\* half-way is taken back (manager.go:216-222).
SavedIsInForce == op = Idle => Load(disk) = settings

\* The reservation for a restart, which refuses playback and updates, is given
\* back by an edit that fails; one that was handed over finds LAN saved.
ReservationIsSettled ==
  /\ op = Idle => reservation # "held"
  /\ reservation = "committed" /\ op.kind # "down" => disk.mode = "lan" /\ status.restart

\* Every operation ends, the wait for the old connection included.
SwitchEnds == op.kind \in {"edit", "close"} ~> op.kind \in {"none", "down"}

\* Every change of the mode ends, done or refused, and whenever none is under way the
\* link shown, the settings saved and the reservation agree with what is in force.
SwitchSettles == SwitchEnds /\ [](AccessTypeOK /\ LinkIsLive /\ SavedIsInForce /\ ReservationIsSettled)
=============================================================================
