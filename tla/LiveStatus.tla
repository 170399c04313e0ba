----------------------------- MODULE LiveStatus -----------------------------
(***************************************************************************)
(* How controllers are kept up to date: the subscribers of the playback    *)
(* coordinator (src/internal/app/service.go, changedLocked and Subscribe)  *)
(* and the streams that read them (httpapi/api.go events; the gateway's    *)
(* WebSocket of httpapi/cloudflare.go has the same loop).                  *)
(*                                                                         *)
(* A change writes to every subscriber's channel of one slot without       *)
(* waiting.  A stream takes the wake-up, looks whether its session still   *)
(* lives, takes a snapshot under the lock and writes it, for up to 3 s.    *)
(***************************************************************************)
EXTENDS Integers, FiniteSets

CONSTANTS
  Streams,      \* connections of browsers
  Places,       \* subscribers at most (64)
  MaxChanges    \* bound: changes of the state

StreamAssumption == Places \in Nat /\ MaxChanges \in Nat /\ IsFiniteSet(Streams)

VARIABLES
  revision,    \* state.Revision
  closed,      \* the service is closed
  subscribers, \* s.subscribers: the channels by the stream that reads them
  slot,        \* a wake-up waits in the channel
  ended,       \* the channel is closed
  stream,      \* where the handler is
  snapshot,    \* the revision it is about to write
  seen         \* the revision its browser has

vars == <<revision, closed, subscribers, slot, ended, stream, snapshot, seen>>
handlers == <<stream, snapshot, seen>>

Init ==
  /\ revision = 0 /\ closed = FALSE /\ subscribers = {}
  /\ slot = [c \in Streams |-> FALSE] /\ ended = [c \in Streams |-> FALSE]
  /\ stream = [c \in Streams |-> "off"]
  /\ snapshot = [c \in Streams |-> 0] /\ seen = [c \in Streams |-> 0]

Goto(c, where) == stream' = [stream EXCEPT ![c] = where]

-----------------------------------------------------------------------------
(* The service, under its mutex.                                           *)

\* slip in Woken: a channel without a slot reaches only who listens.
WokenListeners == [c \in Streams |-> slot[c] \/ (c \in subscribers /\ stream[c] = "waiting")]
Woken == [c \in Streams |-> slot[c] \/ c \in subscribers]

\* changedLocked: a full slot already stands for this change too.
Changed ==
  /\ revision < MaxChanges /\ ~closed
  /\ revision' = revision + 1 /\ slot' = Woken
  /\ UNCHANGED <<closed, subscribers, ended, handlers>>

Subscribe(c) ==
  /\ stream[c] = "off" /\ ~closed
  /\ Cardinality(subscribers) < Places
  /\ subscribers' = subscribers \cup {c}
  /\ slot' = [slot EXCEPT ![c] = TRUE] /\ ended' = [ended EXCEPT ![c] = FALSE]
  /\ Goto(c, "waiting") /\ seen' = [seen EXCEPT ![c] = 0]
  /\ UNCHANGED <<revision, closed, snapshot>>

\* The channel of a subscriber still known is closed, and only that.
Removed(c) ==
  IF c \in subscribers
  THEN subscribers' = subscribers \ {c} /\ ended' = [ended EXCEPT ![c] = TRUE]
  ELSE UNCHANGED <<subscribers, ended>>

\* The deferred unsubscribe.
Unsubscribe(c) ==
  /\ stream[c] = "leaving" /\ Goto(c, "off")
  /\ Removed(c)
  /\ UNCHANGED <<revision, closed, slot, snapshot, seen>>

\* Close stops playback, which is a change, and ends every stream.
Close ==
  /\ ~closed /\ closed' = TRUE
  /\ revision' = revision + 1 /\ slot' = Woken
  /\ subscribers' = {} /\ ended' = [c \in Streams |-> ended[c] \/ c \in subscribers]
  /\ UNCHANGED handlers

-----------------------------------------------------------------------------
(* A handler.                                                              *)

\* A channel that was closed still gives what is in its slot.
Take(c) ==
  /\ stream[c] = "waiting" /\ slot[c]
  /\ slot' = [slot EXCEPT ![c] = FALSE]
  /\ Goto(c, "woken")
  /\ UNCHANGED <<revision, closed, subscribers, ended, snapshot, seen>>

HearEnd(c) ==
  /\ stream[c] = "waiting" /\ ~slot[c] /\ ended[c]
  /\ Goto(c, "leaving")
  /\ UNCHANGED <<revision, closed, subscribers, slot, ended, snapshot, seen>>

\* Snapshot, under the service's mutex.
Look(c) ==
  /\ stream[c] = "woken" /\ Goto(c, "writing")
  /\ snapshot' = [snapshot EXCEPT ![c] = revision]
  /\ UNCHANGED <<revision, closed, subscribers, slot, ended, seen>>

Write(c) ==
  /\ stream[c] = "writing" /\ Goto(c, "waiting")
  /\ seen' = [seen EXCEPT ![c] = snapshot[c]]
  /\ UNCHANGED <<revision, closed, subscribers, slot, ended, snapshot>>

\* The session expired, the write failed, or the browser left.
Leave(c) ==
  /\ stream[c] \in {"waiting", "woken", "writing"} /\ Goto(c, "leaving")
  /\ UNCHANGED <<revision, closed, subscribers, slot, ended, snapshot, seen>>

Handler(c) == Take(c) \/ HearEnd(c) \/ Look(c) \/ Write(c) \/ Unsubscribe(c)
Next ==
  \/ Changed \/ Close
  \/ \E c \in Streams : Subscribe(c) \/ Handler(c) \/ Leave(c)

Spec == Init /\ [][Next]_vars
\* A handler runs, and its writes have a deadline.
Fairness == \A c \in Streams : WF_vars(Handler(c))
FairSpec == Spec /\ Fairness

-----------------------------------------------------------------------------
(* Properties.                                                             *)

\* The service never writes to a channel that was closed and never closes one
\* twice, whichever of unsubscribe and Close came first, and keeps its bound.
ChannelsAreOpen ==
  /\ \A c \in subscribers : ~ended[c]
  /\ Cardinality(subscribers) <= Places

\* A handler that waits with nothing in its slot has written the newest state:
\* no change falls between a wake-up and the snapshot it leads to.
NothingIsMissed ==
  \A c \in Streams : stream[c] = "waiting" /\ ~slot[c] => seen[c] = revision

\* Every change reaches every browser that stays connected, though a slow one
\* may see several at once.
EveryoneCatchesUp ==
  \A c \in Streams, r \in 1..MaxChanges :
    c \in subscribers /\ revision >= r ~> seen[c] >= r \/ stream[c] \in {"leaving", "off"}

\* Once the service is closed every stream ends, so that the servers can stop.
StreamsEnd == \A c \in Streams : closed ~> stream[c] = "off"
=============================================================================
