-------------------------- MODULE ConnectionSlots --------------------------
(***************************************************************************)
(* The bound on connections (src/internal/httpapi/listener.go).  The       *)
(* accept loop takes a slot before it accepts; the slot belongs to the     *)
(* connection and comes back when it is closed, by whoever closes it first *)
(* (the server, a handler, Shutdown).  Close ends an accept loop that      *)
(* waits for a slot as well as one that waits for a connection.            *)
(***************************************************************************)
EXTENDS Integers, FiniteSets

CONSTANTS Connections, Limit   \* MaxConnections
SlotAssumption == Limit \in Nat \ {0}

VARIABLES
  taken,     \* slots in use
  accept,    \* where the accept loop is
  done,      \* l.done is closed
  closed,    \* the listener below is closed
  conn,      \* "ready" in the backlog, "open", "closing" once, "closed"
  released,  \* boundedConn.once
  closers    \* calls of Close on the connection still to finish

vars == <<taken, accept, done, closed, conn, released, closers>>

Init ==
  /\ taken = 0 /\ accept = "idle" /\ done = FALSE /\ closed = FALSE
  /\ conn = [c \in Connections |-> "ready"]
  /\ released = [c \in Connections |-> FALSE]
  /\ closers = [c \in Connections |-> 0]

\* The select takes either way when a slot is free and the listener is done.
TakeSlot ==
  /\ accept = "idle" /\ taken < Limit
  /\ taken' = taken + 1 /\ accept' = "accepting"
  /\ UNCHANGED <<done, closed, conn, released, closers>>

HearDone ==
  /\ accept = "idle" /\ done
  /\ accept' = "ended"
  /\ UNCHANGED <<taken, done, closed, conn, released, closers>>

Accept(c) ==
  /\ accept = "accepting" /\ ~closed /\ conn[c] = "ready"
  /\ conn' = [conn EXCEPT ![c] = "open"] /\ accept' = "idle"
  /\ UNCHANGED <<taken, done, closed, released, closers>>

\* An error, always once the listener is closed; the server goes on after a
\* temporary one.
AcceptFails ==
  /\ accept = "accepting"
  /\ taken' = taken - 1
  /\ accept' = IF closed THEN "ended" ELSE "idle"
  /\ UNCHANGED <<done, closed, conn, released, closers>>

\* Close of the connection, by up to two callers at once.
BeginClose(c) ==
  /\ conn[c] \in {"open", "closed"} /\ closers[c] < 2 /\ ~released[c]
  /\ conn' = [conn EXCEPT ![c] = "closed"]
  /\ closers' = [closers EXCEPT ![c] = @ + 1]
  /\ UNCHANGED <<taken, accept, done, closed, released>>

\* slip in EndClose: every call gives a slot back.
EndCloseTwice(c) ==
  /\ closers[c] > 0 /\ closers' = [closers EXCEPT ![c] = @ - 1]
  /\ released' = [released EXCEPT ![c] = TRUE]
  /\ taken' = taken - 1
  /\ UNCHANGED <<accept, done, closed, conn>>

\* The deferred half: once.Do(release).
EndClose(c) ==
  /\ closers[c] > 0 /\ closers' = [closers EXCEPT ![c] = @ - 1]
  /\ released' = [released EXCEPT ![c] = TRUE]
  /\ taken' = IF released[c] THEN taken ELSE taken - 1
  /\ UNCHANGED <<accept, done, closed, conn>>

\* Close of the listener: first the channel, then the listener below.
Shut ==
  /\ ~done /\ done' = TRUE
  /\ UNCHANGED <<taken, accept, closed, conn, released, closers>>

ShutListener ==
  /\ done /\ ~closed
  /\ closed' = TRUE
  /\ UNCHANGED <<taken, accept, done, conn, released, closers>>

Loop == TakeSlot \/ HearDone \/ (closed /\ AcceptFails)
Next ==
  \/ Loop \/ AcceptFails \/ Shut \/ ShutListener
  \/ \E c \in Connections : Accept(c) \/ BeginClose(c) \/ EndClose(c)
Spec == Init /\ [][Next]_vars
Fairness ==
  /\ WF_vars(Loop) /\ WF_vars(ShutListener)
  /\ \A c \in Connections : WF_vars(EndClose(c))
FairSpec == Spec /\ Fairness

\* The slots in use are those of open connections and of the accept loop: none
\* is lost to an error and none is given back twice.
SlotsAreConnections ==
  taken = Cardinality({c \in Connections : conn[c] \in {"open", "closed"} /\ ~released[c]})
            + (IF accept = "accepting" THEN 1 ELSE 0)

\* Closing the listener ends the accept loop though every slot is taken by
\* connections that stay open.
LoopEnds == done ~> accept = "ended"
=============================================================================
