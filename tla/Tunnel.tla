-------------------------------- MODULE Tunnel --------------------------------
(* One registered tunnel of the public gateway (gateway/server.go, client.go):   *)
(* browsers' requests are numbered, sent to the desktop over one connection, and *)
(* answered over it in pieces, while browsers leave, stall or time out and the   *)
(* connection may end.  Bodies, headers and paths are left out; of a path only   *)
(* the lane it uses is kept.                                                      *)
(*                                                                                *)
(* The WebSocket library is external: messages of one direction arrive in order, *)
(* and the two ends notice the end of the connection each on its own.             *)
EXTENDS Integers, Sequences, FiniteSets

CONSTANTS
  Requests,      \* the requests of a behaviour
  Kind(_),       \* the lane of a request: "stop", "stream" or "ordinary"
  Lanes(_),      \* how many requests a lane takes, at each end
  ReplySlots,    \* pieces of an answer the gateway keeps for a browser
  MaxData        \* bound: pieces of data in an answer

VARIABLES
  serve,     \* the gateway's side of each request
  next,      \* the last number given to a request
  toDesktop, toGateway,
  job,       \* the desktop's side of each request
  up,        \* which end still believes in the connection
  browser    \* what the browser has got, and how the answer ended

vars == <<serve, next, toDesktop, toGateway, job, up, browser>>

Kinds == {"stop", "stream", "ordinary"}
Message == [type : {"request", "cancel", "response", "data", "done"}, id : Nat, of : Requests]
NotServed == [phase |-> "new", id |-> 0, pending |-> FALSE, replies |-> <<>>, failed |-> FALSE]
Served == [NotServed EXCEPT !.phase = "over"]
NoJob == [phase |-> "none", id |-> 0, sent |-> 0, cancelled |-> FALSE]

TypeOK ==
  /\ \A r \in Requests :
       /\ serve[r].phase \in {"new", "body", "relay", "wait", "leave", "over"}
       /\ serve[r].id \in 0..next /\ Len(serve[r].replies) <= ReplySlots
       /\ serve[r].pending => serve[r].phase \in {"relay", "wait"}
       /\ job[r].phase \in {"none", "runs", "said", "gone"} /\ job[r].id \in 0..next
       /\ job[r].sent \in 0..MaxData + 1
  /\ next \in 0..Cardinality(Requests)
  /\ \A m \in {toDesktop[i] : i \in DOMAIN toDesktop} \cup {toGateway[i] : i \in DOMAIN toGateway} : m \in Message
  /\ up \in [{"gateway", "desktop"} -> BOOLEAN]

Init ==
  /\ serve = [r \in Requests |-> NotServed] /\ next = 0
  /\ toDesktop = <<>> /\ toGateway = <<>>
  /\ job = [r \in Requests |-> NoJob]
  /\ up = [gateway |-> TRUE, desktop |-> TRUE]
  /\ browser = [r \in Requests |-> [got |-> <<>>, end |-> "open"]]

Ends(r, how) == browser' = [browser EXCEPT ![r].end = how]

-------------------------------------------------------------------------------
(* endpoint.serve: body, lane, number, request *)

\* who holds a lane: while the gateway reads the body, while it relays, at the desktop
Holders(place, kind) ==
  {r \in Requests : Kind(r) = kind /\
     CASE place = "reading"  -> serve[r].phase = "body"
       [] place = "relaying" -> serve[r].phase \in {"relay", "wait", "leave"}
       [] place = "desktop"  -> job[r].phase \in {"runs", "said"}}

\* slip: ordinary requests count against the lanes of STOP
OneLane(place, r) == Cardinality(UNION {Holders(place, kind) : kind \in Kinds}) >= Lanes(Kind(r))

\* capacity.acquire
Full(place, r) == Cardinality(Holders(place, Kind(r))) >= Lanes(Kind(r))

GatewayOnly == UNCHANGED <<toDesktop, toGateway, job, up>>

\* an endpoint is found as long as its connection is registered
Arrive(r) ==
  /\ serve[r].phase = "new" /\ browser[r].end = "open"
  /\ UNCHANGED next /\ GatewayOnly
  /\ \/ ~up.gateway /\ Ends(r, "failed") /\ UNCHANGED serve
     \/ up.gateway /\ Full("reading", r) /\ Ends(r, "busy") /\ UNCHANGED serve
     \/ /\ up.gateway /\ ~Full("reading", r)
        /\ serve' = [serve EXCEPT ![r].phase = "body"] /\ UNCHANGED browser

\* the deadline of the body, or its limit
BodyFails(r) ==
  /\ serve[r].phase = "body"
  /\ serve' = [serve EXCEPT ![r].phase = "over"]
  /\ Ends(r, "failed") /\ UNCHANGED next /\ GatewayOnly

\* slip: the number of an ended request is given out again
LowestFree(n) ==
  CHOOSE i \in 1..n + 1 : /\ \A r \in Requests : serve[r].pending => serve[r].id # i
                          /\ \A j \in 1..i - 1 : \E r \in Requests : serve[r].pending /\ serve[r].id = j

\* numbers are never reused
NextId(n) == n + 1

BodyArrives(r) ==
  /\ serve[r].phase = "body" /\ GatewayOnly
  /\ \/ /\ Full("relaying", r) /\ UNCHANGED next
        /\ serve' = [serve EXCEPT ![r].phase = "over"] /\ Ends(r, "busy")
     \/ /\ ~Full("relaying", r)
        /\ next' = NextId(next)
        /\ serve' = [serve EXCEPT ![r].phase = "relay", ![r].id = NextId(next), ![r].pending = TRUE]
        /\ UNCHANGED browser

\* the loop of serve is left: from now on nothing is routed to this request
Leaves(r, how) ==
  /\ serve' = [serve EXCEPT ![r].phase = "leave", ![r].pending = FALSE, ![r].replies = <<>>]
  /\ Ends(r, how)

SendRequest(r) ==
  /\ serve[r].phase = "relay" /\ UNCHANGED <<next, toGateway, job, up>>
  /\ \/ /\ up.gateway
        /\ serve' = [serve EXCEPT ![r].phase = "wait"]
        /\ toDesktop' = IF up.desktop THEN Append(toDesktop, [type |-> "request", id |-> serve[r].id, of |-> r])
                        ELSE toDesktop
        /\ UNCHANGED browser
     \/ ~up.gateway /\ Leaves(r, "failed") /\ UNCHANGED toDesktop

\* the browser leaves, cannot be written to, or the request has lasted thirty seconds
GiveUp(r) ==
  /\ serve[r].phase \in {"relay", "wait"}
  /\ Leaves(r, "failed")
  /\ UNCHANGED next /\ GatewayOnly

NoticeEnd(r) ==
  /\ serve[r].phase = "wait"
  /\ ~up.gateway \/ serve[r].failed
  /\ Leaves(r, "failed")
  /\ UNCHANGED next /\ GatewayOnly

\* one piece is passed on; a browser that reads slowly delays it (OwnAnswers says why
\* the refusals of a second head and of data without one are never reached)
TakeReply(r) ==
  /\ serve[r].phase = "wait" /\ serve[r].replies # <<>>
  /\ UNCHANGED next /\ GatewayOnly
  /\ LET m == Head(serve[r].replies) IN
     \/ /\ m.type # "done"
        /\ serve' = [serve EXCEPT ![r].replies = Tail(@)]
        /\ browser' = [browser EXCEPT ![r].got = Append(@, [type |-> m.type, of |-> m.of])]
     \/ m.type = "done" /\ Leaves(r, "whole")

\* the deferred cancel, then the lane is free
SendCancel(r) ==
  /\ serve[r].phase = "leave"
  /\ serve' = [serve EXCEPT ![r] = Served]
  /\ toDesktop' = IF up.gateway /\ up.desktop THEN Append(toDesktop, [type |-> "cancel", id |-> serve[r].id, of |-> r])
                  ELSE toDesktop
  /\ UNCHANGED <<next, toGateway, job, up, browser>>

-------------------------------------------------------------------------------
(* The gateway's reader *)

Awaiting(id) == {r \in Requests : serve[r].pending /\ serve[r].id = id}

\* a browser that does not keep up loses its answer, never the tunnel
Kept(s, m) ==
  IF Len(s.replies) < ReplySlots THEN [s EXCEPT !.replies = Append(@, m)]
  ELSE [s EXCEPT !.pending = FALSE, !.failed = TRUE]

\* slip: the reader waits for a browser whose slots are full
ReadWhenRoom ==
  /\ up.gateway /\ toGateway # <<>>
  /\ \A r \in Awaiting(Head(toGateway).id) : Len(serve[r].replies) < ReplySlots
  /\ toGateway' = Tail(toGateway)
  /\ serve' = [r \in Requests |-> IF r \in Awaiting(Head(toGateway).id) THEN Kept(serve[r], Head(toGateway))
                                  ELSE serve[r]]
  /\ UNCHANGED <<next, toDesktop, job, up, browser>>

GatewayReads ==
  /\ up.gateway /\ toGateway # <<>>
  /\ toGateway' = Tail(toGateway)
  /\ serve' = [r \in Requests |-> IF r \in Awaiting(Head(toGateway).id) THEN Kept(serve[r], Head(toGateway))
                                  ELSE serve[r]]
  /\ UNCHANGED <<next, toDesktop, job, up, browser>>

-------------------------------------------------------------------------------
(* The desktop *)

DesktopOnly == UNCHANGED <<serve, next, browser>>
Holding(id) == {r \in Requests : job[r].phase \in {"runs", "said"} /\ job[r].id = id}
CancelAll(jobs) == [r \in Requests |-> [jobs[r] EXCEPT !.cancelled = @ \/ jobs[r].phase \in {"runs", "said"}]]
Say(m) == IF up.desktop /\ up.gateway THEN Append(toGateway, m) ELSE toGateway
Piece(type, m) == [m EXCEPT !.type = type]

\* a number that comes twice would end the connection; NextId never gives one twice
DesktopReads ==
  /\ up.desktop /\ toDesktop # <<>>
  /\ toDesktop' = Tail(toDesktop) /\ DesktopOnly
  /\ LET m == Head(toDesktop) IN
     \/ /\ m.type = "cancel"
        /\ job' = [r \in Requests |-> [job[r] EXCEPT !.cancelled = @ \/ r \in Holding(m.id)]]
        /\ UNCHANGED <<toGateway, up>>
     \/ /\ m.type = "request" /\ Full("desktop", m.of)    \* 429
        /\ toGateway' = IF up.gateway THEN toGateway \o <<Piece("response", m), Piece("done", m)>> ELSE toGateway
        /\ job' = [job EXCEPT ![m.of] = [NoJob EXCEPT !.phase = "gone"]]
        /\ UNCHANGED up
     \/ /\ m.type = "request" /\ ~Full("desktop", m.of)
        /\ job' = [job EXCEPT ![m.of] = [NoJob EXCEPT !.phase = "runs", !.id = m.id]]
        /\ UNCHANGED <<toGateway, up>>

\* the handler writes the head of its answer, or some of its body
Write(r) ==
  /\ job[r].phase = "runs" /\ ~job[r].cancelled /\ job[r].sent <= MaxData
  /\ Kind(r) = "stop" => job[r].sent = 0
  /\ toGateway' = Say([type |-> IF job[r].sent = 0 THEN "response" ELSE "data", id |-> job[r].id, of |-> r])
  /\ job' = [job EXCEPT ![r].sent = @ + 1]
  /\ UNCHANGED <<toDesktop, up>> /\ DesktopOnly

\* the handler returns: after a cancel without a word; a stream returns for nothing else
Return(r) ==
  /\ job[r].phase = "runs"
  /\ \/ job[r].cancelled /\ UNCHANGED toGateway
     \/ /\ ~job[r].cancelled /\ Kind(r) # "stream" /\ job[r].sent > 0
        /\ toGateway' = Say([type |-> "done", id |-> job[r].id, of |-> r])
  /\ job' = [job EXCEPT ![r].phase = "said"]
  /\ UNCHANGED <<toDesktop, up>> /\ DesktopOnly

\* only then it is no longer pending and its lane is free
Release(r) ==
  /\ job[r].phase = "said"
  /\ job' = [job EXCEPT ![r].phase = "gone", ![r].id = 0]
  /\ UNCHANGED <<toDesktop, toGateway, up>> /\ DesktopOnly

\* thirty seconds have passed here
JobExpires(r) ==
  /\ job[r].phase = "runs" /\ Kind(r) # "stream" /\ ~job[r].cancelled
  /\ job' = [job EXCEPT ![r].cancelled = TRUE]
  /\ UNCHANGED <<toDesktop, toGateway, up>> /\ DesktopOnly

(* The connection ends: at one end first, and at the other because its reads or   *)
(* pings fail.                                                                    *)
LoseAtGateway ==
  /\ up.gateway /\ up' = [up EXCEPT !.gateway = FALSE] /\ toGateway' = <<>>
  /\ UNCHANGED <<serve, next, toDesktop, job, browser>>

LoseAtDesktop ==
  /\ up.desktop /\ up' = [up EXCEPT !.desktop = FALSE] /\ job' = CancelAll(job)
  /\ toDesktop' = <<>>
  /\ UNCHANGED <<serve, next, toGateway, browser>>

HandleRequest(r) ==
  \/ Arrive(r) \/ BodyFails(r) \/ BodyArrives(r) \/ SendRequest(r) \/ GiveUp(r) \/ NoticeEnd(r)
  \/ TakeReply(r) \/ SendCancel(r)

Work(r) == Write(r) \/ Return(r) \/ Release(r) \/ JobExpires(r)

Next ==
  \/ \E r \in Requests : HandleRequest(r) \/ Work(r)
  \/ GatewayReads \/ DesktopReads \/ LoseAtGateway \/ LoseAtDesktop

Spec == Init /\ [][Next]_vars

(* What the code's goroutines do without anybody's help: both readers read, serve *)
(* goes on after the body and after its loop, a cancelled handler returns, the    *)
(* handler of STOP answers, an end whose peer is gone notices, and thirty seconds *)
(* that have passed at the desktop have passed at the gateway, which began first. *)
(* No other browser has to read or to leave, and no other handler has to finish.  *)
Fairness ==
  /\ WF_vars(GatewayReads) /\ WF_vars(DesktopReads)
  /\ WF_vars(~up.desktop /\ LoseAtGateway)
  /\ WF_vars(~up.gateway /\ LoseAtDesktop)
  /\ \A r \in Requests :
       /\ WF_vars(SendRequest(r)) /\ WF_vars(SendCancel(r))
       /\ WF_vars(NoticeEnd(r))
       /\ WF_vars(Release(r)) /\ WF_vars(job[r].cancelled /\ Return(r))
       /\ Kind(r) = "stop" => /\ WF_vars(BodyArrives(r)) /\ WF_vars(TakeReply(r))
                              /\ WF_vars(Write(r)) /\ WF_vars(Return(r))
                              /\ WF_vars(job[r].cancelled /\ GiveUp(r))

FairSpec == Spec /\ Fairness

-------------------------------------------------------------------------------
(* Properties *)

\* A browser gets the pieces of its own answer, in their order and without a gap,
\* whatever was cancelled, dropped or still under way when its request was numbered.
OwnAnswers ==
  \A r \in Requests : LET got == browser[r].got IN
    /\ \A i \in DOMAIN got : got[i].of = r /\ (got[i].type = "response" <=> i = 1)
    /\ browser[r].end = "whole" => got # <<>>
    /\ browser[r].end = "whole" /\ job[r].sent > 0 => Len(got) = job[r].sent

\* The late cancel of a request never stops another one (server.go: "This also
\* cancels completed requests safely").
OnlyOwnCancel ==
  [][\A r \in Requests :
       job'[r].cancelled /\ ~job[r].cancelled /\ toDesktop' # toDesktop /\ up' = up
         => browser[r].end # "open"]_vars

\* The gateway turns a STOP away for want of room only when as many STOPs are under
\* way already ("Capacity reserves a separate lane for STOP even while ordinary
\* requests or long-lived event streams are at their limits", protocol.go).
StopsFillTheLane ==
  \A r \in Requests :
    Kind(r) = "stop" /\ browser'[r].end = "busy" /\ browser[r].end # "busy"
      => Lanes("stop") \in {Cardinality(Holders("reading", "stop") \ {r}),
                            Cardinality(Holders("relaying", "stop"))}
StopHasALane == [][StopsFillTheLane]_vars

\* A STOP that was let in is answered, or its browser is told that the desktop is
\* gone, though no other browser ever reads and no other handler ever ends: a slow
\* browser never stalls every remote and its STOP.
StopIsAnswered ==
  \A r \in Requests : Kind(r) = "stop" =>
    (serve[r].phase = "body" ~> browser[r].end # "open")

\* The handler of a request its browser has left ends, even that of a stream that
\* would go on for ever, even when the connection breaks before the cancel is sent.
AbandonedEnds ==
  \A r \in Requests : browser[r].end # "open" ~> job[r].phase \in {"none", "gone"}

\* The desktop takes every STOP the gateway lets through: there are four lanes for
\* it ("Per host it permits ... four reserved STOP requests", gateway-install.md).
\* It does not hold: the desktop frees a lane after it has said "done", and the
\* gateway's lane is free once it has heard that, or has left.
StopIsTaken ==
  [][\A r \in Requests : Kind(r) = "stop" /\ job[r].phase = "none" => job'[r].phase # "gone"]_vars
=============================================================================
