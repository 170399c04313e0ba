------------------------------ MODULE MCRemote ------------------------------
(***************************************************************************)
(* Small instances of the parts of remote control: the manager of the      *)
(* remote access modes, the Cloudflare helper of one connection, the       *)
(* tunnel of the public gateway and the browser sessions behind it.        *)
(*                                                                         *)
(* As in MCHost a behaviour exercises one part and the others rest.  The   *)
(* tunnel runs twice: once with two STOPs that compete for one lane, once  *)
(* with a STOP beside a stream whose answer is longer than what the        *)
(* gateway keeps for a browser.                                            *)
(***************************************************************************)
EXTENDS RemoteAccess, CloudflareHelper

CONSTANTS r1, r2,                                       \* Tunnel
          Browsers, MaxSessions, Lifetime, GuessLimit,  \* Pairing
          MaxRequests, MaxTime

VARIABLES
  part,
  serve, next, toDesktop, toGateway, job, up, browser,
  now, sessions, admitted, guesses, cookie, flight, sent

tunnelVars == <<serve, next, toDesktop, toGateway, job, up, browser>>
pairingVars == <<now, sessions, admitted, guesses, cookie, flight, sent>>

BothStop(r) == "stop"
StopAndStream(r) == IF r = r1 THEN "stop" ELSE "stream"
OneLane(kind) == 1

Lanes == INSTANCE Tunnel
  WITH Requests <- {r1, r2}, Kind <- BothStop, Lanes <- OneLane,
       ReplySlots <- 1, MaxData <- 0
Answers == INSTANCE Tunnel
  WITH Requests <- {r1, r2}, Kind <- StopAndStream, Lanes <- OneLane,
       ReplySlots <- 1, MaxData <- 2
Sessions == INSTANCE Pairing

ASSUME PairingBounds == Sessions!PairingAssumption

RemoteInit ==
  /\ part \in {"access", "cloudflare", "lanes", "answers", "pairing"}
  /\ AccessInit /\ (part = "access" \/ disk = [mode |-> "lan", gate |-> NoGate])
  /\ CloudflareInit
  /\ Answers!Init
  /\ Sessions!Init

RemoteNext ==
  /\ \/ /\ part = "access" /\ AccessNext
        /\ UNCHANGED <<cloudflareVars, tunnelVars, pairingVars>>
     \/ /\ part = "cloudflare" /\ CloudflareNext
        /\ UNCHANGED <<accessVars, tunnelVars, pairingVars>>
     \/ /\ part = "lanes" /\ Lanes!Next
        /\ UNCHANGED <<accessVars, cloudflareVars, pairingVars>>
     \/ /\ part = "answers" /\ Answers!Next
        /\ UNCHANGED <<accessVars, cloudflareVars, pairingVars>>
     \/ /\ part = "pairing" /\ Sessions!Next
        /\ UNCHANGED <<accessVars, cloudflareVars, tunnelVars>>
  /\ UNCHANGED part

remoteVars == <<part, accessVars, cloudflareVars, tunnelVars, pairingVars>>

\* The fairness of each part, as its module states it; what a part could do in its
\* initial state is asked of it only when it is the one that runs.
RemoteSpec ==
  /\ RemoteInit /\ [][RemoteNext]_remoteVars
  /\ AccessFairness
  /\ WF_cloudflareVars(part = "cloudflare" /\ (Prepare \/ PrepareFails)) /\ GoesOn
  /\ Answers!Fairness

-----------------------------------------------------------------------------
(* The properties of the parts, each stated in its module.                 *)

\* Tunnel: the lanes of STOP are refused only when STOPs fill them (protocol.go).
StopHasALane ==
  [][/\ part = "lanes" => Lanes!StopsFillTheLane
     /\ part = "answers" => Answers!StopsFillTheLane]_tunnelVars
\* Tunnel: no browser gets the pieces of another's answer, no cancellation ends
\* another's command, and the books of both sides stay in order (server.go, client.go).
AnswersAreOwn ==
  /\ [](part = "lanes" => Lanes!TypeOK) /\ [](Answers!TypeOK /\ Answers!OwnAnswers)
  /\ Answers!OnlyOwnCancel
\* Tunnel: a STOP that was let in is answered, however slow other browsers are, and
\* work that nobody waits for ends (server.go, connect and serve).
TunnelGoesOn == part = "answers" => Answers!StopIsAnswered /\ Answers!AbandonedEnds

\* Pairing: the gateway admits whom the desktop would, wrong guesses do not lock the
\* right key out, and the tables of sessions keep their bounds (auth.go, admission.go).
PairingIsSound == Sessions!TypeOK /\ Sessions!PairedIsAdmitted /\ Sessions!RightKeyIsTaken
=============================================================================
