----------------------------- MODULE RequestLog -----------------------------
(***************************************************************************)
(* The identities of controller requests (src/internal/app/service.go:     *)
(* duplicateLocked, rememberLocked, and how Play and Stop use them).  A    *)
(* controller that got no answer may send a request again; the network may *)
(* deliver it late and in any order.  PLAY toggles, so a request taken     *)
(* twice undoes itself.  An acknowledgement is reduced to the stop epoch.  *)
(***************************************************************************)
EXTENDS Integers, Sequences, SequencesExt

CONSTANTS
  Identities,   \* requestId
  Limit,        \* identities remembered (4096)
  MaxTaken      \* bound: requests carried out

RequestAssumption == Limit \in Nat \ {0} /\ MaxTaken \in Nat

VARIABLES
  requests,   \* s.requests: what was acknowledged, by identity
  order,      \* s.requestOrder
  stopEpoch,
  sent,       \* what each identity asks, once a controller used it
  taken,      \* history: the identities carried out, in order
  answers     \* history: what was answered to an identity since it was carried out

vars == <<requests, order, stopEpoch, sent, taken, answers>>

Unsent == [kind |-> "none", epoch |-> 0]

Init ==
  /\ requests = <<>> /\ order = <<>> /\ stopEpoch = 1
  /\ sent = [id \in Identities |-> Unsent]
  /\ taken = <<>> /\ answers = [id \in Identities |-> {}]

Known(id) == id \in DOMAIN requests

\* A press, made from the state the controller shows.  From here on it may
\* arrive at any time and any number of times.
Send(id) ==
  /\ sent[id] = Unsent
  /\ \E kind \in {"play", "stop"} :
       sent' = [sent EXCEPT ![id] = [kind |-> kind, epoch |-> stopEpoch]]
  /\ UNCHANGED <<requests, order, stopEpoch, taken, answers>>

\* duplicateLocked: the acknowledgement of the first time.
AnswerAgain(id) ==
  /\ Known(id)
  /\ answers' = [answers EXCEPT ![id] = @ \cup {requests[id]}]
  /\ UNCHANGED <<requests, order, stopEpoch, sent, taken>>

Kept == IF Len(order) >= Limit THEN Tail(order) ELSE order
\* slip in Forgotten: room is made by forgetting the newest.
ForgottenNewest(id) == Len(order) >= Limit /\ id = Last(order)
Forgotten(id) == Len(order) >= Limit /\ id = Head(order)

\* rememberLocked, with the state the request led to.
Remember(id, epoch) ==
  /\ order' = Append(Kept, id)
  /\ requests' = [i \in {j \in DOMAIN requests : ~Forgotten(j)} \cup {id} |->
                    IF i = id THEN epoch ELSE requests[i]]
  /\ stopEpoch' = epoch
  /\ taken' = Append(taken, id)
  /\ answers' = [answers EXCEPT ![id] = {epoch}]

Play(id) ==
  /\ sent[id].kind = "play" /\ ~Known(id)
  /\ sent[id].epoch = stopEpoch
  /\ Remember(id, stopEpoch)
  /\ UNCHANGED sent

Stop(id) ==
  /\ sent[id].kind = "stop" /\ ~Known(id)
  /\ Remember(id, stopEpoch + 1)
  /\ UNCHANGED sent

Next ==
  \E id \in Identities :
    \/ Send(id) \/ AnswerAgain(id)
    \/ Len(taken) < MaxTaken /\ (Play(id) \/ Stop(id))
Spec == Init /\ [][Next]_vars

-----------------------------------------------------------------------------
(* Properties.                                                             *)

\* The map and the queue that says what to forget hold the same identities,
\* each once, and no more than the limit: the log cannot grow.
LogIsBounded ==
  /\ DOMAIN requests = {order[i] : i \in DOMAIN order}
  /\ \A i, j \in DOMAIN order : order[i] = order[j] => i = j
  /\ Len(order) <= Limit

\* api.md:85 "The last 4,096 accepted IDs are idempotent": whatever arrives
\* again and when, a request is carried out a second time only after Limit
\* others were, and until then every copy of it is answered alike.
ActsOnce ==
  /\ \A i, j \in DOMAIN taken : i < j /\ taken[i] = taken[j] => j - i > Limit
  /\ \A id \in Identities, a, b \in UNION {answers[i] : i \in Identities} :
       a \in answers[id] /\ b \in answers[id] => a = b

\* Why: the queue is the end of the history, and what the log knows was answered
\* with nothing else.
LogInv ==
  /\ stopEpoch \in Nat /\ order \in Seq(Identities) /\ taken \in Seq(Identities)
  /\ DOMAIN answers = Identities
  /\ DOMAIN requests = {order[i] : i \in DOMAIN order}
  /\ Len(order) = IF Len(taken) < Limit THEN Len(taken) ELSE Limit
  /\ \A i \in DOMAIN order : order[i] = taken[Len(taken) - Len(order) + i]
  /\ \A i, j \in DOMAIN taken : i < j /\ taken[i] = taken[j] => j - i > Limit
  /\ \A id \in Identities : Known(id) => answers[id] = {requests[id]}
  /\ \A id \in Identities : \A a, b \in answers[id] : a = b
=============================================================================
