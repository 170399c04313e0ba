------------------------------- MODULE Pairing -------------------------------
(* Browser sessions behind the public gateway: the desktop issues and revokes     *)
(* them (auth/auth.go, httpapi/api.go), the gateway keeps a copy of its own to    *)
(* decide who may occupy a STOP lane (gateway/admission.go), and answers are lost *)
(* when a browser leaves.  A session is the number of the pairing that made it;   *)
(* the clock ticks between any two steps.                                         *)
EXTENDS Integers, FiniteSets, Functions

CONSTANTS
  Browsers,
  MaxSessions,   \* sessions kept, by the desktop and by the gateway
  Lifetime,      \* of a session, in ticks
  GuessLimit,    \* wrong keys compared in a window of a minute, one tick here
  MaxRequests, MaxTime   \* bounds

PairingAssumption ==
  /\ MaxSessions \in Nat \ {0} /\ Lifetime \in Nat \ {0} /\ GuessLimit \in Nat
  /\ MaxRequests \in Nat /\ MaxTime \in Nat

VARIABLES
  now,
  sessions,  \* the desktop's: session -> when it ends
  admitted,  \* the gateway's copy
  guesses,   \* the desktop's window of guesses
  cookie,    \* what each browser holds, 0 is none
  flight,    \* the requests under way
  sent       \* requests so far

vars == <<now, sessions, admitted, guesses, cookie, flight, sent>>

Sessions == 1..MaxRequests
Kinds == {"pair", "guess", "logout", "stop"}

\* a request carries the cookie its browser held; its number is also that of the
\* session a pairing makes
Request == [n : Sessions, browser : Browsers, kind : Kinds, cookie : 0..MaxRequests,
            answer : {"none", "done", "unpaired", "throttled"}]

TypeOK ==
  /\ now \in 0..MaxTime /\ sent \in 0..MaxRequests
  /\ \A table \in {sessions, admitted} :
       /\ DOMAIN table \subseteq Sessions /\ Cardinality(DOMAIN table) <= MaxSessions
       /\ \A s \in DOMAIN table : table[s] \in 0..now + Lifetime
  /\ guesses.since \in 0..MaxTime /\ guesses.count \in 0..GuessLimit
  /\ cookie \in [Browsers -> 0..MaxRequests] /\ flight \subseteq Request

NoSessions == [s \in {} |-> 0]

Init ==
  /\ now = 0 /\ sessions = NoSessions /\ admitted = NoSessions
  /\ guesses = [since |-> 0, count |-> 0]
  /\ cookie = [b \in Browsers |-> 0] /\ flight = {} /\ sent = 0

\* expire
Live(table) == Restrict(table, {s \in DOMAIN table : now < table[s]})
Without(table, s) == Restrict(table, DOMAIN table \ {s})
With(table, s) == [t \in DOMAIN table \cup {s} |-> IF t = s THEN now + Lifetime ELSE table[t]]

Tick == now < MaxTime /\ now' = now + 1
        /\ UNCHANGED <<sessions, admitted, guesses, cookie, flight, sent>>

\* a browser sends a request; the gateway lets a STOP in only for a session it knows
Send(b, kind) ==
  /\ sent < MaxRequests /\ sent' = sent + 1
  /\ kind = "stop" => cookie[b] \in DOMAIN Live(admitted)
  /\ admitted' = IF kind = "stop" THEN Live(admitted) ELSE admitted
  /\ flight' = flight \cup {[n |-> sent + 1, browser |-> b, kind |-> kind, cookie |-> cookie[b],
                              answer |-> "none"]}
  /\ UNCHANGED <<now, sessions, guesses, cookie>>

\* PairCommand's budget of guesses
Window == IF now - guesses.since >= 1 THEN [since |-> now, count |-> 0] ELSE guesses

\* the right key of a public gateway is compared before the budget is
Refuses(q) == q.kind = "guess" /\ Window.count >= GuessLimit

Says(q, answer) == flight' = (flight \ {q}) \cup {[q EXCEPT !.answer = answer]}
DesktopOnly == UNCHANGED <<now, admitted, cookie, sent>>

\* newSession
Grants(q, table) == q.kind = "pair" /\ Cardinality(DOMAIN table) < MaxSessions

\* POST /api/pair: the new session is made before the old one is given up
Pair(q) ==
  /\ q.answer = "none" /\ q.kind \in {"pair", "guess"} /\ DesktopOnly
  /\ \/ /\ Refuses(q) /\ Says(q, "throttled")
        /\ guesses' = Window /\ sessions' = Live(sessions)
     \/ /\ ~Refuses(q) /\ ~Grants(q, Live(sessions)) /\ Says(q, "unpaired")
        /\ guesses' = IF q.kind = "guess" THEN [Window EXCEPT !.count = @ + 1] ELSE guesses
        /\ sessions' = Live(sessions)
     \/ /\ ~Refuses(q) /\ Grants(q, Live(sessions)) /\ Says(q, "done")
        /\ sessions' = Without(With(Live(sessions), q.n), q.cookie)
        /\ UNCHANGED guesses

\* any other request asks for its session first
Use(q) ==
  /\ q.answer = "none" /\ q.kind \in {"logout", "stop"} /\ DesktopOnly /\ UNCHANGED guesses
  /\ \/ /\ q.cookie \in DOMAIN Live(sessions) /\ Says(q, "done")
        /\ sessions' = IF q.kind = "logout" THEN Without(sessions, q.cookie) ELSE sessions
     \/ /\ q.cookie \notin DOMAIN Live(sessions) /\ Says(q, "unpaired")
        /\ sessions' = Without(sessions, q.cookie)

\* slip: any refused pairing takes the session away
RevokesOnAnyFailure(q) == q.answer = "unpaired" \/ (q.kind = "logout" /\ q.answer = "done")

\* a pairing that fails revokes nothing
Revokes(q) == (q.answer = "unpaired" /\ q.kind \notin {"pair", "guess"})
              \/ (q.kind = "logout" /\ q.answer = "done")

\* the gateway evicts nobody: a session it has no room for is not passed on
Learns(q, table) ==
  /\ q.kind = "pair" /\ q.answer = "done"
  /\ Cardinality(DOMAIN table) < MaxSessions \/ q.cookie \in DOMAIN table

\* sessionAdmission.observe, then the answer goes to a browser that may just have left
Observe(q) ==
  /\ q.answer # "none" /\ flight' = flight \ {q}
  /\ LET table == IF Revokes(q) THEN Without(Live(admitted), q.cookie) ELSE Live(admitted)
         learns == Learns(q, table) IN
       /\ admitted' = IF learns THEN With(Without(table, q.cookie), q.n) ELSE table
       /\ \/ UNCHANGED cookie
          \/ learns /\ cookie' = [cookie EXCEPT ![q.browser] = q.n]
          \/ q.kind = "logout" /\ q.answer = "done" /\ cookie' = [cookie EXCEPT ![q.browser] = 0]
  /\ UNCHANGED <<now, sessions, guesses, sent>>

\* the browser leaves before the answer comes: the gateway drops it
Lose(q) == flight' = flight \ {q} /\ UNCHANGED <<now, sessions, admitted, guesses, cookie, sent>>

Next ==
  \/ Tick
  \/ \E b \in Browsers, kind \in Kinds : Send(b, kind)
  \/ \E q \in flight : Pair(q) \/ Use(q) \/ Observe(q) \/ Lose(q)

Spec == Init /\ [][Next]_vars

-------------------------------------------------------------------------------
(* Properties *)

\* The gateway never turns a STOP away from a browser whose session the desktop
\* would accept, whatever pairings, failures, logouts, expiries and lost answers went
\* before and in whatever order their answers came ("A failed attempt to pair again
\* does not revoke the caller's existing desktop session", observe).
PairedIsAdmitted ==
  \A b \in Browsers : cookie[b] \in DOMAIN Live(sessions) => cookie[b] \in DOMAIN Live(admitted)

\* Wrong guesses do not lock out whoever has the key ("A correct public 256-bit
\* secret can authenticate independently of those budgets", PairCommand).
RightKeyIsTaken == \A q \in flight : q.kind = "pair" => q.answer # "throttled"
=============================================================================
