----------------------------- MODULE DurableShow -----------------------------
(* What the configuration store promises: a restart finds the show that was      *)
(* saved last, or one whose saving has been tried since.  Versions of the show   *)
(* are numbers, 0 is "never saved".                                              *)
EXTENDS Naturals

VARIABLES
  may,   \* the versions a restart may find
  good,  \* the version in force in this process
  up     \* is there a process?

vars == <<may, good, up>>

Init == may = {0} /\ good = 0 /\ up = TRUE

\* no version may be found that could not be found before
Narrows == may' \subseteq may /\ may' # {}

\* a save of a new version may have reached the disk, and may yet fail
Attempt(v) == up /\ v \notin may /\ may' \subseteq may \cup {v} /\ UNCHANGED <<good, up>>

\* a save succeeds only when nothing else can be found any more
Saved(v) == up /\ v \in may /\ may' = {v} /\ good' = v /\ UNCHANGED up

Settle == up /\ Narrows /\ UNCHANGED <<good, up>>

Stop == Narrows /\ up' = FALSE /\ UNCHANGED good

Restart(v) == ~up /\ v \in may /\ good' = v /\ up' = TRUE /\ UNCHANGED may

Next ==
  \/ \E v \in may' : Attempt(v)
  \/ \E v \in may : Saved(v) \/ Restart(v)
  \/ Settle \/ Stop

Spec == Init /\ [][Next]_vars
=============================================================================
