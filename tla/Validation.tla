----------------------------- MODULE Validation -----------------------------
(***************************************************************************)
(* The checks of media files behind the cues (src/internal/app/edit.go:    *)
(* validationLoop, queueValidation, Validate and the cached results an     *)
(* edit carries over; scene.go and service.go: the results playback's own  *)
(* inspections bring).                                                     *)
(*                                                                         *)
(* One loop inspects a copy of the show cue by cue, for up to 35 s each,   *)
(* without the lock.  Meanwhile an edit clones the show, saves it without  *)
(* the lock and replaces the show by its clone, and the preparation of a   *)
(* background inspects a cue of its own.  A result is reduced to the       *)
(* source it was found for.                                                *)
(***************************************************************************)
EXTENDS Integers

CONSTANTS
  Ids,        \* the cue identities that can be made: none is used twice
  Sources,    \* media files
  None,
  MaxEdits,   \* bound: edits of the show
  MaxAsked    \* bound: checks asked for in Admin, and preparations

ValidationAssumption ==
  None \notin Sources \cup {"unchecked", "checking"} /\ MaxEdits \in Nat /\ MaxAsked \in Nat

VARIABLES
  show,    \* s.config.Cues: the source of each cue and its cached result
  made,    \* identities already given to a cue
  queued,  \* the one slot of s.validation
  loop,    \* validationLoop: where it is, what it still has to inspect, what it inspects
  edit,    \* the edit that holds editMu: its step and the show it is about to save
  inspection,  \* the source a preparation inspects, and its cue
  edits, asked

vars == <<show, made, queued, loop, edit, inspection, edits, asked>>

Gone == [source |-> None, result |-> None]
Unchecked(s) == [source |-> s, result |-> "unchecked"]
Cached == [source : Sources \cup {None},
           result : Sources \cup {None, "unchecked", "checking"}]
Present(shown) == {c \in Ids : shown[c].source # None}
NoInspection == [cue |-> None, source |-> None]
Inspections == [cue : Ids, source : Sources] \cup {NoInspection}
NoEdit == [step |-> "none", show |-> [c \in Ids |-> Gone], checks |-> FALSE]

\* A process starts with the saved show unchecked, and main asks for a check.
Init ==
  /\ \E c \in Ids, s \in Sources :
       /\ show = [d \in Ids |-> IF d = c THEN Unchecked(s) ELSE Gone]
       /\ made = {c}
  /\ queued = TRUE
  /\ loop = [at |-> "idle", todo |-> {}, on |-> NoInspection]
  /\ edit = NoEdit /\ inspection = NoInspection
  /\ edits = 0 /\ asked = 0

-----------------------------------------------------------------------------
(* Results are taken by identity and source.                               *)

Matches(i, c) == c = i.cue /\ show[c].source = i.source

Taken(i, result) ==
  [c \in Ids |-> IF Matches(i, c) THEN [show[c] EXCEPT !.result = result] ELSE show[c]]

-----------------------------------------------------------------------------
(* validationLoop.                                                         *)

BeginJob ==
  /\ loop.at = "idle" /\ queued
  /\ queued' = FALSE
  /\ loop' = [loop EXCEPT !.at = "next",
                !.todo = {[cue |-> c, source |-> show[c].source] : c \in Present(show)}]
  /\ UNCHANGED <<show, made, edit, inspection, edits, asked>>

BeginInspect ==
  /\ loop.at = "next"
  /\ \E i \in loop.todo :
       /\ show' = Taken(i, "checking")
       /\ loop' = [at |-> "inspect", todo |-> loop.todo \ {i}, on |-> i]
  /\ UNCHANGED <<made, queued, edit, inspection, edits, asked>>

EndInspect ==
  /\ loop.at = "inspect"
  /\ show' = Taken(loop.on, loop.on.source)
  /\ loop' = [loop EXCEPT !.at = "next", !.on = NoInspection]
  /\ UNCHANGED <<made, queued, edit, inspection, edits, asked>>

EndJob ==
  /\ loop.at = "next" /\ loop.todo = {}
  /\ loop' = [loop EXCEPT !.at = "idle"]
  /\ UNCHANGED <<show, made, queued, edit, inspection, edits, asked>>

Running == loop.at # "idle"

\* Validate, from Admin: refused while a job runs or waits.
Validate ==
  /\ asked < MaxAsked /\ asked' = asked + 1
  /\ ~Running /\ ~queued
  /\ queued' = TRUE
  /\ UNCHANGED <<show, made, loop, edit, inspection, edits>>

-----------------------------------------------------------------------------
(* Edits, one at a time.                                                   *)

\* editPlaylistLocked: a cue that keeps its source keeps its cached result.
Edited(c, s) ==
  IF s = None THEN Gone ELSE IF s = show[c].source THEN show[c] ELSE Unchecked(s)

\* A cue list of old identities and at most one new one.  A level alone is
\* saved without asking for a check (volume.go).
BeginEdit ==
  /\ edit.step = "none" /\ edits < MaxEdits
  /\ \E to \in [Ids -> Sources \cup {None}], added \in SUBSET (Ids \ made) :
       /\ \A c \in added : to[c] # None /\ \A d \in added : d = c
       /\ \A c \in Ids \ (Present(show) \cup added) : to[c] = None
       /\ edit' = [step |-> "save", show |-> [c \in Ids |-> Edited(c, to[c])],
                   checks |-> TRUE]
       /\ made' = made \cup added
  /\ edits' = edits + 1
  /\ UNCHANGED <<show, queued, loop, inspection, asked>>

EditLevel ==
  /\ edit.step = "none" /\ edits < MaxEdits
  /\ edit' = [step |-> "save", show |-> show, checks |-> FALSE]
  /\ edits' = edits + 1
  /\ UNCHANGED <<show, made, queued, loop, inspection, asked>>

SaveFails ==
  /\ edit.step = "save"
  /\ edit' = NoEdit
  /\ UNCHANGED <<show, made, queued, loop, inspection, edits, asked>>

\* slip in Merged: the clone replaces the show as it is.
NotMerged(c) == edit.show[c]
\* Results that arrived while the clone was saved are kept.
Merged(c) ==
  IF edit.show[c].source # None /\ edit.show[c].source = show[c].source
  THEN show[c] ELSE edit.show[c]

Commit ==
  /\ edit.step = "save"
  /\ show' = [c \in Ids |-> Merged(c)]
  /\ edit' = IF edit.checks THEN [edit EXCEPT !.step = "queue"] ELSE NoEdit
  /\ UNCHANGED <<made, queued, loop, inspection, edits, asked>>

\* queueValidation, after the lock is released: the slot holds one request.
Queue ==
  /\ edit.step = "queue" /\ edit' = NoEdit
  /\ queued' = TRUE
  /\ UNCHANGED <<show, made, loop, inspection, edits, asked>>

-----------------------------------------------------------------------------
(* A background or image being prepared (prepareVisual).                   *)

Prepare ==
  /\ inspection = NoInspection /\ asked < MaxAsked
  /\ asked' = asked + 1
  /\ \E c \in Present(show) : inspection' = [cue |-> c, source |-> show[c].source]
  /\ UNCHANGED <<show, made, queued, loop, edit, edits>>

Prepared ==
  /\ inspection # NoInspection
  /\ show' = Taken(inspection, inspection.source)
  /\ inspection' = NoInspection
  /\ UNCHANGED <<made, queued, loop, edit, edits, asked>>

\* A newer selection replaced it.
Superseded ==
  /\ inspection # NoInspection
  /\ inspection' = NoInspection
  /\ UNCHANGED <<show, made, queued, loop, edit, edits, asked>>

Loop == BeginJob \/ BeginInspect \/ EndInspect \/ EndJob
Saving == SaveFails \/ Commit \/ Queue
Next ==
  \/ Loop \/ Saving \/ Validate \/ BeginEdit \/ EditLevel
  \/ Prepare \/ Prepared \/ Superseded

Spec == Init /\ [][Next]_vars
\* An inspection has its 35 s and a save ends.
Fairness == WF_vars(Loop) /\ WF_vars(Saving)
FairSpec == Spec /\ Fairness

-----------------------------------------------------------------------------
(* Properties.                                                             *)

TypeOK ==
  /\ show \in [Ids -> Cached]
  /\ \A c \in Ids : show[c].source = None <=> show[c].result = None
  /\ made \subseteq Ids /\ queued \in BOOLEAN
  /\ loop.at \in {"idle", "next", "inspect"}
  /\ loop.todo \subseteq Inspections /\ loop.on \in Inspections
  /\ edit.show \in [Ids -> Cached] /\ inspection \in Inspections

\* What is cached for a cue was found for the file it names, however long ago
\* the inspection began and whatever was edited since.
ResultIsOfSource ==
  \A c \in Ids : show[c].result \in Sources => show[c].result = show[c].source

\* A cue shown as being checked is the one the loop inspects: an edit saved
\* meanwhile does not bring the word back for good.
CheckingIsUnderWay ==
  \A c \in Ids : show[c].result = "checking" =>
    loop.at = "inspect" /\ loop.on = [cue |-> c, source |-> show[c].source]

\* Every cue of the show is checked at last, also one that arrives or changes
\* while a job runs over an older copy of the show.
EveryCueIsChecked ==
  \A c \in Ids : show[c].result = "unchecked" ~> show[c].result # "unchecked"
=============================================================================
