------------------------------- MODULE MCHost -------------------------------
(***************************************************************************)
(* Small instances of the parts of the host that share no state with each  *)
(* other: the configuration store, an update, the validation loop, the     *)
(* log of requests, the live status streams and the connection slots.      *)
(*                                                                         *)
(* A behaviour exercises one of them, chosen at the beginning; the others  *)
(* rest.  So TLC explores the sum of the parts and not their product, in   *)
(* which nothing more could happen.                                        *)
(***************************************************************************)
EXTENDS Store, UpdateHandoff

CONSTANTS Ids, Sources, None, MaxEdits, MaxAsked,     \* Validation
          Identities, LogLimit, MaxTaken,             \* RequestLog
          Streams, StreamPlaces, MaxChanges,          \* LiveStatus
          Connections, SlotLimit                      \* ConnectionSlots

VARIABLES
  part,
  show, made, queued, job, edit, inspection, edits, asked,
  requests, order, stopEpoch, sent, acted, answers,
  revision, ending, subscribers, slot, ended, stream, snapshot, learnt,
  slots, accept, done, shutListener, conn, released, closers

validationVars == <<show, made, queued, job, edit, inspection, edits, asked>>
requestVars == <<requests, order, stopEpoch, sent, acted, answers>>
streamVars == <<revision, ending, subscribers, slot, ended, stream, snapshot, learnt>>
slotVars == <<slots, accept, done, shutListener, conn, released, closers>>

Validating == INSTANCE Validation WITH loop <- job
Requests == INSTANCE RequestLog WITH Limit <- LogLimit, taken <- acted
Live == INSTANCE LiveStatus WITH Places <- StreamPlaces, closed <- ending, seen <- learnt
Slots == INSTANCE ConnectionSlots
           WITH Limit <- SlotLimit, taken <- slots, closed <- shutListener

ASSUME PartsAssumption ==
  /\ Validating!ValidationAssumption /\ Requests!RequestAssumption
  /\ Live!StreamAssumption /\ Slots!SlotAssumption

\* A part that rests does so in one of its initial states.
RestsAlike ==
  /\ part = "update" \/ ~tried
  /\ \/ part = "validation"
     \/ \A c \in made : c = (CHOOSE d \in Ids : TRUE)
                        /\ show[c].source = (CHOOSE s \in Sources : TRUE)

HostInit ==
  /\ part \in {"store", "update", "validation", "requests", "streams", "slots"}
  /\ StoreInit /\ UpdateInit
  /\ Validating!Init /\ Requests!Init /\ Live!Init /\ Slots!Init
  /\ RestsAlike

StorePart ==
  /\ part = "store" /\ StoreNext
  /\ UNCHANGED <<updateVars, validationVars, requestVars, streamVars, slotVars>>
UpdatePart ==
  /\ part = "update" /\ UpdateNext
  /\ UNCHANGED <<storeVars, validationVars, requestVars, streamVars, slotVars>>
ValidationPart ==
  /\ part = "validation" /\ Validating!Next
  /\ UNCHANGED <<storeVars, updateVars, requestVars, streamVars, slotVars>>
RequestsPart ==
  /\ part = "requests" /\ Requests!Next
  /\ UNCHANGED <<storeVars, updateVars, validationVars, streamVars, slotVars>>
StreamsPart ==
  /\ part = "streams" /\ Live!Next
  /\ UNCHANGED <<storeVars, updateVars, validationVars, requestVars, slotVars>>
SlotsPart ==
  /\ part = "slots" /\ Slots!Next
  /\ UNCHANGED <<storeVars, updateVars, validationVars, requestVars, streamVars>>

HostNext ==
  /\ \/ StorePart \/ UpdatePart \/ ValidationPart
     \/ RequestsPart \/ StreamsPart \/ SlotsPart
  /\ UNCHANGED part

hostVars == <<part, storeVars, updateVars, validationVars, requestVars, streamVars, slotVars>>

\* The fairness of each part, as its module states it.  What a part could do in its
\* initial state is asked of it only when it is the one that runs.
HostSpec ==
  /\ HostInit /\ [][HostNext]_hostVars
  /\ WF_managerVars(part = "update" /\ Main)
  /\ WF_managerVars(Manager) /\ WF_managerVars(Restart)
  /\ WF_helperVars(prepared = "launched" /\ HelperStep)
  /\ WF_validationVars(part = "validation" /\ Validating!Loop)
  /\ WF_validationVars(Validating!Saving)
  /\ Live!Fairness
  /\ WF_slotVars(part = "slots" /\ Slots!Loop) /\ WF_slotVars(Slots!ShutListener)
  /\ \A c \in Connections : WF_slotVars(Slots!EndClose(c))

-----------------------------------------------------------------------------
(* The properties of the parts, each stated in its module.                 *)

\* Validation: a cached result belongs to the file it is shown for, no cue says
\* checking unless somebody checks it, and every cue is checked in the end
\* (edit.go, validationLoop).
ResultsAreTrue ==
  /\ [](Validating!TypeOK /\ Validating!ResultIsOfSource /\ Validating!CheckingIsUnderWay)
  /\ part = "validation" => Validating!EveryCueIsChecked

\* RequestLog: one press acts once, as long as the log remembers it, and the log
\* cannot grow (service.go, duplicateLocked and rememberLocked).
ActsOnce == Requests!LogIsBounded /\ Requests!ActsOnce

\* LiveStatus: no wake-up goes to a closed channel and none is missed; every stream
\* learns of the newest change, and ends after Quit (service.go, Subscribe; api.go, events).
StreamsKeepUp ==
  /\ [](Live!ChannelsAreOpen /\ Live!NothingIsMissed)
  /\ part = "streams" => Live!EveryoneCatchesUp /\ Live!StreamsEnd

\* ConnectionSlots: slots in use are connections, each given back once, and the accept
\* loop ends with its listener (listener.go).
SlotsComeBack ==
  /\ [](part = "slots" => Slots!SlotsAreConnections)
  /\ part = "slots" => Slots!LoopEnds
=============================================================================
