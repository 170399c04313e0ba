---------------------------- MODULE UpdateHandoff ----------------------------
(***************************************************************************)
(* An update from the first check to the last record: the manager of the   *)
(* running host with the part of main.go behind it, and the helper that    *)
(* replaces the application when main has let go of everything else        *)
(* (main.go, finishUpdateHandoff; update/helper.go, Launch).               *)
(*                                                                         *)
(* The helper says that it is ready before Launch returns, and nothing of  *)
(* the host is left to run but its exit, for which the helper waits.       *)
(***************************************************************************)
EXTENDS UpdateManager, UpdateHelper

updateVars == <<managerVars, helperVars>>

UpdateInit == ManagerInit /\ HelperInit

ByHost == ManagerNext /\ UNCHANGED helperVars
ByHelper == prepared = "launched" /\ HelperNext /\ UNCHANGED managerVars

UpdateNext == ByHost \/ ByHelper

UpdateFairness ==
  ManagerFairness /\ WF_helperVars(prepared = "launched" /\ HelperStep)
UpdateSpec == UpdateInit /\ [][UpdateNext]_updateVars /\ UpdateFairness

-----------------------------------------------------------------------------
(* Properties.                                                             *)

\* An update that was launched comes to an end, whatever the old application
\* and the new version do: the helper never waits for ever (helper.go, its
\* waits for the parent and for the startup have deadlines).
UpdateEnds == prepared = "launched" ~> pc \in {"done", "killed"}

\* From the check to the last record nothing stays half done: the reservation is
\* given back or the host ends, what was prepared is launched or given up, and the
\* helper ends with an application that runs or an error that is told.
UpdateSettles == HostIsFreed /\ UpdateEnds /\ [](UpdateIsSettled /\ EndsWell)
=============================================================================
