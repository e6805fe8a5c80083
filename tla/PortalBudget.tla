----------------------------- MODULE PortalBudget ----------------------------
(***************************************************************************)
(* What a descent run promises about its portal (server/descent.go:15-22): *)
(* a run is granted a number of uses when it begins, each death or trip    *)
(* home takes one, none ever comes back, and a run ends exactly when one   *)
(* more is needed than are left.  Saves take a run back to where it was.   *)
(***************************************************************************)
EXTENDS Naturals

CONSTANTS Portals, \* Config.Portals
          NoSave   \* no save file

VARIABLES run,   \* which run
          left,  \* its uses left
          begun, \* it has entered its chart
          file   \* the run as saved, or NoSave

vars == <<run, left, begun, file>>

Fresh == run = 1 /\ left = Portals /\ begun \in BOOLEAN /\ file = NoSave

(* A deep start is granted fewer, though never none. *)
Granted == {Portals, IF Portals <= 1 THEN 1 ELSE Portals - 1}

Begin == ~begun /\ begun' /\ left' \in Granted /\ UNCHANGED <<run, file>>

Spend == begun /\ left > 0 /\ left' = left - 1 /\ UNCHANGED <<run, begun, file>>

NextRun ==
  /\ begun /\ left = 0
  /\ run' = run + 1 /\ left' = Portals /\ begun' \in BOOLEAN
  /\ UNCHANGED file

Save == file' = [run |-> run, left |-> left, begun |-> begun] /\ UNCHANGED <<run, left, begun>>

Load ==
  /\ file # NoSave
  /\ run' = file.run /\ left' = file.left /\ begun' = file.begun
  /\ UNCHANGED file

(* A save without a run resumes as the first one, begun. *)
LoadWorld ==
  /\ file # NoSave
  /\ run' = 1 /\ left' = Portals /\ begun' = TRUE
  /\ UNCHANGED file

Next == Begin \/ Spend \/ NextRun \/ Save \/ Load \/ LoadWorld

Spec == Fresh /\ [][Next]_vars
=============================================================================
