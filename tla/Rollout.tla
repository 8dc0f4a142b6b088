------------------------------ MODULE Rollout ------------------------------
(***************************************************************************)
(* What a lane of the tuning lab promises about a new configuration,       *)
(* whichever SDK its Worker is written in.                                 *)
(*                                                                         *)
(* The Task Queue of a process that has begun to poll keeps a poller until *)
(* the process ends.  A Worker is replaced only by one that is built       *)
(* otherwise, so a configuration that changes no build changes no poller.  *)
(* Where the new Worker polls before the old one stops (Overlaps) the      *)
(* change is not seen on the Task Queue; elsewhere the Task Queue may have *)
(* no poller until the new Worker's run() has begun to poll, and has none  *)
(* once it has raised, until a configuration asks for another build.       *)
(*                                                                         *)
(* The UI shows a configuration as applied only when a Worker reported     *)
(* that it had been built with it.  Versions start again with the          *)
(* controller, so this is promised of the configurations whose version     *)
(* no controller had given out before (trusted).                           *)
(***************************************************************************)
EXTENDS Naturals

CONSTANTS Builds, NotBuilt, Overlaps

VARIABLES
  want,     \* the configuration last set
  trusted,  \* its version was never given out before
  built,    \* what the Worker of the report on show was built with
  shown,    \* the UI shows the configuration as applied
  alive,    \* the Worker process runs
  current,  \* what its Worker is built with
  poller,   \* who polls the Task Queue: none, a Worker that starts, a Worker
  raised    \* times that a Worker's run() has raised

setVars == <<want, trusted>>
toldVars == <<built, shown>>
workerVars == <<alive, current, poller, raised>>
vars == <<setVars, toldVars, workerVars>>

Init ==
  /\ want \in Builds
  /\ trusted = TRUE
  /\ built = NotBuilt
  /\ shown = FALSE
  /\ alive = TRUE
  /\ current = NotBuilt
  /\ poller = "none"
  /\ raised = 0

(* A configuration is posted: it is not applied yet.                       *)
Set ==
  /\ want' \in Builds
  /\ trusted' \in BOOLEAN
  /\ trusted => trusted'
  /\ shown' \in BOOLEAN
  /\ trusted' => ~shown'
  /\ UNCHANGED <<built, workerVars>>

(* A report arrives, of this configuration or of an earlier one.           *)
Tell ==
  /\ built' \in Builds \cup {NotBuilt}
  /\ shown' \in BOOLEAN
  /\ trusted /\ shown' => built' = want
  /\ UNCHANGED <<setVars, workerVars>>

(* A Worker is made, and replaces the one there is.                        *)
Swap ==
  /\ alive
  /\ current' \in Builds \ {current}
  /\ poller' = IF Overlaps THEN "polling" ELSE "starting"
  /\ UNCHANGED <<setVars, toldVars, alive, raised>>

RunStarts ==
  /\ poller = "starting"
  /\ poller' = "polling"
  /\ UNCHANGED <<setVars, toldVars, alive, current, raised>>

RunRaises ==
  /\ ~Overlaps
  /\ poller # "none"
  /\ poller' = "none"
  /\ raised' = raised + 1
  /\ UNCHANGED <<setVars, toldVars, alive, current>>

(* The process ends, by a crash or to take a new cache size.               *)
End ==
  /\ alive' = FALSE
  /\ current' = NotBuilt
  /\ poller' = "none"
  /\ UNCHANGED <<setVars, toldVars, raised>>

Begin ==
  /\ ~alive
  /\ alive' = TRUE
  /\ UNCHANGED <<setVars, toldVars, current, poller, raised>>

RestartController ==
  /\ want' \in Builds
  /\ trusted' = FALSE
  /\ built' = NotBuilt
  /\ shown' = FALSE
  /\ UNCHANGED workerVars

Next ==
  Set \/ Tell \/ Swap \/ RunStarts \/ RunRaises \/ End \/ Begin \/ RestartController

Spec == Init /\ [][Next]_vars
=============================================================================
