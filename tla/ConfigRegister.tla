---------------------------- MODULE ConfigRegister ----------------------------
(***************************************************************************)
(* What the rest of KubeDirector is promised of the settings: there is a   *)
(* spec that is current, users replace it, and at any time one spec as a   *)
(* whole is in force, the current one, an earlier one or the defaults.     *)
(* The promise ends when a key could not be stored.                        *)
(***************************************************************************)
CONSTANTS Specs, Default

VARIABLES
  current,  \* what the stored resource says, the defaults when there is none
  past,     \* what has been current
  inForce,  \* what KubeDirector goes by
  adrift    \* whether the promise has ended

registerVars == <<current, past, inForce, adrift>>

RegisterInit ==
  /\ current \in Specs /\ past = {current, Default}
  /\ inForce = Default /\ adrift = FALSE

\* A key that is left out is completed as it comes into force.
Replace ==
  /\ current' \in Specs /\ past' = past \cup {current'}
  /\ inForce' \in {inForce, current'} /\ UNCHANGED adrift

TakeEffect ==
  /\ inForce' \in past /\ UNCHANGED <<current, past, adrift>>

LoseGrip == adrift' = TRUE /\ UNCHANGED <<current, past>>

RegisterNext == Replace \/ TakeEffect \/ LoseGrip

RegisterSpec == RegisterInit /\ [][RegisterNext]_registerVars
=============================================================================
