------------------------------- MODULE MCServer -------------------------------
(***************************************************************************)
(* Model-checking instance of the modules about servers and connections.   *)
(* A behaviour is about the calls on a ServerBuilder and its build(),      *)
(* about the rotation tasks of the configs that were built, about an       *)
(* AwsLcTicketRotator, or about an H2Connection and its tasks.             *)
(***************************************************************************)
EXTENDS ServerBuilder, TicketRotation, AwsLcTicketRotator, H2Connection

VARIABLE scene  \* "builder", "rotation", "rotator" or "h2"

MCInit ==
    /\ scene \in {"builder", "rotation", "rotator", "h2"}
    /\ Init
    /\ scene # "builder" => b.api = "facade"
    /\ RotationInit
    /\ RotatorInit
    /\ H2Init
    /\ scene # "h2" => pc[Keepalive] = "off"

\* There is nothing left to do with a builder that was consumed, and the handles of a
\* connection whose driver has ended may be kept for good.
BuilderGone == phase # "open" /\ UNCHANGED vars
ConnectionGone == driver # "running" /\ UNCHANGED h2Vars

MCNext ==
    \/ scene = "builder" /\ (Next \/ BuilderGone)
         /\ UNCHANGED <<scene, rotationVars, rotatorVars, h2Vars>>
    \/ scene = "rotation" /\ RotationNext /\ UNCHANGED <<scene, vars, rotatorVars, h2Vars>>
    \/ scene = "rotator" /\ RotatorNext /\ UNCHANGED <<scene, vars, rotationVars, h2Vars>>
    \/ scene = "h2" /\ (H2Next \/ ConnectionGone)
         /\ UNCHANGED <<scene, vars, rotationVars, rotatorVars>>

MCSpec ==
    /\ MCInit
    /\ [][MCNext]_<<scene, vars, rotationVars, rotatorVars, h2Vars>>
    /\ scene = "rotation" => RotationFairness
    /\ scene = "h2" => TaskFairness /\ PeerFairness
=============================================================================
