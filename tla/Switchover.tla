----------------------------- MODULE Switchover -----------------------------
(***************************************************************************)
(* What the managed configuration promises to the equipment: a revision is *)
(* in force as a whole, and a write to a device is carried out under the   *)
(* revision its address was looked up in.                                  *)
(***************************************************************************)
EXTENDS Integers

CONSTANT Revisions  \* configuration revisions

VARIABLES
    force,  \* the revision in force, 0 when there is none
    busy    \* the revisions of the writes in progress

switchVars == <<force, busy>>

SwitchInit == force = 0 /\ busy = {}

\* A revision comes into force when none is.
Install == force = 0 /\ force' \in Revisions /\ UNCHANGED busy

\* The producer is gone, with the write it had.
Withdraw == force' = 0 /\ busy' = {}

BeginWrite == force # 0 /\ busy' = {force} /\ UNCHANGED force

EndWrite == busy' = {} /\ UNCHANGED force

SwitchNext == Install \/ Withdraw \/ BeginWrite \/ EndWrite

SwitchSpec == SwitchInit /\ [][SwitchNext]_switchVars

\* A write in progress has the revision in force.
WritesInForce == busy \subseteq {force}
=============================================================================
