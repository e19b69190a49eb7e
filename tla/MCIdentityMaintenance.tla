----------------------- MODULE MCIdentityMaintenance -----------------------
(***************************************************************************)
(* Instances of IdentityMaintenance for TLC.                               *)
(***************************************************************************)
EXTENDS IdentityMaintenance

NoDisturbance == [k \in Disturbances |-> 0]
Once          == [k \in Disturbances |-> IF k = "record" THEN 0 ELSE 1]
UnrecordedToo == [NoDisturbance EXCEPT !["work"] = 1, !["record"] = 1]
TwoCrashes    == [k \in Disturbances |-> IF k = "crash" THEN 2 ELSE 1]

=============================================================================
