-------------------------- MODULE MCMaintenanceJob --------------------------
(***************************************************************************)
(* Instances of MaintenanceJob for TLC.                                    *)
(***************************************************************************)
EXTENDS MaintenanceJob

NoDisturbance == [k \in Disturbances |-> 0]
OneEach       == [k \in Disturbances |-> 1]

=============================================================================
