-------------------------- MODULE MC_MaintenanceScan --------------------------
(* MaintenanceScan on small instances. *)
EXTENDS MaintenanceScan

AllTroubles == TroubleKinds

=============================================================================
