------------------------------ MODULE MCStatus ------------------------------
(***************************************************************************)
(* Instances of ObservableStatus for TLC.                                  *)
(***************************************************************************)
EXTENDS ObservableStatus
=============================================================================
