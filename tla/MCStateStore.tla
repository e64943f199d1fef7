---------------------------- MODULE MCStateStore ----------------------------
(***************************************************************************)
(* The instance of StateStore that TLC checks: its constants are given in  *)
(* MCStateStore.cfg.  Clients are not declared symmetric, because the run  *)
(* checks a liveness property.                                             *)
(***************************************************************************)
EXTENDS StateStore

=============================================================================
