----------------------------- MODULE MCBoothMgr -----------------------------
(***************************************************************************)
(* Instances of BoothMgr for TLC.                                          *)
(***************************************************************************)
EXTENDS BoothMgr

(* Vehicles come and go; two vehicles are too few for a booth.  Booths of  *)
(* four and of six have different thresholds.                              *)
DistinctIds == {{1, 2}, {1, 2, 3}, {2, 3, 4}, {2, 3, 4, 11, 12}}
=============================================================================
