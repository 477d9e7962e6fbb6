---------------------------- MODULE MCGrpoTrainer ----------------------------
(* The .cfg files of GrpoTrainer give every constant a number; this module    *)
(* only names the specification that TLC checks.                              *)
EXTENDS GrpoTrainer
==============================================================================
