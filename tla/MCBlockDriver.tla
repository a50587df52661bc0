--------------------------- MODULE MCBlockDriver ---------------------------
(* The driver with three requests, for TLC.                         *)
EXTENDS BlockDriver
=============================================================================
