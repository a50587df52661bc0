---------------------------- MODULE MCRemoteDisk ----------------------------
(* RemoteDisk with chunks of a few sectors; the constants are in the cfg. *)
EXTENDS RemoteDisk
=============================================================================
