---------------------------- MODULE MCFileSystem ----------------------------
(* Instances of SistemaDeArchivos for TLC.                                  *)
EXTENDS SistemaDeArchivos

CONSTANTS fa, fb, fc
=============================================================================
