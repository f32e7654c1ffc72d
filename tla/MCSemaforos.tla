---------------------------- MODULE MCSemaforos -----------------------------
(* Instances of Semaforos for TLC.                                          *)
EXTENDS Semaforos, TLC

CONSTANTS p1, p2, p3, p4, sa, sb

MCInicial == sa :> 0 @@ sb :> 1
=============================================================================
