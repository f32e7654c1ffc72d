--------------------------- MODULE MCPlanificacion ---------------------------
(* Instances of Planificacion for TLC.                                      *)
EXTENDS Planificacion

CONSTANTS p1, p2, p3, c1, c2, sa, sb

I(op) == [op |-> op]
J(op, sem) == [op |-> op, sem |-> sem]

\* Three processes that exclude each other with sa; the second lets the third
\* start with sb.
MCPrograma ==
  p1 :> <<J("wait", sa), I("avisa"), J("signal", sa), I("fin")>> @@
  p2 :> <<J("wait", sa), J("signal", sb), J("signal", sa), I("fin")>> @@
  p3 :> <<J("wait", sb), J("wait", sa), J("signal", sa), I("fin")>>
MCInicial == sa :> 1 @@ sb :> 0
=============================================================================
