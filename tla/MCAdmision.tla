----------------------------- MODULE MCAdmision -----------------------------
(* Instance of Admision for TLC: two consoles and two CPUs, with sockets   *)
(* before and after those of the others, and three scripts where two       *)
(* programs may be.  Those of one console do not fit in Memoria until a    *)
(* program ends.                                                           *)
EXTENDS Admision

CONSTANTS c1, c2, k1, k2

PaginasMC  == c1 :> 1 @@ c2 :> 2
PrimerosMC == <<k1, c1, k2>>
=============================================================================
