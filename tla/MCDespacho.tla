----------------------------- MODULE MCDespacho -----------------------------
(* Instances of Despacho for TLC.                                           *)
EXTENDS DespachoInv

CONSTANTS p1, p2, p3, c1, c2

I(op) == [op |-> op]
\* A program that outlasts a quantum of 2 and asks for a shared variable, one
\* that prints and ends, and one that overflows its stack.
MCPrograma ==
  p1 :> <<I("define"), I("pide"), I("fin")>> @@
  p2 :> <<I("avisa"), I("fin")>> @@
  p3 :> <<I("falla")>>

\* A program that ends, and one that uses the variable it has just defined.
MCVariables ==
  p1 :> <<I("fin")>> @@
  p2 :> <<I("define"), I("usa"), I("fin")>>
=============================================================================
