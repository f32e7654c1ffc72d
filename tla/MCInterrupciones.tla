-------------------------- MODULE MCInterrupciones --------------------------
(* Instances of Interrupciones for TLC.                                     *)
EXTENDS Interrupciones

CONSTANTS p1, p2, p3, c1, c2, sa, sb

I(op) == [op |-> op]
J(op, sem) == [op |-> op, sem |-> sem]

\* Programs to be killed while they are ready, run, or wait.
MCCortos ==
  p1 :> <<J("wait", sa), I("fin")>> @@
  p2 :> <<J("signal", sa), I("fin")>> @@
  p3 :> <<I("usa"), I("usa"), I("fin")>>
MCInicialCortos == sa :> 0 @@ sb :> 0

\* Programs for CPUs that leave: one blocks and then asks the Kernel for
\* something, the other wakes it, from the other CPU perhaps before the first has
\* stopped it, and goes on after a quantum.
MCSalidas ==
  p1 :> <<J("wait", sa), I("pide"), I("fin")>> @@
  p2 :> <<J("signal", sa), I("usa"), I("fin")>>
=============================================================================
