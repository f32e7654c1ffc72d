----------------------------- MODULE MCArchivos -----------------------------
(* Instances of Archivos and of SistemaDeArchivos for TLC.                  *)
EXTENDS Archivos

CONSTANTS p1, p2, fa, fb, fc

\* Opened to be created, read and written; opened to be read.
MCBanderas == {{"c", "r", "w"}, {"r"}}
\* Nothing after the flags, or a "w".
MCBasura == {{}, {"w"}}

MCSimetria == Permutations({p1, p2}) \cup Permutations({fa, fb, fc})
=============================================================================
