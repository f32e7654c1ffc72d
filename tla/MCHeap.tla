------------------------------- MODULE MCHeap -------------------------------
(* Instance of Heap for TLC.                                                *)
EXTENDS Heap
=============================================================================
