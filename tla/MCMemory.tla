------------------------------ MODULE MCMemory ------------------------------
(* Constants for checking Heap: a program of two segments whose file has one *)
(* page more than they do.                                                   *)
EXTENDS Heap

MCSegments == <<[base |-> 1, num |-> 1], [base |-> 2, num |-> 1]>>
=============================================================================
