------------------------------ MODULE MCSearch ------------------------------
(* Search on small instances.                                              *)
EXTENDS Search

CONSTANTS t1, t2
=============================================================================
