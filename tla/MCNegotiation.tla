--------------------------- MODULE MCNegotiation ---------------------------
(* Negotiation on small instances.                                         *)
EXTENDS Negotiation

CONSTANTS t1, t2
=============================================================================
