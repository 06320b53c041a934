---------------------------- MODULE MCEventStream ----------------------------
(* EventStream, and with it Session, on a small instance.                  *)
EXTENDS EventStream

CONSTANTS t1, t2, t3, s1
=============================================================================
