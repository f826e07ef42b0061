-------------------------- MODULE MCSocketServer --------------------------
(* A small instance of SocketServer: two connections, as many descriptors  *)
(* (the second may get the first one's again), one writer.                 *)
EXTENDS SocketServer, TLC

CONSTANTS k1, k2, w1

AllEnvs == Env
FrontEnvs == {e \in Env : e.front /\ e.prompt}
===========================================================================
