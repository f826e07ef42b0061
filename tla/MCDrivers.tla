----------------------------- MODULE MCDrivers -----------------------------
(* The drivers with a few descriptors, processes, lines and sockets, and a *)
(* thread that calls the TCP client, in every environment.                 *)
EXTENDS Drivers

CONSTANT c1

AllEnvs == Env
=============================================================================
