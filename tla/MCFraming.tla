----------------------------- MODULE MCFraming -----------------------------
(* An instance of Framing: a line that fits, then one written in pieces     *)
(* that does not; with a header the second payload is too long.             *)
EXTENDS Framing

ShortPayloads == <<<<1, 10>>, <<2, 3, 4, 5, 6>>, <<7, 8>>, <<9, 10>>>>
AllEnvs == Env
=============================================================================
