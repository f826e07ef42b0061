------------------------------- MODULE MCPort -------------------------------
(* Instances of Port.  SERIAL and COMMAND behave alike here: a failed first *)
(* trial is not repeated.                                                  *)
EXTENDS Port

AllEnvs == Env
LiveEnvs == {{"prompt"}, {"prompt", "stable"}}
=============================================================================
