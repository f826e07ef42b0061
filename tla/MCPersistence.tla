--------------------------- MODULE MCPersistence ---------------------------
(* Instances of Persistence: a module that restores itself, one that does   *)
(* not, a value that each of them cannot read, and commands that are split  *)
(* into each other.                                                         *)
EXTENDS Persistence

SomeListeners == <<"MAIN_APPLICATION", "SETTINGS", "TRACE_FILTER0">>
SomeUnreadable == {<<"SETTINGS", 2>>, <<"TRACE_FILTER0", 2>>}
SomeCommands == {<<"a">>, <<"b">>, <<"c">>, <<"a", "b">>}
\* Who sends what has nothing to do with what can be read back: values that
\* cannot are entered in the simplest of the environments.
SomeEnvs == {e \in Env : e.read \/ (e.apart /\ e.plain)}
=============================================================================
