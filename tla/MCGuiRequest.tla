---------------------------- MODULE MCGuiRequest ----------------------------
(* Instances of GuiRequest: the threads of two user buttons and the GUI     *)
(* thread.                                                                 *)
EXTENDS GuiRequest

CONSTANTS w1, w2

AllEnvs == Env
=============================================================================
