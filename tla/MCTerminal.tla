----------------------------- MODULE MCTerminal -----------------------------
(* Two drivers and the GUI thread, two filters, a limit of two lines. *)
EXTENDS Terminal

CONSTANTS d1, d2, gui

TwoDrivers == {d1, d2}
AllEnvs == Env
=============================================================================
