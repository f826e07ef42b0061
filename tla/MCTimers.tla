------------------------------ MODULE MCTimers ------------------------------
(* Two timers, timeouts of up to two ticks. *)
EXTENDS Timers

PlainUse == {TRUE}
=============================================================================
