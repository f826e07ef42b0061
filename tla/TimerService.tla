---------------------------- MODULE TimerService ----------------------------
(***************************************************************************)
(* What the timers promise their clients (src/sw/Utilities/public/         *)
(* ITimers.h), without the thread, the mutex and the scan that keep the    *)
(* promise (Timers): a timer calls back no earlier than its timeout after  *)
(* it was last started, once or again and again as it was started, one     *)
(* callback at a time, and none for a timer that was stopped or removed.   *)
(***************************************************************************)
EXTENDS Naturals

CONSTANTS
    Ids,        \* the timers that may be created
    Timeouts,   \* in ticks
    NoTimer     \* no callback is running

VARIABLES
    timer,      \* per id: its mode, its default timeout, what is left to wait
    serving,    \* the timer whose callback is running
    call        \* what a client called in this step, if it did

NoCall == <<"none", 0, 0>>

Modes == {"none", "off", "once", "periodic"}
Armed(id) == timer[id].mode \in {"once", "periodic"}
Exists(id) == timer[id].mode # "none"

None == [mode |-> "none", timeout |-> 0, left |-> 0]

Init ==
    /\ timer = [id \in Ids |-> None]
    /\ serving = NoTimer
    /\ call = NoCall

Become(id, mode, timeout, left) ==
    timer' = [timer EXCEPT ![id] = [mode |-> mode, timeout |-> timeout, left |-> left]]

\* createTimer(); not while a callback runs.
Create(id, T) ==
    /\ call' = <<"createTimer", id, T>>
    /\ ~Exists(id)
    /\ serving = NoTimer
    /\ Become(id, "off", T, 0)
    /\ UNCHANGED serving

\* removeTimer(): when it returns no callback of the timer is running, and
\* none will.
Remove(id) ==
    /\ call' = <<"removeTimer", id, 0>>
    /\ Exists(id)
    /\ serving = NoTimer
    /\ timer' = [timer EXCEPT ![id] = None]
    /\ UNCHANGED serving

\* "Sets the new timout for defined timer. If timer is already running, it is
\* restarted with new timeout."
SetTimeout(id, T) ==
    /\ call' = <<"setTimeout", id, T>>
    /\ Exists(id)
    /\ Become(id, timer[id].mode, T, IF Armed(id) THEN T ELSE 0)
    /\ UNCHANGED serving

\* "Starts the timer. Timer will be started only once and stopped when
\* expired."
Start(id) ==
    /\ call' = <<"startTimer", id, 0>>
    /\ Exists(id)
    /\ Become(id, "once", timer[id].timeout, timer[id].timeout)
    /\ UNCHANGED serving

\* "Timeout will be used ony once, after that default one will be restored."
StartFor(id, T) ==
    /\ call' = <<"startTimerFor", id, T>>
    /\ Exists(id)
    /\ Become(id, "once", timer[id].timeout, T)
    /\ UNCHANGED serving

\* "Starts the periodic timer."
StartPeriodic(id) ==
    /\ call' = <<"startPeriodic", id, 0>>
    /\ Exists(id)
    /\ Become(id, "periodic", timer[id].timeout, timer[id].timeout)
    /\ UNCHANGED serving

Stop(id) ==
    /\ call' = <<"stopTimer", id, 0>>
    /\ Exists(id)
    /\ Become(id, "off", timer[id].timeout, 0)
    /\ UNCHANGED serving

\* Nothing is left to wait: the callback begins.
Expire(id) ==
    /\ call' = NoCall
    /\ Armed(id)
    /\ timer[id].left = 0
    /\ serving = NoTimer
    /\ serving' = id
    /\ IF timer[id].mode = "once"
       THEN Become(id, "off", timer[id].timeout, 0)
       ELSE Become(id, "periodic", timer[id].timeout, timer[id].timeout)

CallbackReturns ==
    /\ call' = NoCall
    /\ serving # NoTimer
    /\ serving' = NoTimer
    /\ UNCHANGED timer

Tick ==
    /\ call' = NoCall
    /\ timer' = [id \in Ids |->
                    IF timer[id].left > 0 THEN [timer[id] EXCEPT !.left = @ - 1]
                                          ELSE timer[id]]
    /\ UNCHANGED serving

\* The service stops: no timer is left.
Shutdown ==
    /\ call' = <<"stop", 0, 0>>
    /\ serving = NoTimer
    /\ timer' = [id \in Ids |-> None]
    /\ UNCHANGED serving

\* What the thread does besides is not seen.
Unseen ==
    /\ call' = NoCall
    /\ UNCHANGED <<timer, serving>>

Next ==
    \/ CallbackReturns \/ Tick \/ Shutdown \/ Unseen
    \/ \E id \in Ids :
        \/ Remove(id) \/ Start(id) \/ StartPeriodic(id) \/ Stop(id) \/ Expire(id)
        \/ \E T \in Timeouts : Create(id, T) \/ SetTimeout(id, T) \/ StartFor(id, T)

Spec == Init /\ [][Next]_<<timer, serving, call>>
=============================================================================
