------------------------------- MODULE Timers -------------------------------
(***************************************************************************)
(* The timers of src/sw/Utilities/source/TimersImpl.cpp: one thread scans  *)
(* the list of timers every millisecond and calls back the clients of      *)
(* those that expired, holding m_timers_mutex from the first to the last   *)
(* timer; the clients create, start, stop and remove timers from other     *)
(* threads, which wait for the mutex, or from a callback, which owns it    *)
(* (it is recursive).                                                      *)
(***************************************************************************)
EXTENDS Integers

CONSTANTS
    MaxTimers,  \* bound: createTimer() is called so often
    MaxTimeout, \* bound on the timeouts, in ticks of 10 ms
    Plain       \* the ways of using the timers considered, see plain

ASSUME ConstantsAssumption ==
    /\ {MaxTimers, MaxTimeout} \subseteq Nat
    /\ Plain \subseteq BOOLEAN

Ids == 1 .. MaxTimers
Timeouts == 0 .. MaxTimeout

VARIABLES
    plain,      \* the way of using the timers in this behaviour, see UsedPlainly
    m_timers,   \* per id: the timer
    m_last_timer_id,
    m_state,    \* of the ThreadWorker, from start() on
    joining,    \* a stop() waits for the thread to end
    thread,     \* where the timers thread is in execute()
    visited,    \* the timer of m_timers it looked at last in this scan
    call        \* history: what a client called in this step, if it did

vars == <<plain, m_timers, m_last_timer_id, m_state, joining, thread, visited, call>>

NoCall == <<"none", 0, 0>>

\* Time since start_ts is counted up to the longest timeout, and only while it
\* matters, that is, while the timer is running.
Timer == [exists : BOOLEAN, default_timeout : Timeouts, current_timeout : Timeouts,
          is_running : BOOLEAN, periodic : BOOLEAN, elapsed : Timeouts]

NoTimer == [exists |-> FALSE, default_timeout |-> 0, current_timeout |-> 0,
            is_running |-> FALSE, periodic |-> FALSE, elapsed |-> 0]

Init ==
    /\ plain \in Plain
    /\ m_timers = [id \in Ids |-> NoTimer]
    /\ m_last_timer_id = 0
    /\ m_state = "RUNNING"
    /\ joining = FALSE
    /\ thread = "loop"
    /\ visited = 0
    /\ call = NoCall

---------------------------------------------------------------------------
(* The clients.  A definition Slip... is what a small mistake would turn   *)
(* the one after it into; nothing else uses it.                            *)

\* A client's thread gets m_timers_mutex.
MutexFree == thread \in {"loop", "exited"}

\* ... or the client is called back and owns it.
MayCall == MutexFree \/ thread = "callback"

Update(id, timer, op, T) ==
    /\ call' = <<op, id, T>>
    /\ m_timers' = [m_timers EXCEPT ![id] = timer]
    /\ UNCHANGED <<plain, m_last_timer_id, m_state, joining, thread, visited>>

\* createTimer(), with a valid timeout; no client of this program creates or
\* removes timers in a callback, where that would upset the scan.
CreateTimer(T) ==
    /\ MutexFree
    /\ T > 0
    /\ m_last_timer_id < MaxTimers
    /\ m_last_timer_id' = m_last_timer_id + 1
    /\ call' = <<"createTimer", m_last_timer_id', T>>
    /\ m_timers' = [m_timers EXCEPT ![m_last_timer_id + 1] =
            [NoTimer EXCEPT !.exists = TRUE, !.default_timeout = T, !.current_timeout = T]]
    /\ UNCHANGED <<plain, m_state, joining, thread, visited>>

SlipMayRemove == MayCall

MayRemove == MutexFree

RemoveTimer(id) ==
    /\ MayRemove
    /\ m_timers[id].exists
    /\ Update(id, NoTimer, "removeTimer", 0)

SlipWithTimeout(timer, T) ==
    [timer EXCEPT !.default_timeout = T, !.current_timeout = T]

WithTimeout(timer, T) ==
    [timer EXCEPT !.default_timeout = T, !.current_timeout = T, !.elapsed = 0]

\* setTimeout(), with a valid timeout
SetTimeout(id, T) ==
    /\ MayCall
    /\ T > 0
    /\ m_timers[id].exists
    /\ Update(id, WithTimeout(m_timers[id], T), "setTimeout", T)

\* What the promise takes for granted: a timer that was started periodic is
\* not started in another way later, and one that was started with a timeout
\* of its own not before it has expired.
UsedPlainly(id, once, default) ==
    /\ plain /\ once => ~m_timers[id].periodic
    /\ plain /\ default => m_timers[id].current_timeout = m_timers[id].default_timeout

Started(timer) == [timer EXCEPT !.is_running = TRUE, !.elapsed = 0]

\* The three forms of startTimer()
StartTimer(id) ==
    /\ MayCall
    /\ m_timers[id].exists
    /\ UsedPlainly(id, TRUE, TRUE)
    /\ Update(id, Started(m_timers[id]), "startTimer", 0)

StartTimerFor(id, T) ==
    /\ MayCall
    /\ m_timers[id].exists
    /\ UsedPlainly(id, TRUE, FALSE)
    /\ Update(id, [Started(m_timers[id]) EXCEPT !.current_timeout = T],
              "startTimerFor", T)

StartTimerPeriodic(id, periodic) ==
    /\ MayCall
    /\ m_timers[id].exists
    /\ UsedPlainly(id, FALSE, TRUE)
    /\ Update(id, [Started(m_timers[id]) EXCEPT !.periodic = periodic],
              IF periodic THEN "startPeriodic" ELSE "startTimer", 0)

StopTimer(id) ==
    /\ MayCall
    /\ m_timers[id].exists
    /\ Update(id, [m_timers[id] EXCEPT !.is_running = FALSE, !.elapsed = 0], "stopTimer", 0)

\* stop() makes the thread leave its loop, whatever it is doing, joins it...
StopCall ==
    /\ call' = NoCall
    /\ m_state = "RUNNING"
    /\ m_state' = "STOPPING"
    /\ joining' = TRUE
    /\ UNCHANGED <<plain, m_timers, m_last_timer_id, thread, visited>>

Clear ==
    /\ call' = <<"stop", 0, 0>>
    /\ m_timers' = [id \in Ids |-> NoTimer]
    /\ UNCHANGED <<plain, m_last_timer_id, thread, visited>>

\* ... and then clears the list.
StopClear ==
    /\ joining
    /\ thread = "exited"
    /\ joining' = FALSE
    /\ Clear
    /\ UNCHANGED m_state

\* A stop() that finds another one under way does not wait for the thread, and
\* one after that, as the destructor's, has no thread to wait for.
StopAgain ==
    /\ \/ m_state = "STOPPING"
       \/ m_state = "STOPPED" /\ ~joining
    /\ MutexFree
    /\ m_state' = "STOPPING"
    /\ Clear
    /\ UNCHANGED joining

---------------------------------------------------------------------------
(* The timers thread *)

Scans == m_state = "RUNNING"

Loop ==
    /\ call' = NoCall
    /\ thread = "loop"
    /\ \/ Scans /\ thread' = "scan" /\ UNCHANGED m_state
       \/ ~Scans /\ thread' = "exited" /\ m_state' = "STOPPED"
    /\ visited' = 0
    /\ UNCHANGED <<plain, m_timers, m_last_timer_id, joining>>

Due(timer) == timer.is_running /\ timer.elapsed >= timer.current_timeout

SlipExpired(timer) ==
    [timer EXCEPT !.current_timeout = timer.default_timeout, !.is_running = timer.periodic]

\* The timer as its callback finds it.
Expired(timer) ==
    [timer EXCEPT !.current_timeout = timer.default_timeout, !.elapsed = 0,
                  !.is_running = timer.periodic]

\* The next timer of the list is looked at, and called back if it is due.
Visit ==
    /\ call' = NoCall
    /\ thread = "scan"
    /\ visited < MaxTimers
    /\ visited' = visited + 1
    /\ LET id == visited + 1 IN
        IF m_timers[id].exists /\ Due(m_timers[id])
        THEN /\ m_timers' = [m_timers EXCEPT ![id] = Expired(m_timers[id])]
             /\ thread' = "callback"
        ELSE UNCHANGED <<m_timers, thread>>
    /\ UNCHANGED <<plain, m_last_timer_id, m_state, joining>>

CallbackReturns ==
    /\ call' = NoCall
    /\ thread = "callback"
    /\ thread' = "scan"
    /\ UNCHANGED <<plain, m_timers, m_last_timer_id, m_state, joining, visited>>

\* The mutex is released and the thread sleeps.
EndScan ==
    /\ call' = NoCall
    /\ thread = "scan"
    /\ visited = MaxTimers
    /\ thread' = "loop"
    /\ UNCHANGED <<plain, m_timers, m_last_timer_id, m_state, joining, visited>>

Aged(timer) ==
    IF timer.is_running /\ timer.elapsed < MaxTimeout
    THEN [timer EXCEPT !.elapsed = @ + 1] ELSE timer

Tick ==
    /\ call' = NoCall
    /\ m_timers' = [id \in Ids |-> Aged(m_timers[id])]
    /\ UNCHANGED <<plain, m_last_timer_id, m_state, joining, thread, visited>>

Client ==
    \/ StopCall \/ StopClear \/ StopAgain
    \/ \E T \in Timeouts : CreateTimer(T)
    \/ \E id \in Ids :
        \/ RemoveTimer(id) \/ StartTimer(id) \/ StopTimer(id)
        \/ \E T \in Timeouts : SetTimeout(id, T) \/ StartTimerFor(id, T)
        \/ \E periodic \in BOOLEAN : StartTimerPeriodic(id, periodic)

Thread == Loop \/ Visit \/ CallbackReturns \/ EndScan

Next == Client \/ Thread \/ Tick

Spec == Init /\ [][Next]_vars

\* The timers thread runs, callbacks return, and stop(), once called, goes on.
Fairness == WF_vars(Thread) /\ WF_vars(StopClear)

FairSpec == Spec /\ Fairness

---------------------------------------------------------------------------
(* Properties *)

Operations == {"none", "createTimer", "removeTimer", "setTimeout", "startTimer",
               "startTimerFor", "startPeriodic", "stopTimer", "stop"}

Calls == Operations \X (Ids \union {0}) \X Timeouts

\* The types; the timer called back is still in the list, and the thread has
\* left its loop when the first stop() returns.
TypeOK ==
    /\ plain \in BOOLEAN
    /\ m_timers \in [Ids -> Timer]
    /\ m_last_timer_id \in 0 .. MaxTimers
    /\ m_state \in {"RUNNING", "STOPPING", "STOPPED"}
    /\ thread \in {"loop", "scan", "callback", "exited"}
    /\ visited \in 0 .. MaxTimers
    /\ \A id \in Ids : m_timers[id].exists => id <= m_last_timer_id
    /\ thread = "callback" => visited \in Ids /\ m_timers[visited].exists
    /\ joining \in BOOLEAN
    /\ joining => m_state # "RUNNING"
    /\ thread = "exited" \/ joining \/ m_state = "RUNNING"
    /\ call \in Calls

Mode(timer) ==
    CASE ~timer.exists                                       -> "none"
      [] timer.exists /\ ~timer.is_running                   -> "off"
      [] timer.exists /\ timer.is_running /\ ~timer.periodic -> "once"
      [] timer.exists /\ timer.is_running /\ timer.periodic  -> "periodic"

Left(timer) ==
    IF timer.is_running /\ timer.elapsed < timer.current_timeout
    THEN timer.current_timeout - timer.elapsed ELSE 0

\* What a client sees of a timer.
View(timer) ==
    [mode |-> Mode(timer), timeout |-> timer.default_timeout, left |-> Left(timer)]

Service == INSTANCE TimerService WITH
    Ids <- Ids, Timeouts <- Timeouts, NoTimer <- 0,
    timer <- [id \in Ids |-> View(m_timers[id])],
    serving <- IF thread = "callback" THEN visited ELSE 0

\* The timers keep the promise of ITimers.h, if they are used plainly.
KeepsPromise == Service!Spec

\* A timer that is due is called back, stopped, restarted or removed, unless
\* the timers are stopped.
DueIsServed ==
    \A id \in Ids :
        Due(m_timers[id]) ~> (~Due(m_timers[id]) \/ m_state # "RUNNING")
=============================================================================
