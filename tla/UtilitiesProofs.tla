--------------------------- MODULE UtilitiesProofs ---------------------------
(***************************************************************************)
(* Proofs about two parts of src/sw/Utilities that have nothing to do with *)
(* each other.                                                             *)
(*                                                                         *)
(* Timers: for any number of timers and any timeouts, the type invariant,  *)
(* and that Timers implements TimerService when timers are used plainly.   *)
(*                                                                         *)
(* Persistence: for any modules, values, commands and any limit, what a    *)
(* run leaves for the next one, and what the history may contain.  The     *)
(* invariant says of each place of a run what the file, g_jsonFile and the *)
(* history have to do with each other; it rests on three lemmas about the  *)
(* operators that go over a history (Removes, Splits, Pushes).             *)
(***************************************************************************)
EXTENDS Timers, Persistence, SequenceTheorems, FiniteSetTheorems,
        WellFoundedInduction, TLAPS

---------------------------------------------------------------------------
(* Timers *)

LEMMA CallTypes ==
    ASSUME NEW op \in Operations, NEW id \in Ids \union {0}, NEW T \in Timeouts
    PROVE  <<op, id, T>> \in Calls
BY DEF Calls

LEMMA NoTimerType == NoTimer \in Timer /\ ~NoTimer.exists
BY ConstantsAssumption DEF NoTimer, Timer, Timeouts

\* The effect of the clients' calls on one timer keeps its type.
LEMMA TimerTypes ==
    ASSUME NEW t \in Timer, NEW T \in Timeouts
    PROVE  /\ [NoTimer EXCEPT !.exists = TRUE, !.default_timeout = T,
                              !.current_timeout = T] \in Timer
           /\ WithTimeout(t, T) \in Timer
           /\ Started(t) \in Timer
           /\ [Started(t) EXCEPT !.current_timeout = T] \in Timer
           /\ \A b \in BOOLEAN : [Started(t) EXCEPT !.periodic = b] \in Timer
           /\ [t EXCEPT !.is_running = FALSE, !.elapsed = 0] \in Timer
           /\ Expired(t) \in Timer
           /\ Aged(t) \in Timer
<1>1. 0 \in Timeouts
    BY ConstantsAssumption DEF Timeouts
<1>2. /\ [NoTimer EXCEPT !.exists = TRUE, !.default_timeout = T,
                         !.current_timeout = T] \in Timer
    BY <1>1 DEF NoTimer, Timer
<1>3. /\ WithTimeout(t, T) \in Timer
      /\ Started(t) \in Timer
      /\ [Started(t) EXCEPT !.current_timeout = T] \in Timer
      /\ \A b \in BOOLEAN : [Started(t) EXCEPT !.periodic = b] \in Timer
      /\ [t EXCEPT !.is_running = FALSE, !.elapsed = 0] \in Timer
      /\ Expired(t) \in Timer
    BY <1>1 DEF Timer, WithTimeout, Started, Expired
<1>4. Aged(t) \in Timer
    BY ConstantsAssumption DEF Timer, Aged, Timeouts
<1> QED BY <1>2, <1>3, <1>4

\* ... and none but removeTimer() and stop() takes a timer out of the list.
LEMMA TimersStay ==
    ASSUME NEW t \in Timer, NEW T \in Timeouts
    PROVE  /\ WithTimeout(t, T).exists = t.exists
           /\ Started(t).exists = t.exists
           /\ [Started(t) EXCEPT !.current_timeout = T].exists = t.exists
           /\ \A b \in BOOLEAN : [Started(t) EXCEPT !.periodic = b].exists = t.exists
           /\ [t EXCEPT !.is_running = FALSE, !.elapsed = 0].exists = t.exists
           /\ Expired(t).exists = t.exists
           /\ Aged(t).exists = t.exists
BY DEF Timer, NoTimer, WithTimeout, Started, Expired, Aged

\* A call that changes one timer keeps the type invariant.
LEMMA UpdateTypes ==
    ASSUME TypeOK, NEW id \in Ids, NEW t \in Timer, NEW op \in Operations,
           NEW T \in Timeouts, Update(id, t, op, T),
           t.exists => m_timers[id].exists,
           thread = "callback" => t.exists \/ ~m_timers[id].exists
    PROVE  TypeOK'
<1>1. call' \in Calls
    BY CallTypes DEF Update
<1> QED BY <1>1 DEF TypeOK, Update, Ids

LEMMA TypeStep == TypeOK /\ [Next]_vars => TypeOK'
<1> SUFFICES ASSUME TypeOK, [Next]_vars PROVE TypeOK'
    OBVIOUS
<1> USE ConstantsAssumption
<1>0. 0 \in Timeouts /\ MaxTimers \in Nat
    BY DEF Timeouts
<1>a. NoCall \in Calls
    BY <1>0, CallTypes DEF NoCall, Operations
<1>1. CASE StopCall
    BY <1>0, <1>a, <1>1 DEF TypeOK, StopCall
<1>2. CASE StopClear
    <2>1. call' \in Calls
        BY <1>0, <1>2, CallTypes DEF StopClear, Clear, Operations
    <2>2. m_timers' \in [Ids -> Timer] /\ \A id \in Ids : ~m_timers'[id].exists
        BY <1>2, NoTimerType DEF StopClear, Clear
    <2> QED BY <1>2, <2>1, <2>2 DEF TypeOK, StopClear, Clear
<1>b. CASE StopAgain
    <2>1. call' \in Calls
        BY <1>0, <1>b, CallTypes DEF StopAgain, Clear, Operations
    <2>2. m_timers' \in [Ids -> Timer] /\ \A id \in Ids : ~m_timers'[id].exists
        BY <1>b, NoTimerType DEF StopAgain, Clear
    <2> QED BY <1>b, <2>1, <2>2 DEF TypeOK, StopAgain, Clear, MutexFree
<1>3. ASSUME NEW T \in Timeouts, CreateTimer(T) PROVE TypeOK'
    <2>1. m_last_timer_id + 1 \in Ids /\ "createTimer" \in Operations
        BY <1>0, <1>3 DEF TypeOK, CreateTimer, Ids, Operations
    <2>2. call' \in Calls
        BY <1>3, <2>1, CallTypes DEF CreateTimer
    <2> DEFINE t == [NoTimer EXCEPT !.exists = TRUE, !.default_timeout = T,
                                    !.current_timeout = T]
    <2>3. t \in Timer
        BY NoTimerType, TimerTypes
    <2>4. m_timers' = [m_timers EXCEPT ![m_last_timer_id + 1] = t]
        BY <1>3 DEF CreateTimer
    <2> HIDE DEF t
    <2> QED BY <1>3, <2>1, <2>2, <2>3, <2>4 DEF TypeOK, CreateTimer, MutexFree, Ids
<1>4. ASSUME NEW id \in Ids, RemoveTimer(id) PROVE TypeOK'
    <2>1. NoTimer \in Timer /\ ~NoTimer.exists /\ thread # "callback"
        BY <1>4, NoTimerType DEF RemoveTimer, MayRemove, MutexFree
    <2> QED BY <1>0, <1>4, <2>1, UpdateTypes DEF RemoveTimer, Operations
<1>5. ASSUME NEW id \in Ids, StartTimer(id) PROVE TypeOK'
    <2>1. m_timers[id] \in Timer /\ m_timers[id].exists
        BY <1>5 DEF TypeOK, StartTimer
    <2> QED BY <1>0, <1>5, <2>1, TimerTypes, TimersStay, UpdateTypes DEF StartTimer, Operations
<1>6. ASSUME NEW id \in Ids, StopTimer(id) PROVE TypeOK'
    <2>1. m_timers[id] \in Timer /\ m_timers[id].exists
        BY <1>6 DEF TypeOK, StopTimer
    <2> QED BY <1>0, <1>6, <2>1, TimerTypes, TimersStay, UpdateTypes DEF StopTimer, Operations
<1>7. ASSUME NEW id \in Ids, NEW T \in Timeouts, SetTimeout(id, T) PROVE TypeOK'
    <2>1. m_timers[id] \in Timer /\ m_timers[id].exists
        BY <1>7 DEF TypeOK, SetTimeout
    <2> QED BY <1>7, <2>1, TimerTypes, TimersStay, UpdateTypes DEF SetTimeout, Operations
<1>8. ASSUME NEW id \in Ids, NEW T \in Timeouts, StartTimerFor(id, T) PROVE TypeOK'
    <2>1. m_timers[id] \in Timer /\ m_timers[id].exists
        BY <1>8 DEF TypeOK, StartTimerFor
    <2> QED BY <1>8, <2>1, TimerTypes, TimersStay, UpdateTypes DEF StartTimerFor, Operations
<1>9. ASSUME NEW id \in Ids, NEW b \in BOOLEAN, StartTimerPeriodic(id, b) PROVE TypeOK'
    <2>1. m_timers[id] \in Timer /\ m_timers[id].exists
        BY <1>9 DEF TypeOK, StartTimerPeriodic
    <2> DEFINE t == [Started(m_timers[id]) EXCEPT !.periodic = b]
               op == IF b THEN "startPeriodic" ELSE "startTimer"
    <2>2. t \in Timer /\ t.exists
        <3> DEFINE x == m_timers[id]
        <3>1. x \in Timer /\ x.exists
            BY <2>1
        <3> HIDE DEF x
        <3>2. [Started(x) EXCEPT !.periodic = b] \in Timer
            BY <1>0, <3>1, TimerTypes
        <3>3. [Started(x) EXCEPT !.periodic = b].exists
            BY <1>0, <3>1, TimersStay
        <3> QED BY <3>2, <3>3 DEF x
    <2>3. Update(id, t, op, 0) /\ op \in Operations
        BY <1>9 DEF StartTimerPeriodic, Operations
    <2> HIDE DEF t, op
    <2> QED BY <1>0, <2>1, <2>2, <2>3, UpdateTypes
<1>10. CASE Loop
    BY <1>0, <1>a, <1>10 DEF TypeOK, Loop
<1>11. CASE Visit
    <2> DEFINE id == visited + 1
    <2>1. id \in Ids /\ m_timers[id] \in Timer
        BY <1>0, <1>11 DEF TypeOK, Visit, Ids
    <2>2. Expired(m_timers[id]) \in Timer /\ Expired(m_timers[id]).exists = m_timers[id].exists
        BY <1>0, <2>1, TimerTypes, TimersStay
    <2>3. call' \in Calls
        BY <1>a, <1>11 DEF TypeOK, Visit
    <2>4. CASE m_timers[id].exists /\ Due(m_timers[id])
        <3> DEFINE t == Expired(m_timers[id])
        <3>1. t \in Timer /\ t.exists
            BY <2>2, <2>4
        <3>2. /\ m_timers' = [m_timers EXCEPT ![id] = t]
              /\ visited' = id
              /\ thread' = "callback"
              /\ UNCHANGED <<plain, m_last_timer_id, m_state, joining>>
            BY <1>11, <2>4 DEF Visit
        <3>3. id \in 0 .. MaxTimers
            BY <1>0, <2>1 DEF Ids
        <3>4. m_state # "RUNNING" => joining
            BY <1>11 DEF TypeOK, Visit
        <3> HIDE DEF t, id
        <3> QED BY <2>1, <2>3, <2>4, <3>1, <3>2, <3>3, <3>4 DEF TypeOK
    <2>5. CASE ~(m_timers[id].exists /\ Due(m_timers[id]))
        BY <1>11, <2>1, <2>3, <2>5 DEF TypeOK, Visit, Ids
    <2> QED BY <2>4, <2>5
<1>12. CASE CallbackReturns
    BY <1>0, <1>a, <1>12 DEF TypeOK, CallbackReturns
<1>13. CASE EndScan
    BY <1>0, <1>a, <1>13 DEF TypeOK, EndScan
<1>14. CASE Tick
    <2>1. \A id \in Ids : /\ m_timers'[id] = Aged(m_timers[id])
                          /\ m_timers'[id] \in Timer
                          /\ m_timers'[id].exists = m_timers[id].exists
        BY <1>0, <1>14, TimerTypes, TimersStay DEF TypeOK, Tick
    <2>2. m_timers' \in [Ids -> Timer]
        BY <1>14, <2>1 DEF Tick
    <2> QED BY <1>a, <1>14, <2>1, <2>2 DEF TypeOK, Tick
<1>15. CASE UNCHANGED vars
    BY <1>15 DEF TypeOK, vars
<1> QED BY <1>1, <1>2, <1>3, <1>4, <1>5, <1>6, <1>7, <1>8, <1>9, <1>10, <1>11, <1>12,
           <1>13, <1>14, <1>15, <1>b DEF Next, Client, Thread

\* The types hold, a timer is in the list while it is called back, and the
\* first stop() returns only when the thread has left execute().
THEOREM TypeCorrect == Spec => []TypeOK
<1>1. Init => TypeOK
    <2>1. 0 \in Timeouts /\ NoCall \in Calls
        BY ConstantsAssumption, CallTypes DEF NoCall, Timeouts, Operations
    <2>2. Init => joining \in BOOLEAN /\ ~joining
        BY Zenon DEF Init
    <2> QED BY <2>1, <2>2, ConstantsAssumption, NoTimerType DEF Init, TypeOK, Ids
<1> QED BY <1>1, TypeStep, PTL DEF Spec

---------------------------------------------------------------------------
(* The refinement: what a client sees of a timer changes as TimerService   *)
(* says.                                                                   *)

LEMMA ViewOfNoTimer == View(NoTimer) = [mode |-> "none", timeout |-> 0, left |-> 0]
BY DEF View, NoTimer, Mode, Left

LEMMA ViewOfNew ==
    ASSUME NEW T \in Timeouts
    PROVE  View([NoTimer EXCEPT !.exists = TRUE, !.default_timeout = T,
                                !.current_timeout = T])
               = [mode |-> "off", timeout |-> T, left |-> 0]
BY DEF View, NoTimer, Mode, Left

\* The mode, the timeout and the time left after each call...
LEMMA ViewOfCalls ==
    ASSUME NEW t \in Timer, t.exists, NEW T \in Timeouts
    PROVE  /\ View(WithTimeout(t, T)) =
                [mode |-> View(t).mode, timeout |-> T,
                 left |-> IF View(t).mode \in {"once", "periodic"} THEN T ELSE 0]
           /\ ~t.periodic /\ t.current_timeout = t.default_timeout =>
                View(Started(t)) = [mode |-> "once", timeout |-> View(t).timeout,
                                    left |-> View(t).timeout]
           /\ ~t.periodic =>
                View([Started(t) EXCEPT !.current_timeout = T]) =
                    [mode |-> "once", timeout |-> View(t).timeout, left |-> T]
           /\ t.current_timeout = t.default_timeout =>
                \A b \in BOOLEAN :
                    View([Started(t) EXCEPT !.periodic = b]) =
                        [mode |-> IF b THEN "periodic" ELSE "once",
                         timeout |-> View(t).timeout, left |-> View(t).timeout]
           /\ View([t EXCEPT !.is_running = FALSE, !.elapsed = 0]) =
                [mode |-> "off", timeout |-> View(t).timeout, left |-> 0]
<1>1. Timeouts \subseteq Nat
    BY ConstantsAssumption DEF Timeouts
<1> QED BY <1>1 DEF View, Mode, Left, Timer, WithTimeout, Started

\* ... when it expires...
LEMMA ViewOfExpired ==
    ASSUME NEW t \in Timer, t.exists, Due(t)
    PROVE  /\ View(t).mode \in {"once", "periodic"}
           /\ View(t).left = 0
           /\ View(Expired(t)) =
                IF View(t).mode = "once"
                THEN [mode |-> "off", timeout |-> View(t).timeout, left |-> 0]
                ELSE [mode |-> "periodic", timeout |-> View(t).timeout,
                      left |-> View(t).timeout]
<1>1. Timeouts \subseteq Nat
    BY ConstantsAssumption DEF Timeouts
<1> QED BY <1>1 DEF View, Mode, Left, Timer, Expired, Due

\* ... and with time.
LEMMA ViewOfAged ==
    ASSUME NEW t \in Timer
    PROVE  View(Aged(t)) = IF View(t).left > 0 THEN [View(t) EXCEPT !.left = @ - 1]
                                               ELSE View(t)
<1>1. Timeouts = 0 .. MaxTimeout /\ MaxTimeout \in Nat
    BY ConstantsAssumption DEF Timeouts
<1>2. Mode(Aged(t)) = Mode(t)
    BY <1>1 DEF Mode, Aged, Timer
<1>3. Left(Aged(t)) = IF Left(t) > 0 THEN Left(t) - 1 ELSE Left(t)
    BY <1>1 DEF Left, Aged, Timer
<1>4. Aged(t).default_timeout = t.default_timeout
    BY <1>1 DEF Aged, Timer
<1> QED BY <1>2, <1>3, <1>4 DEF View

---------------------------------------------------------------------------
(* Every step of the timers is one of TimerService, or is not seen.        *)

view == [id \in Ids |-> View(m_timers[id])]
served == IF thread = "callback" THEN visited ELSE 0

\* A client sees a timer in the list exactly if it is there, and waits for it
\* exactly if it is running.
LEMMA ViewExists ==
    ASSUME NEW t \in Timer
    PROVE  /\ View(t).mode # "none" <=> t.exists
           /\ View(t).mode = "none" \/ View(t).mode \in {"off", "once", "periodic"}
BY DEF View, Mode, Timer

\* A call on one timer that the mutex lets through is seen as a change of that
\* timer alone.
LEMMA UpdateSeen ==
    ASSUME TypeOK, NEW id \in Ids, NEW t, NEW op, NEW T, Update(id, t, op, T)
    PROVE  /\ view' = [view EXCEPT ![id] = View(t)]
           /\ served' = served
           /\ call' = <<op, id, T>>
BY DEF TypeOK, Update, view, served

LEMMA ServiceStep ==
    ASSUME TypeOK, plain, [Next]_vars
    PROVE  [Service!Next]_<<view, served, call>>
<1> USE ConstantsAssumption
<1>0. 0 \in Timeouts
    BY DEF Timeouts
<1>a. \A id \in Ids : m_timers[id] \in Timer /\ view[id] = View(m_timers[id])
    BY DEF TypeOK, view
<1>1. CASE StopCall
    <2>1. Service!Unseen
        BY <1>1 DEF StopCall, Service!Unseen, NoCall, Service!NoCall, view, served
    <2> QED BY <2>1 DEF Service!Next
<1>2. CASE StopClear
    <2>1. view' = [id \in Ids |-> Service!None]
        BY <1>2, ViewOfNoTimer DEF StopClear, Clear, view, Service!None
    <2>2. served = 0 /\ served' = served
        BY <1>2 DEF StopClear, Clear, served
    <2>3. Service!Shutdown
        BY <1>2, <2>1, <2>2 DEF StopClear, Clear, Service!Shutdown, view, served
    <2> QED BY <2>3 DEF Service!Next
<1>b. CASE StopAgain
    <2>1. view' = [id \in Ids |-> Service!None]
        BY <1>b, ViewOfNoTimer DEF StopAgain, Clear, view, Service!None
    <2>2. served = 0 /\ served' = served
        BY <1>b DEF StopAgain, Clear, MutexFree, served
    <2>3. Service!Shutdown
        BY <1>b, <2>1, <2>2 DEF StopAgain, Clear, Service!Shutdown, view, served
    <2> QED BY <2>3 DEF Service!Next
<1>3. ASSUME NEW T \in Timeouts, CreateTimer(T) PROVE Service!Next
    <2> DEFINE id == m_last_timer_id + 1
    <2>1. id \in Ids /\ m_last_timer_id < id
        BY <1>3 DEF TypeOK, CreateTimer, Ids
    <2>2. ~m_timers[id].exists
        BY <2>1 DEF TypeOK, Ids
    <2>3. served = 0 /\ served' = served
        BY <1>3 DEF CreateTimer, MutexFree, served
    <2>4. view' = [view EXCEPT ![id] = [mode |-> "off", timeout |-> T, left |-> 0]]
        <3> DEFINE t == [NoTimer EXCEPT !.exists = TRUE, !.default_timeout = T,
                                        !.current_timeout = T]
        <3>1. m_timers' = [m_timers EXCEPT ![id] = t]
            BY <1>3 DEF CreateTimer
        <3>2. View(t) = [mode |-> "off", timeout |-> T, left |-> 0]
            BY ViewOfNew
        <3> HIDE DEF t, id
        <3> QED BY <2>1, <3>1, <3>2 DEF TypeOK, view
    <2>5. call' = <<"createTimer", id, T>>
        BY <1>3 DEF CreateTimer
    <2>6. view[id].mode = "none"
        BY <1>a, <2>1, <2>2, ViewExists
    <2> HIDE DEF id
    <2>7. Service!Create(id, T)
        BY <2>3, <2>4, <2>5, <2>6
        DEF Service!Create, Service!Exists, Service!Become, view, served
    <2> QED BY <2>1, <2>7 DEF Service!Next
<1>4. ASSUME NEW id \in Ids, RemoveTimer(id) PROVE Service!Next
    <2>1. Service!Remove(id)
        BY <1>4, <1>a, UpdateSeen, ViewOfNoTimer, ViewExists
        DEF RemoveTimer, MayRemove, MutexFree, Service!Remove, Service!Exists,
            Service!None, view, served
    <2> QED BY <2>1 DEF Service!Next
<1>5. ASSUME NEW id \in Ids, StartTimer(id) PROVE Service!Next
    <2> DEFINE t == Started(m_timers[id])
    <2>1. m_timers[id] \in Timer /\ m_timers[id].exists
        BY <1>5 DEF TypeOK, StartTimer
    <2>2. Update(id, t, "startTimer", 0)
        BY <1>5 DEF StartTimer
    <2>3. view' = [view EXCEPT ![id] = View(t)] /\ served' = served /\ call' = <<"startTimer", id, 0>>
        BY <2>2, UpdateSeen
    <2>4. View(t) = [mode |-> "once", timeout |-> view[id].timeout, left |-> view[id].timeout]
        BY <1>0, <1>5, <1>a, <2>1, ViewOfCalls DEF StartTimer, UsedPlainly
    <2>5. view[id].mode # "none"
        BY <1>a, <2>1, ViewExists
    <2> HIDE DEF t
    <2>6. Service!Start(id)
        BY <2>3, <2>4, <2>5
        DEF Service!Start, Service!Exists, Service!Become, view, served
    <2> QED BY <2>6 DEF Service!Next
<1>6. ASSUME NEW id \in Ids, StopTimer(id) PROVE Service!Next
    <2> DEFINE t == [m_timers[id] EXCEPT !.is_running = FALSE, !.elapsed = 0]
    <2>1. m_timers[id] \in Timer /\ m_timers[id].exists
        BY <1>6 DEF TypeOK, StopTimer
    <2>2. Update(id, t, "stopTimer", 0)
        BY <1>6 DEF StopTimer
    <2>3. view' = [view EXCEPT ![id] = View(t)] /\ served' = served /\ call' = <<"stopTimer", id, 0>>
        BY <2>2, UpdateSeen
    <2>4. View(t) = [mode |-> "off", timeout |-> view[id].timeout, left |-> 0]
        BY <1>0, <1>a, <2>1, ViewOfCalls
    <2>5. view[id].mode # "none"
        BY <1>a, <2>1, ViewExists
    <2> HIDE DEF t
    <2>6. Service!Stop(id)
        BY <2>3, <2>4, <2>5
        DEF Service!Stop, Service!Exists, Service!Become, view, served
    <2> QED BY <2>6 DEF Service!Next
<1>7. ASSUME NEW id \in Ids, NEW T \in Timeouts, SetTimeout(id, T) PROVE Service!Next
    <2> DEFINE t == WithTimeout(m_timers[id], T)
    <2>1. m_timers[id] \in Timer /\ m_timers[id].exists
        BY <1>7 DEF TypeOK, SetTimeout
    <2>2. Update(id, t, "setTimeout", T)
        BY <1>7 DEF SetTimeout
    <2>3. view' = [view EXCEPT ![id] = View(t)] /\ served' = served /\ call' = <<"setTimeout", id, T>>
        BY <2>2, UpdateSeen
    <2>4. View(t) = [mode |-> view[id].mode, timeout |-> T,
                     left |-> IF view[id].mode \in {"once", "periodic"} THEN T ELSE 0]
        <3>1. View(t) =
                [mode |-> View(m_timers[id]).mode, timeout |-> T,
                 left |-> IF View(m_timers[id]).mode \in {"once", "periodic"} THEN T ELSE 0]
            BY <2>1, ViewOfCalls
        <3> QED BY <1>a, <3>1
    <2>5. view[id].mode # "none"
        BY <1>a, <2>1, ViewExists
    <2> HIDE DEF t
    <2>6. Service!SetTimeout(id, T)
        BY <2>3, <2>4, <2>5
        DEF Service!SetTimeout, Service!Exists, Service!Armed, Service!Become, view, served
    <2> QED BY <2>6 DEF Service!Next
<1>8. ASSUME NEW id \in Ids, NEW T \in Timeouts, StartTimerFor(id, T) PROVE Service!Next
    <2> DEFINE t == [Started(m_timers[id]) EXCEPT !.current_timeout = T]
    <2>1. m_timers[id] \in Timer /\ m_timers[id].exists
        BY <1>8 DEF TypeOK, StartTimerFor
    <2>2. Update(id, t, "startTimerFor", T)
        BY <1>8 DEF StartTimerFor
    <2>3. view' = [view EXCEPT ![id] = View(t)] /\ served' = served /\ call' = <<"startTimerFor", id, T>>
        BY <2>2, UpdateSeen
    <2>4. View(t) = [mode |-> "once", timeout |-> view[id].timeout, left |-> T]
        <3>1. ~m_timers[id].periodic
            BY <1>8 DEF StartTimerFor, UsedPlainly
        <3>2. View(t) = [mode |-> "once", timeout |-> View(m_timers[id]).timeout, left |-> T]
            BY <2>1, <3>1, ViewOfCalls
        <3> QED BY <1>a, <3>2
    <2>5. view[id].mode # "none"
        BY <1>a, <2>1, ViewExists
    <2> HIDE DEF t
    <2>6. Service!StartFor(id, T)
        BY <2>3, <2>4, <2>5
        DEF Service!StartFor, Service!Exists, Service!Become, view, served
    <2> QED BY <2>6 DEF Service!Next
<1>9. ASSUME NEW id \in Ids, NEW b \in BOOLEAN, StartTimerPeriodic(id, b) PROVE Service!Next
    <2> DEFINE t == [Started(m_timers[id]) EXCEPT !.periodic = b]
    <2>1. m_timers[id] \in Timer /\ m_timers[id].exists
        BY <1>9 DEF TypeOK, StartTimerPeriodic
    <2>2. Update(id, t, IF b THEN "startPeriodic" ELSE "startTimer", 0)
        BY <1>9 DEF StartTimerPeriodic
    <2>3. view' = [view EXCEPT ![id] = View(t)] /\ served' = served /\ call' = <<IF b THEN "startPeriodic" ELSE "startTimer", id, 0>>
        BY <2>2, UpdateSeen
    <2>4. View(t) = [mode |-> IF b THEN "periodic" ELSE "once",
                     timeout |-> view[id].timeout, left |-> view[id].timeout]
        BY <1>0, <1>9, <1>a, <2>1, ViewOfCalls DEF StartTimerPeriodic, UsedPlainly
    <2>5. view[id].mode # "none"
        BY <1>a, <2>1, ViewExists
    <2> HIDE DEF t
    <2>6. CASE b
        <3>1. Service!StartPeriodic(id)
            BY <2>3, <2>4, <2>5, <2>6
            DEF Service!StartPeriodic, Service!Exists, Service!Become, view, served
        <3> QED BY <3>1 DEF Service!Next
    <2>7. CASE ~b
        <3>1. Service!Start(id)
            BY <2>3, <2>4, <2>5, <2>7
            DEF Service!Start, Service!Exists, Service!Become, view, served
        <3> QED BY <3>1 DEF Service!Next
    <2> QED BY <2>6, <2>7
<1>10. CASE Loop \/ EndScan
    <2>1. Service!Unseen
        BY <1>10
        DEF Loop, EndScan, Service!Unseen, NoCall, Service!NoCall, view, served
    <2> QED BY <2>1 DEF Service!Next
<1>11. CASE Visit
    <2> DEFINE id == visited + 1
    <2>1. id \in Ids /\ id # 0 /\ m_timers[id] \in Timer /\ call' = Service!NoCall
        BY <1>11 DEF TypeOK, Visit, Ids, NoCall, Service!NoCall
    <2>2. served = 0
        BY <1>11 DEF Visit, served
    <2>3. CASE m_timers[id].exists /\ Due(m_timers[id])
        <3>1. view' = [view EXCEPT ![id] = View(Expired(m_timers[id]))] /\ served' = id
            BY <1>11, <2>1, <2>3 DEF TypeOK, Visit, view, served
        <3>2. /\ view[id].mode \in {"once", "periodic"}
              /\ view[id].left = 0
              /\ View(Expired(m_timers[id])) =
                    IF view[id].mode = "once"
                    THEN [mode |-> "off", timeout |-> view[id].timeout, left |-> 0]
                    ELSE [mode |-> "periodic", timeout |-> view[id].timeout,
                          left |-> view[id].timeout]
            BY <1>a, <2>1, <2>3, ViewOfExpired
        <3> HIDE DEF id
        <3>3. Service!Expire(id)
            BY <2>1, <2>2, <3>1, <3>2
            DEF Service!Expire, Service!Armed, Service!Become, view, served
        <3> QED BY <2>1, <3>3 DEF Service!Next
    <2>4. CASE ~(m_timers[id].exists /\ Due(m_timers[id]))
        <3>1. Service!Unseen
            BY <1>11, <2>1, <2>4 DEF Visit, Service!Unseen, view, served
        <3> QED BY <3>1 DEF Service!Next
    <2> QED BY <2>3, <2>4
<1>12. CASE CallbackReturns
    <2>1. served # 0
        BY <1>12 DEF TypeOK, CallbackReturns, served, Ids
    <2>2. Service!CallbackReturns
        BY <1>12, <2>1
        DEF CallbackReturns, Service!CallbackReturns, NoCall, Service!NoCall, view, served
    <2> QED BY <2>2 DEF Service!Next
<1>13. CASE Tick
    <2>1. \A id \in Ids :
            View(m_timers'[id]) = IF view[id].left > 0
                                  THEN [view[id] EXCEPT !.left = @ - 1] ELSE view[id]
        BY <1>13, <1>a, ViewOfAged DEF Tick
    <2>2. Service!Tick
        BY <1>13, <2>1 DEF Tick, Service!Tick, NoCall, Service!NoCall, view, served
    <2> QED BY <2>2 DEF Service!Next
<1>14. CASE UNCHANGED vars
    BY <1>14 DEF vars, view, served
<1> QED BY <1>1, <1>2, <1>3, <1>4, <1>5, <1>6, <1>7, <1>8, <1>9, <1>10, <1>11, <1>12,
           <1>13, <1>14, <1>b DEF Next, Client, Thread

\* Timers that are used plainly keep the promise of ITimers.h.
THEOREM PromiseKept ==
    ASSUME Plain = {TRUE}
    PROVE  Spec => KeepsPromise
<1>1. Init => plain /\ Service!Init
    BY ViewOfNoTimer
    DEF Init, Service!Init, Service!None, NoCall, Service!NoCall
<1>2. plain /\ [Next]_vars => plain'
    BY DEF Next, Client, Thread, vars, StopCall, StopClear, StopAgain, Clear, CreateTimer, RemoveTimer, Update,
           StartTimer, StopTimer, SetTimeout, StartTimerFor, StartTimerPeriodic, Loop, Visit,
           CallbackReturns, EndScan, Tick
<1>3. TypeOK /\ plain /\ [Next]_vars => [Service!Next]_<<view, served, call>>
    BY ServiceStep
<1> QED BY <1>1, <1>2, <1>3, TypeCorrect, PTL
        DEF Spec, KeepsPromise, Service!Spec, view, served

---------------------------------------------------------------------------
(* Persistence: induction *)

LEMMA Least ==
  ASSUME NEW T \in SUBSET Nat, T # {}
  PROVE  \E x \in T : \A y \in T : x <= y
<1> DEFINE R == OpToRel(<, Nat)
<1>1. IsWellFoundedOn(R, Nat)
  BY NatLessThanWellFounded
<1>2. \A i, j \in Nat : i < j => <<i, j>> \in R
  BY DEF OpToRel
<1> HIDE DEF R
<1>3. PICK x \in T : \A y \in T : <<y, x>> \notin R
  BY <1>1, WFMin, Zenon
<1>4. x \in Nat /\ \A y \in T : y \in Nat
  OBVIOUS
<1>5. \A y \in T : ~(y < x)
  BY <1>2, <1>3, <1>4
<1> QED
  BY <1>4, <1>5

\* A set of indices that holds 0, and with an index below n the next one, holds
\* all indices up to n.
LEMMA UpTo ==
  ASSUME NEW n \in Nat, NEW S, 0 \in S,
         \A i \in 0 .. n : i < n /\ i \in S => i + 1 \in S
  PROVE  \A i \in 0 .. n : i \in S
<1> DEFINE T == {i \in 0 .. n : i \notin S}
<1> SUFFICES ASSUME T # {} PROVE FALSE
  OBVIOUS
<1>0. T \in SUBSET Nat
  OBVIOUS
<1>1. PICK x \in T : \A y \in T : x <= y
  <2> HIDE DEF T
  <2> QED
    BY <1>0, Least
<1>2. x \in 0 .. n /\ x \notin S /\ x # 0
  OBVIOUS
<1>3. x - 1 \in 0 .. n /\ x - 1 < n /\ (x - 1) + 1 = x /\ ~(x <= x - 1)
  BY <1>2
<1>4. x - 1 \notin T
  BY <1>1, <1>3
<1>5. x - 1 \in S
  BY <1>3, <1>4
<1> QED
  BY <1>2, <1>3, <1>5

\* A function of the indices up to n that begins with base, and goes on with a
\* step for each index.
LEMMA SequenceMade ==
  ASSUME NEW T, NEW n \in Nat, NEW s \in [1 .. n -> T]
  PROVE  s \in Seq(T) /\ Len(s) = n /\ DOMAIN s = 1 .. n
OBVIOUS

---------------------------------------------------------------------------
(* FlattenSeq, by which the history is split and cleared of duplicates, is a
   recursive function.  FlattenIn is induction over its index: what is a member
   of A[i] after i sequences is a member of A[n] at the end. *)

FlattensTo(f, s, m) ==
    f = [i \in 1 .. m |-> IF i = 1 THEN s[i] ELSE f[i - 1] \o s[i]]

LEMMA FlatGrows ==
  ASSUME NEW s, NEW m \in Nat, NEW f, FlattensTo(f, s, m)
  PROVE  \E g : FlattensTo(g, s, m + 1)
<1> DEFINE Step(h, i) == IF i = 1 THEN s[i] ELSE h[i - 1] \o s[i]
           g == [i \in 1 .. m + 1 |-> IF i <= m THEN f[i] ELSE Step(f, i)]
<1>1. \A i \in 1 .. m : f[i] = Step(f, i)
  BY DEF FlattensTo
<1>2. ASSUME NEW i \in 1 .. m + 1 PROVE g[i] = Step(g, i)
  <2>1. i # 1 => i - 1 \in 1 .. m /\ i - 1 \in 1 .. m + 1 /\ i - 1 <= m
    BY <1>2
  <2>2. i # 1 => g[i - 1] = f[i - 1]
    BY <2>1
  <2>3. Step(g, i) = Step(f, i)
    <3> HIDE DEF g
    <3> QED
      BY <2>2
  <2>4. i <= m => i \in 1 .. m
    BY <1>2
  <2> HIDE DEF Step
  <2> QED
    BY <1>1, <2>3, <2>4
<1>3. g = [i \in 1 .. m + 1 |-> g[i]]
  OBVIOUS
<1> HIDE DEF g
<1>4. [i \in 1 .. m + 1 |-> g[i]] = [i \in 1 .. m + 1 |-> Step(g, i)]
  BY <1>2
<1>5. FlattensTo(g, s, m + 1)
  BY <1>3, <1>4 DEF FlattensTo
<1> QED
  BY <1>5

IsFlat(f, s) ==
    /\ f[1] = s[1]
    /\ \A i \in 1 .. Len(s) : i < Len(s) => f[i + 1] = f[i] \o s[i + 1]

LEMMA FlatIs ==
  ASSUME NEW s, NEW n, n \in Nat, n # 0, DOMAIN s = 1 .. n, Len(s) = n
  PROVE  \E f : IsFlat(f, s) /\ FlattenSeq(s) = f[n]
<1> DEFINE M == {m \in 0 .. n : \E f : FlattensTo(f, s, m)}
<1>1. 0 \in M
  <2>1. FlattensTo([i \in 1 .. 0 |-> 0], s, 0)
    BY DEF FlattensTo
  <2> QED
    BY <2>1
<1>2. ASSUME NEW i \in 0 .. n, i < n, i \in M PROVE i + 1 \in M
  <2>1. \E g : FlattensTo(g, s, i + 1)
    BY <1>2, FlatGrows
  <2> QED
    BY <1>2, <2>1
<1>3. n \in M
  <2>1. \A i \in 0 .. n : i < n /\ i \in M => i + 1 \in M
    BY <1>2
  <2> HIDE DEF M
  <2>2. \A i \in 0 .. n : i \in M
    BY <1>1, <2>1, UpTo
  <2> QED
    BY <2>2
<1> DEFINE flat == CHOOSE f : FlattensTo(f, s, n)
<1>4. FlattensTo(flat, s, n)
  BY <1>3
<1>5. FlattenSeq(s) = flat[n]
  BY DEF FlattenSeq, FlattensTo
<1> HIDE DEF flat
<1>6. \A i \in 1 .. n : flat[i] = IF i = 1 THEN s[i] ELSE flat[i - 1] \o s[i]
  BY <1>4 DEF FlattensTo
<1>7. ASSUME NEW i \in 1 .. n, i < n PROVE flat[i + 1] = flat[i] \o s[i + 1]
  <2>1. i + 1 \in 1 .. n /\ i + 1 # 1 /\ (i + 1) - 1 = i
    BY <1>7
  <2> QED
    BY <1>6, <2>1
<1>8. flat[1] = s[1]
  BY <1>6
<1> QED
  BY <1>5, <1>7, <1>8 DEF IsFlat

LEMMA FlattenIn ==
  ASSUME NEW T, NEW n \in Nat, NEW s \in [1 .. n -> Seq(T)], NEW A,
         <<>> \in A[0],
         \A i \in 1 .. n : \A x \in A[i - 1] \intersect Seq(T) : x \o s[i] \in A[i]
  PROVE  FlattenSeq(s) \in A[n] \intersect Seq(T)
<1>0. s \in Seq(Seq(T)) /\ Len(s) = n /\ DOMAIN s = 1 .. n
  BY Zenon, SequenceMade
<1>1. CASE n = 0
  <2>1. s = <<>>
    BY <1>0, <1>1
  <2>2. FlattenSeq(s) = s
    BY <1>0, <1>1 DEF FlattenSeq
  <2>3. <<>> \in Seq(T)
    OBVIOUS
  <2>4. FlattenSeq(s) = <<>>
    BY <2>1, <2>2
  <2>5. <<>> \in A[n]
    BY <1>1
  <2> QED
    BY <2>3, <2>4, <2>5
<1>2. CASE n # 0
  <2>0. PICK f : IsFlat(f, s) /\ FlattenSeq(s) = f[n]
    BY <1>0, <1>2, FlatIs
  <2>1. /\ f[1] = s[1]
        /\ \A i \in 1 .. n : i < n => f[i + 1] = f[i] \o s[i + 1]
    BY <1>0, <2>0 DEF IsFlat
  <2> DEFINE M == {m \in 0 .. n : m = 0 \/ f[m] \in A[m] \intersect Seq(T)}
  <2>2. 0 \in M
    OBVIOUS
  <2>3. ASSUME NEW i \in 0 .. n, i < n, i \in M PROVE i + 1 \in M
    <3>1. i + 1 \in 1 .. n /\ i + 1 \in 0 .. n /\ (i + 1) - 1 = i /\ s[i + 1] \in Seq(T)
      BY <2>3
    <3>2. CASE i = 0
      <4>1. <<>> \o s[1] = s[1]
        BY <3>1, <3>2
      <4>2. <<>> \o s[1] \in A[1]
        <5>1. 1 \in 1 .. n /\ 1 - 1 = 0 /\ <<>> \in Seq(T)
          BY <3>1, <3>2
        <5> QED
          BY <5>1
      <4>3. f[i + 1] = <<>> \o s[1] /\ s[1] \in Seq(T) /\ i + 1 = 1
        BY <2>1, <3>1, <3>2, <4>1
      <4> QED
        BY <3>1, <4>1, <4>2, <4>3
    <3>3. CASE i # 0
      <4>1. f[i] \in A[i] \intersect Seq(T) /\ i \in 1 .. n
        BY <2>3, <3>3
      <4>2. f[i] \o s[i + 1] \in A[i + 1]
        <5>1. \A x \in A[(i + 1) - 1] \intersect Seq(T) : x \o s[i + 1] \in A[i + 1]
          BY <3>1
        <5> QED
          BY <3>1, <4>1, <5>1
      <4>3. f[i] \o s[i + 1] \in Seq(T)
        BY <3>1, <4>1
      <4>4. f[i + 1] = f[i] \o s[i + 1]
        BY <2>1, <2>3, <4>1
      <4> QED
        BY <3>1, <4>2, <4>3, <4>4
    <3> QED
      BY <3>2, <3>3
  <2>4. n \in M
    <3>1. \A i \in 0 .. n : i < n /\ i \in M => i + 1 \in M
      BY <2>3
    <3> HIDE DEF M
    <3>2. \A i \in 0 .. n : i \in M
      BY <2>2, <3>1, UpTo
    <3> QED
      BY <3>2
  <2> HIDE DEF M
  <2>5. f[n] \in A[n] \intersect Seq(T)
    BY <1>2, <2>4 DEF M
  <2> QED
    BY <2>0, <2>5
<1> QED
  BY <1>1, <1>2

---------------------------------------------------------------------------
(* What Persistence needs besides its types. *)

Whole == [is : {"whole"}, settings : [Module -> Values], history : Histories]

\* Every command has one part only.
PlainText(h) == \A i \in DOMAIN h : Len(h[i]) = 1
\* No command twice, and fewer than the limit.
Tidy(h) == IsInjective(h) /\ Len(h) < MaxHistory

\* What there is of settings; a save in progress has collected some.
FilesInv ==
    /\ file \in {Absent, Cut} \union Whole
    /\ json \in {Absent} \union Whole
    /\ last \in {Absent} \union Whole
    /\ pc = "saving" => json \in Whole

\* A run begins with nothing but what the file holds.
BeginInv ==
    /\ pc = "registering" => ~touched /\ history = <<>> /\ json = file
    /\ pc = "off" \/ ~touched => adding = Idle

PlainInv ==
    env.plain =>
        /\ PlainText(history)
        /\ \A f \in {file, json} : f \in Whole => PlainText(f.history)
        /\ \A s \in Senders : adding[s] # NoCommand => Len(adding[s]) = 1

\* Nothing that cannot be read back.
Readable(f) == \A m \in Module : <<m, f[m]>> \notin Unreadable

ReadInv ==
    env.read => /\ Readable(settings)
                /\ \A f \in {file, json} : f \in Whole => Readable(f.settings)

\* Whoever adds a command is alone, and has removed it from the history.
TidyInv ==
    env.apart /\ env.plain =>
        /\ Tidy(history)
        /\ \A f \in {file, json} : f \in Whole => Tidy(f.history)
        /\ \A s \in Senders : adding[s] # NoCommand =>
               /\ \A t \in Senders : t # s => adding[t] = NoCommand
               /\ \A i \in DOMAIN history : history[i] # adding[s]

PersistenceInv ==
    /\ PersistenceTypes /\ FilesInv /\ BeginInv /\ PlainInv /\ TidyInv /\ ReadInv
    /\ SettingsSurvive

---------------------------------------------------------------------------
(* What the operators on a history do. *)

Parts == Seq(STRING)

LEMMA AddsOne ==
  ASSUME NEW T, NEW x \in Seq(T), NEW y \in Seq(T), Len(y) = 1
  PROVE  /\ Len(x \o y) = Len(x) + 1 /\ Len(x) \in Nat
         /\ \A k \in 1 .. Len(x) : (x \o y)[k] = x[k]
         /\ (x \o y)[Len(x) + 1] = y[1]
<1>1. Len(x) \in Nat
  BY LenProperties
<1>0. /\ Len(x \o y) = Len(x) + Len(y)
      /\ \A k \in 1 .. Len(x) + Len(y) :
            (x \o y)[k] = IF k <= Len(x) THEN x[k] ELSE y[k - Len(x)]
  BY ConcatProperties
<1> DEFINE z == x \o y
<1> HIDE DEF z
<1>5. /\ Len(z) = Len(x) + Len(y)
      /\ \A k \in 1 .. Len(x) + Len(y) : z[k] = IF k <= Len(x) THEN x[k] ELSE y[k - Len(x)]
  BY <1>0 DEF z
<1>2. Len(z) = Len(x) + 1
  BY <1>1, <1>5
<1>3. \A k \in 1 .. Len(x) : z[k] = x[k]
  BY <1>1, <1>5
<1>4. z[Len(x) + 1] = y[1]
  <2>1. /\ Len(x) + 1 \in 1 .. Len(x) + Len(y) /\ ~(Len(x) + 1 <= Len(x))
        /\ Len(x) + 1 - Len(x) = 1
    BY <1>1
  <2> QED
    BY <1>5, <2>1
<1> QED
  BY <1>1, <1>2, <1>3, <1>4 DEF z

\* The history without a command: nothing is added, and c is not in it.
LEMMA Removes ==
  ASSUME NEW h \in Histories, NEW c, NEW r, r = removeCommandHistoryDuplicates(h, c)
  PROVE  /\ r \in Histories
         /\ Len(r) <= Len(h)
         /\ \A k \in DOMAIN r : r[k] # c /\ \E j \in DOMAIN h : r[k] = h[j]
         /\ IsInjective(h) => IsInjective(r)
<1> DEFINE n == Len(h)
           s == [i \in DOMAIN h |-> IF h[i] = c THEN <<>> ELSE <<h[i]>>]
           Kept(x, i) ==
               /\ Len(x) <= i
               /\ \A k \in DOMAIN x : x[k] # c /\ \E j \in 1 .. i : x[k] = h[j]
               /\ IsInjective(h) => IsInjective(x)
           A == [i \in 0 .. n |-> {x \in Seq(Parts) : Kept(x, i)}]
<1>1. n \in Nat /\ DOMAIN h = 1 .. n /\ \A i \in 1 .. n : h[i] \in Parts
  BY DEF Histories, Parts
<1>2. s \in [1 .. n -> Seq(Parts)]
  BY <1>1
<1>3. <<>> \in A[0]
  <2>1. Kept(<<>>, 0)
    BY DEF IsInjective
  <2> HIDE DEF Kept, n
  <2> QED
    BY <1>1, <2>1
<1>4. ASSUME NEW i \in 1 .. n, NEW x \in A[i - 1] \intersect Seq(Parts)
      PROVE  x \o s[i] \in A[i]
  <2>1. i - 1 \in 0 .. n /\ i \in 0 .. n /\ i \in Nat
    BY <1>1, <1>4
  <2>2. x \in Seq(Parts) /\ Kept(x, i - 1)
    <3> HIDE DEF Kept, n, s
    <3> QED
      BY <1>4, <2>1
  <2>3. x \o s[i] \in Seq(Parts)
    BY <1>1, <1>2, <1>4, <2>2
  <2>4. CASE h[i] = c
    <3>1. x \o s[i] = x
      BY <1>1, <1>4, <2>2, <2>4
    <3>2. Kept(x, i)
      <4>1. Len(x) <= i
        BY <2>1, <2>2
      <4>2. ASSUME NEW k \in DOMAIN x PROVE x[k] # c /\ \E j \in 1 .. i : x[k] = h[j]
        <5>1. PICK j \in 1 .. i - 1 : x[k] = h[j]
          BY <2>2, <4>2
        <5>2. j \in 1 .. i
          BY <2>1
        <5> QED
          BY <2>2, <5>1, <5>2
      <4> QED
        BY <2>2, <4>1, <4>2
    <3> HIDE DEF Kept, n, s
    <3> QED
      BY <2>1, <2>2, <3>1, <3>2
  <2>5. CASE h[i] # c
    <3> DEFINE y == x \o s[i]
    <3>1. s[i] = <<h[i]>>
      BY <1>1, <1>4, <2>5
    <3>2. /\ Len(y) = Len(x) + 1 /\ Len(x) \in Nat
          /\ DOMAIN y = 1 .. Len(x) + 1 /\ DOMAIN x = 1 .. Len(x)
          /\ \A k \in 1 .. Len(x) : y[k] = x[k]
          /\ y[Len(x) + 1] = h[i]
      <4> HIDE DEF s
      <4> QED
        BY <1>1, <1>4, <2>2, <3>1
    <3> HIDE DEF y
    <3>3. Len(y) <= i
      BY <2>1, <2>2, <3>2
    <3>4. ASSUME NEW k \in DOMAIN y PROVE y[k] # c /\ \E j \in 1 .. i : y[k] = h[j]
      <4>1. CASE k = Len(x) + 1
        BY <2>1, <2>5, <3>2, <4>1
      <4>2. CASE k # Len(x) + 1
        <5>1. k \in DOMAIN x /\ y[k] = x[k]
          BY <3>2, <3>4, <4>2
        <5>2. PICK j \in 1 .. i - 1 : x[k] = h[j]
          BY <2>2, <5>1
        <5>3. j \in 1 .. i
          BY <2>1
        <5> QED
          BY <2>2, <5>1, <5>2, <5>3
      <4> QED
        BY <4>1, <4>2
    <3>5. ASSUME IsInjective(h) PROVE IsInjective(y)
      <4>1. ASSUME NEW k \in DOMAIN x PROVE x[k] # h[i]
        <5>1. PICK j \in 1 .. i - 1 : x[k] = h[j]
          BY <2>2, <4>1
        <5>2. j \in DOMAIN h /\ i \in DOMAIN h /\ j # i
          BY <1>1, <1>4, <2>1
        <5> QED
          BY <3>5, <5>1, <5>2 DEF IsInjective
      <4>2. IsInjective(x)
        BY <2>2, <3>5
      <4> SUFFICES ASSUME NEW k \in DOMAIN y, NEW l \in DOMAIN y, y[k] = y[l]
                   PROVE  k = l
        BY DEF IsInjective
      <4>3. CASE k \in DOMAIN x /\ l \in DOMAIN x
        BY <3>2, <4>2, <4>3 DEF IsInjective
      <4>4. CASE k \notin DOMAIN x /\ l \notin DOMAIN x
        BY <3>2, <4>4
      <4>5. CASE k \in DOMAIN x /\ l \notin DOMAIN x
        <5>1. l = Len(x) + 1
          BY <3>2, <4>5
        <5> QED
          BY <3>2, <4>1, <4>5, <5>1
      <4>6. CASE k \notin DOMAIN x /\ l \in DOMAIN x
        <5>1. k = Len(x) + 1
          BY <3>2, <4>6
        <5> QED
          BY <3>2, <4>1, <4>6, <5>1
      <4> QED
        BY <4>3, <4>4, <4>5, <4>6
    <3>6. Kept(y, i)
      BY <3>3, <3>4, <3>5
    <3>7. y \in Seq(Parts)
      BY <2>3 DEF y
    <3>8. y \in A[i]
      <4> HIDE DEF Kept, n, s
      <4> QED
        BY <2>1, <3>6, <3>7
    <3> QED
      BY <3>8 DEF y
  <2> QED
    BY <2>4, <2>5
<1>5. FlattenSeq(s) \in A[n] \intersect Seq(Parts)
  <2>1. \A i \in 1 .. n : \A x \in A[i - 1] \intersect Seq(Parts) : x \o s[i] \in A[i]
    BY <1>4
  <2> HIDE DEF A, n, s, Kept
  <2> QED
    BY <1>1, <1>2, <1>3, <2>1, FlattenIn
<1>6. r = FlattenSeq(s)
  BY DEF removeCommandHistoryDuplicates
<1>7. r \in Seq(Parts) /\ Kept(r, n)
  <2> HIDE DEF Kept, n, s
  <2>1. n \in 0 .. n
    BY <1>1
  <2> QED
    BY <1>1, <1>5, <1>6, <2>1
<1> QED
  BY <1>1, <1>7 DEF Histories, Parts

\* What is read back is a history; with commands of one part, it is what was
\* written.
LEMMA Splits ==
  ASSUME NEW h \in Histories
  PROVE  /\ Split(h) \in Histories
         /\ PlainText(h) => Split(h) = h
<1> DEFINE n == Len(h)
           s == [i \in DOMAIN h |-> [j \in DOMAIN h[i] |-> <<h[i][j]>>]]
           Same(x, i) == PlainText(h) => Len(x) = i /\ \A k \in 1 .. i : x[k] = h[k]
           A == [i \in 0 .. n |-> {x \in Seq(Parts) : Same(x, i)}]
<1>1. n \in Nat /\ DOMAIN h = 1 .. n /\ \A i \in 1 .. n : h[i] \in Parts
  BY DEF Histories, Parts
<1>2. s \in [1 .. n -> Seq(Parts)]
  <2>1. ASSUME NEW i \in 1 .. n PROVE [j \in DOMAIN h[i] |-> <<h[i][j]>>] \in Seq(Parts)
    <3>1. h[i] \in Seq(STRING)
      BY <1>1 DEF Parts
    <3>2. Len(h[i]) \in Nat /\ DOMAIN h[i] = 1 .. Len(h[i])
      BY <3>1
    <3>3. \A j \in 1 .. Len(h[i]) : <<h[i][j]>> \in Parts
      BY <3>1 DEF Parts
    <3>4. [j \in DOMAIN h[i] |-> <<h[i][j]>>] \in [1 .. Len(h[i]) -> Parts]
      BY <3>2, <3>3
    <3> QED
      BY <3>2, <3>4, SequenceMade
  <2> QED
    BY <1>1, <2>1
<1>3. <<>> \in A[0]
  <2>1. Same(<<>>, 0)
    OBVIOUS
  <2> HIDE DEF Same, n
  <2> QED
    BY <1>1, <2>1
<1>4. ASSUME NEW i \in 1 .. n, NEW x \in A[i - 1] \intersect Seq(Parts)
      PROVE  x \o s[i] \in A[i]
  <2>1. i - 1 \in 0 .. n /\ i \in 0 .. n /\ i \in Nat
    BY <1>1, <1>4
  <2>2. x \in Seq(Parts) /\ Same(x, i - 1)
    <3> HIDE DEF Same, n, s
    <3> QED
      BY <1>4, <2>1
  <2>3. s[i] \in Seq(Parts)
    <3> HIDE DEF s, n
    <3> QED
      BY <1>2, <1>4
  <2>4. x \o s[i] \in Seq(Parts)
    <3> HIDE DEF s
    <3> QED
      BY <2>2, <2>3
  <2>5. ASSUME PlainText(h)
        PROVE  Len(x \o s[i]) = i /\ \A k \in 1 .. i : (x \o s[i])[k] = h[k]
    <3>1. Len(h[i]) = 1 /\ h[i] \in Seq(STRING)
      BY <1>1, <1>4, <2>5 DEF PlainText, Parts
    <3>2. Len(s[i]) = 1 /\ s[i][1] = <<h[i][1]>>
      <4>1. s[i] = [j \in DOMAIN h[i] |-> <<h[i][j]>>]
        BY <1>1, <1>4
      <4>2. DOMAIN h[i] = 1 .. Len(h[i]) /\ Len(h[i]) \in Nat
        BY <3>1
      <4>3. \A j \in 1 .. Len(h[i]) : <<h[i][j]>> \in Parts
        BY <3>1 DEF Parts
      <4> HIDE DEF s
      <4>4. s[i] \in [1 .. Len(h[i]) -> Parts]
        BY <4>1, <4>2, <4>3
      <4>5. Len(s[i]) = Len(h[i])
        BY <4>2, <4>4, SequenceMade
      <4>6. 1 \in DOMAIN h[i]
        BY <3>1, <4>2
      <4> QED
        BY <3>1, <4>1, <4>5, <4>6
    <3>3. h[i] = <<h[i][1]>>
      BY <3>1
    <3>4. Len(x) = i - 1 /\ \A k \in 1 .. i - 1 : x[k] = h[k]
      BY <2>2, <2>5
    <3> HIDE DEF s, Same, n
    <3>a. /\ Len(x \o s[i]) = Len(x) + 1
          /\ \A k \in 1 .. Len(x) : (x \o s[i])[k] = x[k]
          /\ (x \o s[i])[Len(x) + 1] = s[i][1]
      BY <2>2, <2>3, <3>2, AddsOne, Zenon
    <3> DEFINE y == x \o s[i]
    <3> HIDE DEF y
    <3>b. /\ Len(y) = Len(x) + 1
          /\ \A k \in 1 .. Len(x) : y[k] = x[k]
          /\ y[Len(x) + 1] = s[i][1]
      BY <3>a DEF y
    <3>5. Len(y) = i
      BY <2>1, <3>4, <3>b
    <3>6. ASSUME NEW k \in 1 .. i PROVE y[k] = h[k]
      <4>1. CASE k = i
        BY <2>1, <3>2, <3>3, <3>4, <3>b, <4>1
      <4>2. CASE k # i
        <5>1. k \in 1 .. i - 1 /\ k \in 1 .. Len(x)
          BY <2>1, <3>4, <3>6, <4>2
        <5>2. y[k] = x[k]
          BY <3>b, <5>1
        <5> QED
          BY <3>4, <5>1, <5>2
      <4> QED
        BY <4>1, <4>2
    <3> QED
      BY <3>5, <3>6 DEF y
  <2>6. Same(x \o s[i], i)
    BY <2>5
  <2> HIDE DEF Same, n, s
  <2> QED
    BY <2>1, <2>4, <2>6
<1>5. FlattenSeq(s) \in A[n] \intersect Seq(Parts)
  <2>1. \A i \in 1 .. n : \A x \in A[i - 1] \intersect Seq(Parts) : x \o s[i] \in A[i]
    BY <1>4
  <2> HIDE DEF A, n, s, Same
  <2> QED
    BY <1>1, <1>2, <1>3, <2>1, FlattenIn
<1>6. Split(h) = FlattenSeq(s)
  BY DEF Split
<1>7. Split(h) \in Seq(Parts) /\ Same(Split(h), n)
  <2> HIDE DEF Same, n, s
  <2>1. n \in 0 .. n
    BY <1>1
  <2> QED
    BY <1>1, <1>5, <1>6, <2>1
<1>8. ASSUME PlainText(h) PROVE Split(h) = h
  <2> DEFINE x == Split(h)
  <2>1. x \in Seq(Parts) /\ h \in Seq(Parts) /\ Len(x) = Len(h) /\ \A k \in 1 .. Len(h) : x[k] = h[k]
    BY <1>7, <1>8 DEF Histories, Parts
  <2> HIDE DEF x
  <2>2. x = h
    BY <2>1
  <2> QED
    BY <2>2 DEF x
<1> QED
  BY <1>7, <1>8 DEF Histories, Parts

\* push_back() and the trimming that follows it.
LEMMA Pushes ==
  ASSUME NEW h \in Histories, NEW c \in Parts, NEW t, t = Trim(Append(h, c))
  PROVE  /\ t \in Histories
         /\ PlainText(h) /\ Len(c) = 1 => PlainText(t)
         /\ Tidy(h) /\ (\A i \in DOMAIN h : h[i] # c) => Tidy(t)
<1> DEFINE p == Append(h, c)
           d == IF Len(p) >= MaxHistory THEN Len(p) - MaxHistory + 1 ELSE 0
<1>1. h \in Seq(Parts) /\ Len(h) \in Nat /\ DOMAIN h = 1 .. Len(h) /\ MaxHistory \in Nat \ {0}
  BY PersistenceAssumption DEF Histories, Parts
<1>2. /\ p \in Seq(Parts) /\ Len(p) = Len(h) + 1 /\ DOMAIN p = 1 .. Len(h) + 1
      /\ p[Len(h) + 1] = c /\ \A i \in 1 .. Len(h) : p[i] = h[i]
  BY <1>1
<1> HIDE DEF p
<1>3. /\ t \in Seq(Parts) /\ Len(t) = Len(p) - d /\ d \in 0 .. Len(p)
      /\ \A k \in 1 .. Len(t) : t[k] = p[k + d]
  <2>0. t = IF Len(p) >= MaxHistory THEN SubSeq(p, Len(p) - MaxHistory + 2, Len(p)) ELSE p
    BY DEF Trim, p
  <2>1. CASE Len(p) >= MaxHistory
    <3>1. t = SubSeq(p, d + 1, Len(p)) /\ d \in 1 .. Len(p)
      BY <1>1, <1>2, <2>0, <2>1
    <3> HIDE DEF d
    <3> QED
      BY <1>1, <1>2, <3>1
  <2>2. CASE ~(Len(p) >= MaxHistory)
    BY <1>1, <1>2, <2>0, <2>2
  <2> QED
    BY <2>1, <2>2
<1>4. Len(p) < MaxHistory + d
  BY <1>1, <1>2
<1> HIDE DEF d
<1>5. DOMAIN t = 1 .. Len(t) /\ \A k \in DOMAIN t : k + d \in DOMAIN p /\ t[k] = p[k + d]
  BY <1>1, <1>2, <1>3
<1>6. ASSUME PlainText(h), Len(c) = 1 PROVE PlainText(t)
  <2>1. \A i \in DOMAIN p : Len(p[i]) = 1
    BY <1>1, <1>2, <1>6 DEF PlainText
  <2> QED
    BY <1>5, <2>1 DEF PlainText
<1>7. ASSUME Tidy(h), \A i \in DOMAIN h : h[i] # c PROVE Tidy(t)
  <2>1. Len(t) < MaxHistory
    BY <1>1, <1>2, <1>3, <1>4
  <2>2. ASSUME NEW i \in DOMAIN p, NEW j \in DOMAIN p, p[i] = p[j] PROVE i = j
    <3>1. i = Len(h) + 1 \/ (i \in DOMAIN h /\ p[i] = h[i])
      BY <1>1, <1>2
    <3>2. j = Len(h) + 1 \/ (j \in DOMAIN h /\ p[j] = h[j])
      BY <1>1, <1>2
    <3> QED
      BY <1>2, <1>7, <2>2, <3>1, <3>2 DEF Tidy, IsInjective
  <2>3. ASSUME NEW i \in DOMAIN t, NEW j \in DOMAIN t, t[i] = t[j] PROVE i = j
    <3>1. i + d = j + d
      BY <1>5, <2>2, <2>3
    <3> QED
      BY <1>3, <1>5, <3>1
  <2> QED
    BY <2>1, <2>3 DEF Tidy, IsInjective
<1> QED
  BY <1>3, <1>6, <1>7 DEF Histories, Parts

---------------------------------------------------------------------------
(* Types, and what the file and g_jsonFile hold *)

LEMMA RecordFacts ==
  /\ Absent.is = "absent" /\ Cut.is = "cut"
  /\ \A f \in Whole : f.is = "whole" /\ f.settings \in [Module -> Values] /\ f.history \in Histories
                      /\ f # Absent /\ f # Cut
  /\ Absent # Cut /\ Absent \notin Whole /\ Cut \notin Whole
  /\ \A s \in [Module -> Values], h \in Histories :
         Content(s, h) \in Whole /\ Content(s, h).settings = s /\ Content(s, h).history = h
BY DEF Absent, Cut, Whole, Content

LEMMA StartTypes ==
  /\ <<>> \in Histories /\ Defaults \in [Module -> Values]
  /\ Idle \in [Senders -> Parts] /\ \A s \in Senders : Idle[s] = NoCommand
  /\ "MAIN_APPLICATION" \notin Module /\ "SETTINGS" \in Module
  /\ Len(Listeners) \in Nat /\ Len(Listeners) > 1 /\ 0 \in 0 .. Len(Listeners)
  /\ \A k \in 1 .. Len(Listeners) :
         Listeners[k] = "MAIN_APPLICATION" \/ Listeners[k] \in Module
<1>1. Listeners \in Seq(STRING) /\ Len(Listeners) > 1 /\ Listeners[2] = "SETTINGS"
  BY PersistenceAssumption
<1>2. Len(Listeners) \in Nat
  BY <1>1
<1>3. \A k \in 1 .. Len(Listeners) : Listeners[k] \in ToSet(Listeners)
  BY <1>1 DEF ToSet
<1>4. <<>> \in Histories /\ Defaults \in [Module -> Values] /\ Idle \in [Senders -> Parts]
  BY PersistenceAssumption DEF Histories, Defaults, Idle, NoCommand, Parts
<1>5. 2 \in 1 .. Len(Listeners)
  BY <1>1, <1>2
<1> QED
  BY <1>1, <1>2, <1>3, <1>4, <1>5 DEF Module, Idle

\* At the end of the registration, every module is registered.
LEMMA AllRegistered ==
  ASSUME at = Len(Listeners)
  PROVE  Module \subseteq Registered
<1>1. Listeners \in Seq(STRING)
  BY PersistenceAssumption
<1> QED
  BY <1>1 DEF Module, Registered, ToSet

LEMMA ContentTypes ==
  ASSUME NEW f \in {Absent, Cut} \union Whole
  PROVE  f.is \in {"absent", "cut", "whole"} /\ Contents(f)
BY RecordFacts DEF Contents

\* What the next run is restored from.
LEMMA SavedTypes ==
  ASSUME json \in {Absent} \union Whole, settings \in [Module -> Values]
  PROVE  /\ \A m \in Module : Saved(m) \in Values
         /\ json = Absent \/ json.history \in Histories
BY RecordFacts DEF Saved

Typed ==
  /\ env \in Env
  /\ pc \in {"off", "registering", "up", "saving", "closing"}
  /\ at \in 0 .. Len(Listeners)
  /\ pc = "saving" => file = Cut
  /\ json # Absent => pc \in {"registering", "saving"}
  /\ settings \in [Module -> Values]
  /\ history \in Histories
  /\ adding \in [Senders -> Parts]
  /\ {touched, failed} \subseteq BOOLEAN
  /\ FilesInv

LEMMA TypesAre == Typed <=> PersistenceTypes /\ FilesInv
<1>1. FilesInv => \A f \in {file, json, last} : f.is \in {"absent", "cut", "whole"} /\ Contents(f)
  BY ContentTypes DEF FilesInv
<1> QED
  BY <1>1 DEF Typed, PersistenceTypes, Parts

LEMMA TypesInit == PersistenceInit => Typed
<1>1. Envs \subseteq Env
  BY PersistenceAssumption
<1> QED
  BY <1>1, StartTypes DEF PersistenceInit, Typed, FilesInv

LEMMA EnvStays == [PersistenceNext]_persistenceVars => env' = env
BY DEF PersistenceNext, persistenceVars, Load, Register, RegisterThrows, Restore, RestoreThrows,
       Throw, Change, Send, Push, Save, Gather, Write, Close, Crash, Gone, Delete

\* An exception ends the start as the end of the process does.
LEMMA ThrowsAre ==
  ASSUME RegisterThrows \/ RestoreThrows
  PROVE  /\ Gone /\ failed' = TRUE /\ UNCHANGED <<env, file, last>>
         /\ pc = "registering" /\ \E m \in Module : ~Reads(m)
BY StartTypes DEF RegisterThrows, RestoreThrows, Throw

LEMMA GoneTypes ==
  ASSUME Typed, Gone, UNCHANGED <<env, file, last>>, failed' \in BOOLEAN
  PROVE  Typed'
BY StartTypes DEF Typed, FilesInv, Gone

LEMMA TypesStep == Typed /\ BeginInv /\ [PersistenceNext]_persistenceVars => Typed'
<1> SUFFICES ASSUME Typed, BeginInv, [PersistenceNext]_persistenceVars PROVE Typed'
  OBVIOUS
<1> USE DEF Typed, FilesInv
<1>1. CASE Load
  BY <1>1, StartTypes, RecordFacts DEF Load
<1>2. CASE Register
  <2>1. Saved("SETTINGS") \in Values
    BY SavedTypes, StartTypes
  <2>2. settings' \in [Module -> Values]
    BY <1>2, <2>1 DEF Register
  <2>3. at' \in 0 .. Len(Listeners)
    BY <1>2, StartTypes DEF Register
  <2> QED
    BY <1>2, <2>2, <2>3 DEF Register
<1>3. CASE Restore
  <2>1. settings' \in [Module -> Values]
    BY <1>3, SavedTypes DEF Restore
  <2>2. history' \in Histories
    <3>1. json # Absent => Split(json.history) \in Histories
      BY SavedTypes, Splits
    <3>2. (IF json = Absent THEN <<>> ELSE Split(json.history)) \in Histories
      BY <3>1, StartTypes
    <3> QED
      BY <1>3, <3>2 DEF Restore, Histories
  <2> QED
    BY <1>3, <2>1, <2>2 DEF Restore, clearFile
<1>4. CASE Change
  BY <1>4 DEF Change
<1>5. ASSUME NEW s \in Senders, Send(s) PROVE Typed'
  <2>1. PICK c \in Commands : /\ adding' = [adding EXCEPT ![s] = c]
                              /\ history' = removeCommandHistoryDuplicates(history, c)
    BY <1>5 DEF Send
  <2>2. history' \in Histories
    BY <2>1, Removes
  <2>3. adding' \in [Senders -> Parts]
    BY <2>1, PersistenceAssumption DEF Parts
  <2> QED
    BY <1>5, <2>2, <2>3 DEF Send
<1>6. ASSUME NEW s \in Senders, Push(s) PROVE Typed'
  <2>1. history' \in Histories
    BY <1>6, Pushes DEF Push
  <2>2. adding' \in [Senders -> Parts]
    BY <1>6 DEF Push, NoCommand, Parts
  <2> QED
    BY <1>6, <2>1, <2>2 DEF Push
<1>7. CASE Save
  BY <1>7, StartTypes, RecordFacts DEF Save
<1>8. CASE Gather
  <2>1. at' \in 1 .. Len(Listeners)
    BY <1>8, StartTypes DEF Gather
  <2>2. json' \in Whole
    <3>1. CASE Listeners[at'] = "MAIN_APPLICATION"
      BY <1>8, <3>1 DEF Gather, Whole
    <3>2. CASE Listeners[at'] # "MAIN_APPLICATION"
      <4>1. Listeners[at'] \in Module
        BY <2>1, <3>2, StartTypes
      <4>2. json' = [json EXCEPT !.settings[Listeners[at']] = settings[Listeners[at']]]
        BY <1>8, <3>2 DEF Gather
      <4>3. json.settings \in [Module -> Values] /\ json \in Whole
        BY <1>8, RecordFacts DEF Gather
      <4> QED
        BY <4>1, <4>2, <4>3 DEF Whole
    <3> QED
      BY <3>1, <3>2
  <2> QED
    BY <1>8, <2>1, <2>2, StartTypes DEF Gather
<1>9. CASE Write
  BY <1>9 DEF Write, Stored
<1>10. CASE Close
  BY <1>10, GoneTypes DEF Close
<1>11. CASE Crash \/ RegisterThrows \/ RestoreThrows
  BY <1>11, GoneTypes, ThrowsAre DEF Crash
<1>12. CASE Delete
  BY <1>12 DEF Delete
<1>13. CASE UNCHANGED persistenceVars
  BY <1>13 DEF persistenceVars
<1> QED
  BY <1>1, <1>2, <1>3, <1>4, <1>5, <1>6, <1>7, <1>8, <1>9, <1>10, <1>11, <1>12, <1>13
     DEF PersistenceNext

---------------------------------------------------------------------------
(* How a run begins *)

LEMMA BeginInit == PersistenceInit => BeginInv
BY DEF PersistenceInit, BeginInv

LEMMA BeginStep == Typed /\ BeginInv /\ [PersistenceNext]_persistenceVars => BeginInv'
<1> SUFFICES ASSUME Typed, BeginInv, [PersistenceNext]_persistenceVars PROVE BeginInv'
  OBVIOUS
<1> USE DEF BeginInv
<1>1. CASE Load
  BY <1>1 DEF Load, Typed
<1>2. CASE Register
  BY <1>2 DEF Register
<1>3. CASE Restore
  BY <1>3 DEF Restore
<1>4. CASE Change
  BY <1>4 DEF Change
<1>5. ASSUME NEW s \in Senders, Send(s) PROVE BeginInv'
  BY <1>5 DEF Send, MaySend
<1>6. ASSUME NEW s \in Senders, Push(s) PROVE BeginInv'
  <2>1. adding # Idle
    BY <1>6, StartTypes DEF Push
  <2> QED
    BY <1>6, <2>1 DEF Push
<1>7. CASE Save
  BY <1>7 DEF Save
<1>8. CASE Gather
  BY <1>8 DEF Gather
<1>9. CASE Write
  BY <1>9 DEF Write
<1>10. CASE Close \/ Crash \/ RegisterThrows \/ RestoreThrows
  BY <1>10, ThrowsAre DEF Close, Crash, Gone
<1>11. CASE Delete
  BY <1>11 DEF Delete
<1>12. CASE UNCHANGED persistenceVars
  BY <1>12 DEF persistenceVars
<1> QED
  BY <1>1, <1>2, <1>3, <1>4, <1>5, <1>6, <1>7, <1>8, <1>9, <1>10, <1>11, <1>12
     DEF PersistenceNext

---------------------------------------------------------------------------
(* Commands of one part, and no duplicates *)

LEMMA EmptyHistory == PlainText(<<>>) /\ Tidy(<<>>)
<1>1. PlainText(<<>>)
  BY DEF PlainText
<1>2. IsInjective(<<>>)
  BY DEF IsInjective
<1> QED
  BY <1>1, <1>2, PersistenceAssumption DEF Tidy

\* What save() collects, and what is restored.
LEMMA Collected ==
  ASSUME Typed, Gather
  PROVE  json'.history \in {json.history, history} /\ json \in Whole /\ json' \in Whole'
BY StartTypes, RecordFacts DEF Gather, Typed, FilesInv, Whole

LEMMA RestoredHistory ==
  ASSUME Typed, BeginInv, Restore
  PROVE  /\ json = Absent => history' = <<>>
         /\ json # Absent => /\ json \in Whole
                             /\ PlainText(json.history) => history' = json.history
<1>1. history = <<>> /\ history' = history \o (IF json = Absent THEN <<>> ELSE Split(json.history))
  BY DEF Restore, BeginInv
<1>2. CASE json = Absent
  BY <1>1, <1>2
<1>3. CASE json # Absent
  <2>1. json \in Whole /\ json.history \in Histories
    BY <1>3, RecordFacts DEF Typed, FilesInv
  <2>2. Split(json.history) \in Seq(Parts)
    BY <2>1, Splits DEF Histories, Parts
  <2>3. history' = Split(json.history)
    BY <1>1, <1>3, <2>2
  <2> QED
    BY <1>3, <2>1, <2>3, Splits
<1> QED
  BY <1>2, <1>3

LEMMA PlainInit == PersistenceInit => PlainInv
BY EmptyHistory, RecordFacts, StartTypes DEF PersistenceInit, PlainInv

\* The object is gone, and its history with it.
LEMMA PlainGone ==
  ASSUME PlainInv, env.plain, Gone, UNCHANGED file
  PROVE  PlainInv'
<1>1. history' = <<>> /\ json' = Absent /\ adding' = Idle
  BY DEF Gone
<1>2. PlainText(history')
  BY <1>1, EmptyHistory
<1>3. Whole' = Whole
  BY DEF Whole
<1> QED
  BY <1>1, <1>2, <1>3, RecordFacts, StartTypes DEF PlainInv

LEMMA PlainStep ==
  Typed /\ BeginInv /\ PlainInv /\ [PersistenceNext]_persistenceVars => PlainInv'
<1> SUFFICES ASSUME Typed, BeginInv, PlainInv, [PersistenceNext]_persistenceVars, env'.plain
             PROVE  PlainInv'
  BY DEF PlainInv
<1>0. env.plain
  BY EnvStays
<1>a. Whole' = Whole
  BY DEF Whole
<1> USE <1>0, <1>a DEF PlainInv
<1>1. CASE Load
  BY <1>1, EmptyHistory, RecordFacts DEF Load
<1>2. CASE Register
  BY <1>2 DEF Register
<1>3. CASE Restore
  <2>1. PlainText(history')
    BY <1>3, RestoredHistory, EmptyHistory
  <2>2. json' = Absent /\ UNCHANGED <<file, adding>>
    BY <1>3 DEF Restore, clearFile
  <2> QED
    BY <2>1, <2>2, RecordFacts
<1>4. CASE Change
  BY <1>4 DEF Change
<1>5. ASSUME NEW s \in Senders, Send(s) PROVE PlainInv'
  <2>1. PICK c \in Commands : /\ Len(c) = 1
                              /\ adding' = [adding EXCEPT ![s] = c]
                              /\ history' = removeCommandHistoryDuplicates(history, c)
    BY <1>5 DEF Send
  <2>2. history \in Histories
    BY DEF Typed
  <2>3. PlainText(history')
    <3>1. \A k \in DOMAIN history' : \E j \in DOMAIN history : history'[k] = history[j]
      BY <2>1, <2>2, Removes
    <3> QED
      BY <3>1 DEF PlainText
  <2>4. \A t \in Senders : adding'[t] # NoCommand => Len(adding'[t]) = 1
    BY <2>1 DEF Typed
  <2>5. UNCHANGED <<file, json>>
    BY <1>5 DEF Send
  <2> QED
    BY <2>3, <2>4, <2>5
<1>6. ASSUME NEW s \in Senders, Push(s) PROVE PlainInv'
  <2>1. /\ history' = Trim(Append(history, adding[s])) /\ adding[s] # NoCommand
        /\ adding' = [adding EXCEPT ![s] = NoCommand] /\ UNCHANGED <<file, json>>
    BY <1>6 DEF Push
  <2>2. history \in Histories /\ adding[s] \in Parts
    BY DEF Typed
  <2>3. PlainText(history')
    BY <2>1, <2>2, Pushes
  <2>4. \A t \in Senders : adding'[t] # NoCommand => Len(adding'[t]) = 1
    BY <2>1 DEF Typed
  <2> QED
    BY <2>1, <2>3, <2>4
<1>7. CASE Save
  BY <1>7, EmptyHistory, RecordFacts, StartTypes DEF Save
<1>8. CASE Gather
  <2>1. PlainText(json'.history)
    BY <1>8, Collected DEF Gather
  <2> QED
    BY <1>8, <2>1 DEF Gather
<1>9. CASE Write
  BY <1>9, RecordFacts DEF Write, Stored
<1>10. CASE Close \/ Crash \/ RegisterThrows \/ RestoreThrows
  BY <1>10, PlainGone, ThrowsAre DEF Close, Crash
<1>11. CASE Delete
  BY <1>11, RecordFacts DEF Delete
<1>12. CASE UNCHANGED persistenceVars
  BY <1>12 DEF persistenceVars
<1> QED
  BY <1>1, <1>2, <1>3, <1>4, <1>5, <1>6, <1>7, <1>8, <1>9, <1>10, <1>11, <1>12
     DEF PersistenceNext

LEMMA TidyInit == PersistenceInit => TidyInv
BY EmptyHistory, RecordFacts, StartTypes DEF PersistenceInit, TidyInv

LEMMA TidyGone ==
  ASSUME TidyInv, env.apart, env.plain, Gone, UNCHANGED file
  PROVE  TidyInv'
<1>1. history' = <<>> /\ json' = Absent /\ adding' = Idle
  BY DEF Gone
<1>2. Tidy(history')
  BY <1>1, EmptyHistory
<1>3. Whole' = Whole
  BY DEF Whole
<1> QED
  BY <1>1, <1>2, <1>3, RecordFacts, StartTypes DEF TidyInv

LEMMA TidyStep ==
  Typed /\ BeginInv /\ PlainInv /\ TidyInv /\ [PersistenceNext]_persistenceVars => TidyInv'
<1> SUFFICES ASSUME Typed, BeginInv, PlainInv, TidyInv, [PersistenceNext]_persistenceVars,
                    env'.apart, env'.plain
             PROVE  TidyInv'
  BY DEF TidyInv
<1>0. env.apart /\ env.plain
  BY EnvStays
<1>a. Whole' = Whole
  BY DEF Whole
<1> USE <1>0, <1>a DEF TidyInv
<1>1. CASE Load
  <2>1. adding' = Idle /\ history' = <<>>
    BY <1>1 DEF Load, BeginInv
  <2>2. json' \in {Absent, file} /\ file' = file
    BY <1>1 DEF Load
  <2>3. Tidy(history')
    BY <2>1, EmptyHistory
  <2> QED
    BY <2>1, <2>2, <2>3, RecordFacts, StartTypes
<1>2. CASE Register
  BY <1>2 DEF Register
<1>3. CASE Restore
  <2>1. json' = Absent /\ UNCHANGED <<file, adding>> /\ adding = Idle
    BY <1>3 DEF Restore, clearFile, BeginInv
  <2>2. Tidy(history')
    <3>1. json \in Whole => PlainText(json.history)
      BY DEF PlainInv
    <3> QED
      BY <1>3, <3>1, RestoredHistory, EmptyHistory
  <2> QED
    BY <2>1, <2>2, RecordFacts, StartTypes
<1>4. CASE Change
  BY <1>4 DEF Change
<1>5. ASSUME NEW s \in Senders, Send(s) PROVE TidyInv'
  <2>1. PICK c \in Commands : /\ adding' = [adding EXCEPT ![s] = c]
                              /\ history' = removeCommandHistoryDuplicates(history, c)
    BY <1>5 DEF Send
  <2>2. history \in Histories /\ adding \in [Senders -> Parts]
    BY DEF Typed
  <2>3. /\ history' \in Histories /\ Len(history') <= Len(history)
        /\ \A k \in DOMAIN history' : history'[k] # c
        /\ IsInjective(history')
    BY <2>1, <2>2, Removes DEF Tidy
  <2>4. Tidy(history')
    <3>1. Len(history') \in Nat /\ Len(history) \in Nat /\ MaxHistory \in Nat
      BY <2>2, <2>3, PersistenceAssumption DEF Histories
    <3>2. Len(history) < MaxHistory
      BY DEF Tidy
    <3> QED
      BY <2>3, <3>1, <3>2 DEF Tidy
  <2>5. adding = Idle
    BY <1>5 DEF Send, MaySend
  <2>6. \A t \in Senders : adding'[t] = IF t = s THEN c ELSE NoCommand
    BY <2>1, <2>2, <2>5, StartTypes
  <2>7. UNCHANGED <<file, json>>
    BY <1>5 DEF Send
  <2> QED
    BY <2>3, <2>4, <2>6, <2>7
<1>6. ASSUME NEW s \in Senders, Push(s) PROVE TidyInv'
  <2>1. /\ history' = Trim(Append(history, adding[s])) /\ adding[s] # NoCommand
        /\ adding' = [adding EXCEPT ![s] = NoCommand] /\ UNCHANGED <<file, json>>
    BY <1>6 DEF Push
  <2>2. history \in Histories /\ adding[s] \in Parts /\ adding \in [Senders -> Parts]
    BY DEF Typed
  <2>3. Tidy(history')
    BY <2>1, <2>2, Pushes
  <2>4. \A t \in Senders : adding'[t] = NoCommand
    BY <2>1, <2>2
  <2> QED
    BY <2>1, <2>3, <2>4
<1>7. CASE Save
  BY <1>7, EmptyHistory, RecordFacts, StartTypes DEF Save
<1>8. CASE Gather
  <2>1. Tidy(json'.history)
    BY <1>8, Collected DEF Gather
  <2> QED
    BY <1>8, <2>1 DEF Gather
<1>9. CASE Write
  BY <1>9, RecordFacts DEF Write, Stored
<1>10. CASE Close \/ Crash \/ RegisterThrows \/ RestoreThrows
  BY <1>10, TidyGone, ThrowsAre DEF Close, Crash
<1>11. CASE Delete
  BY <1>11, RecordFacts DEF Delete
<1>12. CASE UNCHANGED persistenceVars
  BY <1>12 DEF persistenceVars
<1> QED
  BY <1>1, <1>2, <1>3, <1>4, <1>5, <1>6, <1>7, <1>8, <1>9, <1>10, <1>11, <1>12
     DEF PersistenceNext

---------------------------------------------------------------------------
(* What a run leaves for the next one *)

LEMMA SurviveInit == PersistenceInit => SettingsSurvive
BY DEF PersistenceInit, SettingsSurvive, GentleFileIsLastSave, PlainRoundTrip, ReadStarts

LEMMA FileIsLastStep ==
  Typed /\ GentleFileIsLastSave /\ [PersistenceNext]_persistenceVars => GentleFileIsLastSave'
<1> SUFFICES ASSUME GentleFileIsLastSave, [PersistenceNext]_persistenceVars,
                    env'.gentle, pc' # "saving"
             PROVE  file' = last'
  BY DEF GentleFileIsLastSave
<1>0. env.gentle
  BY EnvStays
<1> USE <1>0 DEF GentleFileIsLastSave
<1>1. CASE Load \/ Register \/ Restore \/ Change
  BY <1>1 DEF Load, Register, Restore, Change
<1>2. ASSUME NEW s \in Senders, Send(s) \/ Push(s) PROVE file' = last'
  BY <1>2 DEF Send, Push
<1>3. CASE Save \/ Gather
  BY <1>3 DEF Save, Gather
<1>4. CASE Write
  BY <1>4 DEF Write, Stored
<1>5. CASE Close \/ Delete
  BY <1>5 DEF Close, Delete
<1>6. CASE Crash \/ RegisterThrows \/ RestoreThrows
  <2>1. pc # "saving" /\ UNCHANGED <<file, last>>
    BY <1>6, ThrowsAre DEF Crash
  <2> QED
    BY <2>1
<1>7. CASE UNCHANGED persistenceVars
  BY <1>7 DEF persistenceVars
<1> QED
  BY <1>1, <1>2, <1>3, <1>4, <1>5, <1>6, <1>7 DEF PersistenceNext

LEMMA RoundTripStep ==
  Typed /\ BeginInv /\ PlainInv /\ PlainRoundTrip /\ [PersistenceNext]_persistenceVars
      => PlainRoundTrip'
<1> SUFFICES ASSUME Typed, BeginInv, PlainInv, PlainRoundTrip,
                    [PersistenceNext]_persistenceVars,
                    pc' = "up", ~touched', file'.is = "whole"
             PROVE  settings' = file'.settings /\ (env'.plain => history' = file'.history)
  BY DEF PlainRoundTrip
<1>0. env' = env
  BY EnvStays
<1>1. CASE Restore
  <2>1. file' = file /\ json = file /\ file \in Whole
    BY <1>1, RecordFacts DEF Restore, BeginInv, Typed, FilesInv
  <2>2. settings' = file'.settings
    <3>1. \A m \in Module : m \in Restored
      BY <1>1, AllRegistered DEF Restore, Restored
    <3>2. \A m \in Module : Saved(m) = file.settings[m]
      BY <2>1, RecordFacts DEF Saved
    <3>3. settings' = [m \in Module |-> file.settings[m]]
      BY <1>1, <3>1, <3>2 DEF Restore
    <3>4. file.settings \in [Module -> Values]
      BY <2>1, RecordFacts
    <3> QED
      BY <2>1, <3>3, <3>4
  <2>3. ASSUME env.plain PROVE history' = file'.history
    <3>1. PlainText(json.history)
      BY <2>1, <2>3 DEF PlainInv
    <3> QED
      BY <1>1, <2>1, <3>1, RecordFacts, RestoredHistory
  <2> QED
    BY <1>0, <2>2, <2>3
<1>2. ASSUME NEW s \in Senders, Push(s)
      PROVE  settings' = file'.settings /\ (env'.plain => history' = file'.history)
  BY <1>2, StartTypes DEF Push, BeginInv
<1>3. ASSUME NEW s \in Senders, Send(s)
      PROVE  settings' = file'.settings /\ (env'.plain => history' = file'.history)
  BY <1>3 DEF Send
<1>4. CASE Load \/ Register \/ Change
  BY <1>4 DEF Load, Register, Change
<1>5. CASE Save \/ Gather \/ Write \/ Delete
  BY <1>5 DEF Save, Gather, Write, Delete
<1>6. CASE Close \/ Crash \/ RegisterThrows \/ RestoreThrows
  BY <1>6, ThrowsAre DEF Close, Crash, Gone
<1>7. CASE UNCHANGED persistenceVars
  BY <1>7 DEF persistenceVars, PlainRoundTrip
<1> QED
  BY <1>1, <1>2, <1>3, <1>4, <1>5, <1>6, <1>7 DEF PersistenceNext

---------------------------------------------------------------------------
(* What is read back *)

LEMMA ReadInit == PersistenceInit => ReadInv
<1> SUFFICES ASSUME PersistenceInit PROVE ReadInv
  OBVIOUS
<1>1. Readable(Defaults)
  BY PersistenceAssumption DEF Readable, Defaults
<1> QED
  BY <1>1, RecordFacts DEF PersistenceInit, ReadInv

LEMMA ReadStep == Typed /\ ReadInv /\ [PersistenceNext]_persistenceVars => ReadInv'
<1> SUFFICES ASSUME Typed, ReadInv, [PersistenceNext]_persistenceVars, env'.read
             PROVE  ReadInv'
  BY DEF ReadInv
<1>0. env.read
  BY EnvStays
<1>a. Whole' = Whole
  BY DEF Whole
<1>b. Readable(Defaults)
  BY PersistenceAssumption DEF Readable, Defaults
<1> USE <1>0, <1>a DEF ReadInv
<1>1. CASE Load
  BY <1>1, <1>b, RecordFacts DEF Load
<1>2. CASE Register \/ Restore
  <2>1. \A m \in Module : settings'[m] \in {settings[m], Saved(m)}
    BY <1>2 DEF Register, Restore, Typed
  <2>2. \A m \in Module : <<m, Saved(m)>> \notin Unreadable
    BY DEF Saved, Readable, Typed, FilesInv
  <2>3. Readable(settings')
    BY <2>1, <2>2 DEF Readable
  <2>4. file' = file /\ json' \in {json, Absent}
    BY <1>2 DEF Register, Restore, clearFile
  <2> QED
    BY <2>3, <2>4, RecordFacts
<1>3. CASE Change
  <2>1. PICK n \in Module, v \in Values :
            <<n, v>> \notin Unreadable /\ settings' = [settings EXCEPT ![n] = v]
    BY <1>3 DEF Change
  <2>2. Readable(settings')
    BY <2>1 DEF Readable, Typed
  <2> QED
    BY <1>3, <2>2 DEF Change
<1>4. ASSUME NEW s \in Senders, Send(s) \/ Push(s) PROVE ReadInv'
  BY <1>4 DEF Send, Push
<1>5. CASE Save
  BY <1>5, <1>b, RecordFacts, StartTypes DEF Save
<1>6. CASE Gather
  <2>1. json \in Whole /\ Readable(json.settings) /\ json.settings \in [Module -> Values]
    BY <1>6, RecordFacts DEF Gather, Typed, FilesInv
  <2>2. \A m \in Module : json'.settings[m] \in {json.settings[m], settings[m]}
    <3>1. CASE Listeners[at'] = "MAIN_APPLICATION"
      BY <1>6, <2>1, <3>1 DEF Gather, Whole
    <3>2. CASE Listeners[at'] # "MAIN_APPLICATION"
      <4>1. at' \in 1 .. Len(Listeners)
        BY <1>6, StartTypes DEF Gather, Typed
      <4>2. Listeners[at'] \in Module
        BY <3>2, <4>1, StartTypes
      <4>3. json' = [json EXCEPT !.settings[Listeners[at']] = settings[Listeners[at']]]
        BY <1>6, <3>2 DEF Gather
      <4> QED
        BY <2>1, <4>2, <4>3 DEF Whole
    <3> QED
      BY <3>1, <3>2
  <2>3. Readable(json'.settings)
    BY <2>1, <2>2 DEF Readable
  <2> QED
    BY <1>6, <2>3 DEF Gather
<1>7. CASE Write
  BY <1>7, RecordFacts DEF Write, Stored
<1>8. CASE Close \/ Crash \/ RegisterThrows \/ RestoreThrows
  <2>1. Gone /\ file' = file
    BY <1>8, ThrowsAre DEF Close, Crash
  <2> QED
    BY <1>b, <2>1, RecordFacts DEF Gone
<1>9. CASE Delete
  BY <1>9, RecordFacts DEF Delete
<1>10. CASE UNCHANGED persistenceVars
  BY <1>10 DEF persistenceVars
<1> QED
  BY <1>1, <1>2, <1>3, <1>4, <1>5, <1>6, <1>7, <1>8, <1>9, <1>10 DEF PersistenceNext

\* What a module throws at is in the file.
LEMMA ThrowsAtFile ==
  ASSUME Typed, BeginInv, RegisterThrows \/ RestoreThrows
  PROVE  file \in Whole /\ ~Readable(file.settings) /\ Broken(file)
<1>1. PICK m \in Module : ~Reads(m)
  BY ThrowsAre
<1>2. json = file
  BY ThrowsAre DEF BeginInv
<1>3. file \in Whole /\ <<m, file.settings[m]>> \in Unreadable
  BY <1>1, <1>2 DEF Reads, Typed, FilesInv
<1> QED
  BY <1>3, RecordFacts DEF Readable, Broken

LEMMA StartsStep ==
  Typed /\ BeginInv /\ ReadInv /\ GentleFileIsLastSave /\ ReadStarts
    /\ [PersistenceNext]_persistenceVars
      => ReadStarts'
<1> SUFFICES ASSUME Typed, BeginInv, ReadInv, GentleFileIsLastSave, ReadStarts,
                    [PersistenceNext]_persistenceVars
             PROVE  ReadStarts'
  OBVIOUS
<1>0. env' = env
  BY EnvStays
<1> USE <1>0 DEF ReadStarts
<1>1. CASE Load
  <2>1. env.gentle => file # Cut
    BY <1>1, RecordFacts DEF Load, GentleFileIsLastSave, Typed, FilesInv
  <2>2. file' = file /\ pc' \in {"off", "registering"} /\ failed' = (failed \/ file = Cut)
    BY <1>1 DEF Load
  <2> QED
    BY <2>1, <2>2 DEF Broken
<1>2. CASE Register
  BY <1>2 DEF Register, Broken
<1>3. CASE Restore
  <2>1. json = file /\ file \in {Absent} \union Whole /\ failed' = failed /\ file' = file
    BY <1>3 DEF Restore, BeginInv, Typed, FilesInv
  <2>2. \A m \in Module : Reads(m)
    BY <1>3, AllRegistered DEF Restore, Restored
  <2>3. ~Broken(file)
    BY <2>1, <2>2, RecordFacts DEF Broken, Reads
  <2> QED
    BY <2>1, <2>3
<1>4. CASE RegisterThrows \/ RestoreThrows
  <2>1. Broken(file) /\ (env.read => FALSE)
    BY <1>4, ThrowsAtFile DEF ReadInv
  <2>2. file' = file /\ pc' = "off"
    BY <1>4, ThrowsAre DEF Gone
  <2> QED
    BY <2>1, <2>2 DEF Broken
<1>5. CASE Change \/ Save
  BY <1>5 DEF Change, Save
<1>6. ASSUME NEW s \in Senders, Send(s) PROVE ReadStarts'
  BY <1>6 DEF Send, MaySend
<1>7. ASSUME NEW s \in Senders, Push(s) PROVE ReadStarts'
  BY <1>7 DEF Push
<1>8. CASE Gather \/ Write \/ Close
  BY <1>8 DEF Gather, Write, Close
<1>9. CASE Crash
  BY <1>9 DEF Crash, Gone, Broken
<1>10. CASE Delete
  BY <1>10 DEF Delete
<1>11. CASE UNCHANGED persistenceVars
  BY <1>11 DEF persistenceVars, Broken
<1> QED
  BY <1>1, <1>2, <1>3, <1>4, <1>5, <1>6, <1>7, <1>8, <1>9, <1>10, <1>11 DEF PersistenceNext

---------------------------------------------------------------------------
LEMMA PersistenceHolds == PersistenceSpec => []PersistenceInv
<1>1. PersistenceInit => PersistenceInv
  BY TypesInit, TypesAre, BeginInit, PlainInit, TidyInit, ReadInit, SurviveInit DEF PersistenceInv
<1>2. PersistenceInv /\ [PersistenceNext]_persistenceVars => PersistenceInv'
  <2> SUFFICES ASSUME PersistenceInv, [PersistenceNext]_persistenceVars PROVE PersistenceInv'
    OBVIOUS
  <2>1. Typed /\ BeginInv /\ PlainInv /\ TidyInv /\ ReadInv
    BY TypesAre DEF PersistenceInv
  <2>2. GentleFileIsLastSave /\ PlainRoundTrip /\ ReadStarts
    BY DEF PersistenceInv, SettingsSurvive
  <2>3. Typed'
    BY <2>1, TypesStep
  <2>4. PersistenceTypes' /\ FilesInv'
    BY <2>3, TypesAre, PTL
  <2>5. BeginInv' /\ PlainInv' /\ TidyInv' /\ ReadInv'
    BY <2>1, BeginStep, PlainStep, TidyStep, ReadStep
  <2>6. SettingsSurvive'
    BY <2>1, <2>2, FileIsLastStep, RoundTripStep, StartsStep DEF SettingsSurvive
  <2> QED
    BY <2>4, <2>5, <2>6 DEF PersistenceInv
<1> QED
  BY <1>1, <1>2, PTL DEF PersistenceSpec

\* Types: a save in progress has a file that is cut, and g_jsonFile is empty but
\* for the start and a save (Persistence.cpp).
THEOREM PersistenceIsTyped == PersistenceSpec => []PersistenceTypes
BY PersistenceHolds, PTL DEF PersistenceInv

\* Whatever the modules, their values and the commands: a run that comes up does
\* so with what the file holds; unless the application dies while it saves, the
\* file is what the last save() collected; and if moreover the user enters
\* nothing that a module throws at when it reads it (TraceFilter.cpp,
\* SettingsHandler.cpp), every start succeeds.  After one that does not, none
\* does until the file is deleted.
THEOREM SettingsDoSurvive == PersistenceSpec => []SettingsSurvive
BY PersistenceHolds, PTL DEF PersistenceInv

\* addToCommandHistory() leaves no duplicates and keeps the limit, if those who
\* send do not overlap and no command has a colon.
THEOREM HistoryStaysPlain == PersistenceSpec => []PlainHistory
<1>1. PersistenceInv => PlainHistory
  BY DEF PersistenceInv, TidyInv, Tidy, PlainHistory
<1> QED
  BY <1>1, PersistenceHolds, PTL
=============================================================================
