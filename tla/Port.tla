-------------------------------- MODULE Port --------------------------------
(***************************************************************************)
(* One port of the application (src/sw/MainApplication/source/Port.cpp):   *)
(* the GUI thread that handles clicks and settings, the timers thread that *)
(* retries and reports throughput, and the driver's thread that reports a  *)
(* lost endpoint, all three working on m_buttonState, m_proxy, the two     *)
(* timers and the widgets without a lock of the port's own.                *)
(*                                                                         *)
(* todo[t] is the rest of the handler thread t is in, as a sequence of     *)
(* steps; every step is one access to state another thread can touch.      *)
(* The timers thread holds TimersImpl::m_timers_mutex during a callback,   *)
(* that is, as long as todo["timers"] is not empty.                        *)
(* A signal emitted by the GUI thread runs its slot at once, one emitted   *)
(* by another thread is posted and runs when the GUI thread is free.       *)
(***************************************************************************)
EXTENDS Integers, Sequences

CONSTANTS
    Types,      \* the port types considered
    MaxPosted,  \* bound: no handler starts with more than this posted
    MaxEntries, \* bound: further entries in the combo box are not counted
    Envs        \* the environments considered, see Env

\* What is assumed of the environment, each kind on top of the one before:
\*   prompt  neither the 5 s retry period nor a 500 ms wait for the driver
\*           runs out while somebody still makes progress,
\*   stable  a lost endpoint is reported while nothing else runs and no
\*           settings dialog is open,
\*   calm    a handler runs alone, with nothing posted when it begins.
Env == {{}, {"prompt"}, {"prompt", "stable"}, {"prompt", "stable", "calm"}}

ASSUME ConstantsAssumption ==
    /\ Types \subseteq {"SERIAL", "ETHERNET", "COMMAND"}
    /\ {MaxPosted, MaxEntries} \subseteq Nat
    /\ Envs \subseteq Env

VARIABLES
    env,      \* the environment of this behaviour, never changed
    has,      \* what the destructor takes down, see Parts
    type,     \* m_settings.type
    button,   \* std::atomic<ButtonState> m_buttonState
    drv,      \* the driver behind m_proxy, see DriverStates
    retry,    \* is_running of m_timerId
    meter,    \* is_running of m_throughputCalculatorTimerID
    ui,       \* widgets: button colour, entries in the combo box, throughput
    posted,   \* signals waiting for the GUI thread
    todo      \* per thread: the rest of its handler

vars == <<env, has, type, button, drv, retry, meter, ui, posted, todo>>
others == <<env, has, type, button, drv, ui, posted>>

Threads == {"gui", "timers", "driver"}
ButtonStates == {"DISCONNECTED", "CONNECTING", "CONNECTED"}
Signals == {"opened", "closed", "rate", "norate"}
Steps == ButtonStates \union Signals \union
    {"clickedStopped", "stop", "awaitOff", "start", "awaitStart", "arm", "disarm",
     "startMeter", "paint", "dialog", "replace", "leave",
     "dropListeners", "dropRetry", "dropMeter", "dropProxy"}

\* What SocketClient and SerialDriver show of themselves: "closing" is
\* DISCONNECTING, "doomed" is a connect request made while the worker is still
\* tearing the last connection down (it ends in IDLE and reports success).
DriverStates == {"off", "on", "closing", "doomed"}

\* The registered listeners, the two timers and m_proxy.
Parts == {"listeners", "retry", "meter", "proxy"}

Idle(t) == todo[t] = <<>>
At(t, s) == todo[t] # <<>> /\ Head(todo[t]) = s
InDialog == At("gui", "dialog")
Quiet == posted = <<>> /\ \A t \in Threads : Idle(t)

isStarted == drv \in {"on", "doomed"}

isOpened == button # "DISCONNECTED"

---------------------------------------------------------------------------
(* The handlers, as sequences of steps.  A definition Slip... is what a     *)
(* small mistake would turn the one after it into; nothing else uses it.   *)

SlipSignalFor(e) == IF e = "DISCONNECTED" THEN "closed" ELSE "opened"

\* MainApplication::onPortEvent() enters or removes the port in the combo box.
SignalFor(e) == IF e = "CONNECTED" THEN "opened" ELSE "closed"

\* setState(s); a state stands for the step that assigns it to m_buttonState.
SetState(s) == <<s, "paint">>

\* setState(s) and notifyListeners(s)
Become(s) == SetState(s) \o <<SignalFor(s)>>

tryConnect == <<"stop", "awaitOff", "start">>

SlipConnected == <<"disarm">> \o Become("CONNECTED")

\* The rest of tryConnect() when the driver started.
Connected == <<"disarm">> \o Become("CONNECTED") \o <<"startMeter">>

SlipSchedule == Become("CONNECTING")

scheduleConnectionTrial == <<"arm">> \o Become("CONNECTING")

SlipRefused(t) ==
    IF t = "gui" /\ type = "ETHERNET" THEN scheduleConnectionTrial ELSE <<>>

\* The rest of the handler when tryConnect() returned false in thread t;
\* SERIAL shows an error popup.
Refused(t) ==
    IF t = "timers" \/ type = "ETHERNET" THEN scheduleConnectionTrial ELSE <<>>

closePort == <<"stop", "awaitOff">> \o Become("DISCONNECTED")

SlipAbortTrials == Become("DISCONNECTED")

abortTrials == <<"disarm">> \o Become("DISCONNECTED")

onEndpointDisconnected ==
    Become("CONNECTING") \o scheduleConnectionTrial \o <<"leave">>

SlipNextWindow == IF isOpened THEN <<"startMeter", "rate">> ELSE <<>>

\* onTimeout() of the throughput timer: it goes on while the port is opened.
NextWindow == IF isOpened THEN <<"startMeter", "rate">> ELSE <<"norate">>

SlipDestroy ==
    <<"dropListeners", "dropProxy", "dropRetry", "dropMeter">> \o SetState("DISCONNECTED")

\* ~Port()
Destroy ==
    <<"dropListeners", "dropRetry", "dropMeter", "dropProxy">> \o SetState("DISCONNECTED")

---------------------------------------------------------------------------
Init ==
    /\ env \in Envs
    /\ has = Parts
    /\ type \in Types
    /\ button = "DISCONNECTED"
    /\ drv = "off"
    /\ retry = FALSE
    /\ meter = FALSE
    /\ ui = [colour |-> "DISCONNECTED", combo |-> 0, rate |-> FALSE]
    /\ posted = <<>>
    /\ todo = [t \in Threads |-> <<>>]

(* Handlers begin *)

MayBegin(t) ==
    /\ Idle(t)
    /\ Len(posted) <= MaxPosted
    /\ "stable" \in env => Idle("driver")
    /\ "calm" \in env =>
        /\ \A u \in Threads : Idle(u) \/ (u = "gui" /\ InDialog)
        /\ posted = <<>>

Begin(t, steps) == todo' = [todo EXCEPT ![t] = steps]

\* onPortButtonClicked()
Click ==
    /\ MayBegin("gui") /\ has = Parts
    /\ Begin("gui", IF isStarted THEN closePort ELSE <<"clickedStopped">>)
    /\ UNCHANGED <<others, retry, meter>>

SlipMayEdit == TRUE

\* The dialog of the context menu can be accepted, and setSettings() acts,
\* only if the port was closed when it was opened.
MayEdit == button = "DISCONNECTED"

OpenSettings ==
    /\ MayBegin("gui") /\ has = Parts
    /\ MayEdit
    /\ Begin("gui", <<"dialog", "replace">>)
    /\ UNCHANGED <<others, retry, meter>>

\* The application is closed, and the GUI thread destroys the port.
CloseApplication ==
    /\ MayBegin("gui") /\ has = Parts
    /\ Begin("gui", Destroy)
    /\ UNCHANGED <<others, retry, meter>>

\* TimersImpl::execute() finds the retry timer expired.
RetryExpires ==
    /\ retry
    /\ MayBegin("timers")
    /\ "prompt" \in env => Idle("driver")
    /\ retry' = FALSE
    /\ Begin("timers", tryConnect)
    /\ UNCHANGED <<others, meter>>

MeterExpires ==
    /\ meter
    /\ MayBegin("timers")
    /\ meter' = FALSE
    /\ Begin("timers", NextWindow)
    /\ UNCHANGED <<others, retry>>

\* The remote end goes away; the driver's thread reports it.
EndpointLost ==
    /\ drv \in {"on", "closing"}
    /\ MayBegin("driver")
    /\ "stable" \in env => Idle("gui") /\ Idle("timers")
    /\ Begin("driver", onEndpointDisconnected)
    /\ UNCHANGED <<others, retry, meter>>

\* The driver's thread notices a request made while it is in no callback.
DriverNotices ==
    /\ drv \in {"closing", "doomed"}
    /\ Idle("driver")
    /\ drv' = "off"
    /\ UNCHANGED <<env, has, type, button, retry, meter, ui, posted, todo>>

---------------------------------------------------------------------------
(* Steps.  Then(t, more): thread t does more, and then what was left. *)

Then(t, more) == todo' = [todo EXCEPT ![t] = more \o Tail(@)]

\* Only the thread that is in a timer callback passes m_timers_mutex then.
TimersFree(t) == t = "timers" \/ Idle("timers")

SlipRemoved(entries) == entries - 1

\* removeItem(), if findText() finds an entry.
Removed(entries) == IF entries = 0 THEN 0 ELSE entries - 1

\* addItem(), as far as entries are counted.
Added(entries) == IF entries < MaxEntries THEN entries + 1 ELSE entries

\* What a signal does to the widgets.
Shown(m) ==
    [colour |-> IF m \in ButtonStates THEN m ELSE ui.colour,
     combo  |-> IF m = "opened" THEN Added(ui.combo)
                ELSE IF m = "closed" THEN Removed(ui.combo) ELSE ui.combo,
     rate   |-> IF m \in {"rate", "norate"} THEN m = "rate" ELSE ui.rate]

Emit(t, m) ==
    IF t = "gui" THEN ui' = Shown(m) /\ UNCHANGED posted
                 ELSE posted' = Append(posted, m) /\ UNCHANGED ui

\* m_buttonState, read after isStarted() was false.
ClickedStopped(t) ==
    /\ At(t, "clickedStopped")
    /\ Then(t, IF button = "CONNECTING" THEN abortTrials ELSE tryConnect)
    /\ UNCHANGED <<others, retry, meter>>

\* m_proxy->stop() asks the driver's thread to stop, if it is started...
Stop(t) ==
    /\ At(t, "stop")
    /\ drv' = IF isStarted THEN "closing" ELSE drv
    /\ todo' = [todo EXCEPT ![t] = IF isStarted THEN Tail(@) ELSE Tail(Tail(@))]
    /\ UNCHANGED <<env, has, type, button, retry, meter, ui, posted>>

\* A wait for the driver may time out; in a prompt environment only if the
\* driver's thread in turn waits for the timers mutex that t holds, or if
\* another thread has connected again meanwhile.
GivesUp(t) ==
    \/ "prompt" \notin env
    \/ t = "timers" /\ At("driver", "arm")
    \/ drv = "on" /\ Idle("driver")

\* ... and waits up to 500 ms for it.
AwaitOff(t) ==
    /\ At(t, "awaitOff")
    /\ drv = "off" \/ GivesUp(t)
    /\ Then(t, <<>>)
    /\ UNCHANGED <<others, retry, meter>>

\* m_proxy->start(), refused by a driver that is started.
Start(t) ==
    /\ At(t, "start")
    /\ \/ drv = "off" /\ drv' = "on" /\ Then(t, Connected)
       \/ drv = "closing" /\ drv' = "doomed" /\ Then(t, <<"awaitStart">>)
       \/ Then(t, Refused(t)) /\ UNCHANGED drv
    /\ UNCHANGED <<env, has, type, button, retry, meter, ui, posted>>

AwaitStart(t) ==
    /\ At(t, "awaitStart")
    /\ \/ drv # "doomed" /\ Then(t, Connected)
       \/ drv = "doomed" /\ GivesUp(t) /\ Then(t, Refused(t))
    /\ UNCHANGED <<others, retry, meter>>

\* setTimeout(m_timerId) and startTimer(m_timerId): a removed timer is not
\* found.
Arm(t) ==
    /\ At(t, "arm")
    /\ TimersFree(t)
    /\ retry' = ("retry" \in has)
    /\ Then(t, <<>>)
    /\ UNCHANGED <<others, meter>>

\* stopTimer(m_timerId)
Disarm(t) ==
    /\ At(t, "disarm")
    /\ TimersFree(t)
    /\ retry' = FALSE
    /\ Then(t, <<>>)
    /\ UNCHANGED <<others, meter>>

\* startTimer(m_throughputCalculatorTimerID)
StartMeter(t) ==
    /\ At(t, "startMeter")
    /\ TimersFree(t)
    /\ meter' = ("meter" \in has)
    /\ Then(t, <<>>)
    /\ UNCHANGED <<others, retry>>

\* setState() assigns...
Set(t) ==
    \E s \in ButtonStates :
        /\ At(t, s)
        /\ button' = s
        /\ Then(t, <<>>)
        /\ UNCHANGED <<env, has, type, drv, retry, meter, ui, posted>>

\* ... and colours the button from m_buttonState, read again.
Paint(t) ==
    /\ At(t, "paint")
    /\ Emit(t, button)
    /\ Then(t, <<>>)
    /\ UNCHANGED <<env, has, type, button, drv, retry, meter>>

\* A signal of notifyListeners() or of setThroughputText().
Signal(t) ==
    \E m \in Signals :
        /\ At(t, m)
        /\ IF m \in {"opened", "closed"} /\ "listeners" \notin has
           THEN UNCHANGED <<ui, posted>> ELSE Emit(t, m)
        /\ Then(t, <<>>)
        /\ UNCHANGED <<env, has, type, button, drv, retry, meter>>

\* The dialog is cancelled or accepted.
CloseDialog(t) ==
    /\ At(t, "dialog")
    /\ \E accepted \in BOOLEAN :
        todo' = [todo EXCEPT ![t] = IF accepted THEN Tail(@) ELSE <<>>]
    /\ UNCHANGED <<others, retry, meter>>

\* handleNewSettings(): a new m_proxy; destroying the old one joins its
\* thread.  The state to set again is read here.
ReplaceProxy(t) ==
    /\ At(t, "replace")
    /\ Idle("driver")
    /\ type' \in Types
    /\ drv' = "off"
    /\ Then(t, SetState(button))
    /\ UNCHANGED <<env, has, button, retry, meter, ui, posted>>

\* The destructor removes its listeners, a timer, waiting for the callback in
\* progress...
DropListeners(t) ==
    /\ At(t, "dropListeners")
    /\ has' = has \ {"listeners"}
    /\ Then(t, <<>>)
    /\ UNCHANGED <<env, type, button, drv, retry, meter, ui, posted>>

DropRetry(t) ==
    /\ At(t, "dropRetry")
    /\ TimersFree(t)
    /\ has' = has \ {"retry"}
    /\ retry' = FALSE
    /\ Then(t, <<>>)
    /\ UNCHANGED <<env, type, button, drv, meter, ui, posted>>

DropMeter(t) ==
    /\ At(t, "dropMeter")
    /\ TimersFree(t)
    /\ has' = has \ {"meter"}
    /\ meter' = FALSE
    /\ Then(t, <<>>)
    /\ UNCHANGED <<env, type, button, drv, retry, ui, posted>>

\* ... and the driver, joining its thread.
DropProxy(t) ==
    /\ At(t, "dropProxy")
    /\ Idle("driver")
    /\ has' = has \ {"proxy"}
    /\ drv' = "off"
    /\ Then(t, <<>>)
    /\ UNCHANGED <<env, type, button, retry, meter, ui, posted>>

\* The driver's thread is back from its callback, and goes IDLE.
Leave(t) ==
    /\ At(t, "leave")
    /\ drv' = "off"
    /\ Then(t, <<>>)
    /\ UNCHANGED <<env, has, type, button, retry, meter, ui, posted>>

Step(t) ==
    \/ ClickedStopped(t) \/ Stop(t) \/ AwaitOff(t) \/ Start(t) \/ AwaitStart(t)
    \/ Arm(t) \/ Disarm(t) \/ StartMeter(t) \/ Set(t) \/ Paint(t) \/ Signal(t)
    \/ CloseDialog(t) \/ ReplaceProxy(t) \/ Leave(t)
    \/ DropListeners(t) \/ DropRetry(t) \/ DropMeter(t) \/ DropProxy(t)

\* The GUI thread's event loop, the dialog's nested one included.
RunSlot ==
    /\ posted # <<>>
    /\ Idle("gui") \/ InDialog
    /\ ui' = Shown(Head(posted))
    /\ posted' = Tail(posted)
    /\ UNCHANGED <<env, has, type, button, drv, retry, meter, todo>>

\* The port is gone; the application goes on to close.
Gone == has = {} /\ Quiet /\ UNCHANGED vars

Next ==
    \/ Click \/ OpenSettings \/ CloseApplication \/ Gone \/ RetryExpires \/ MeterExpires
    \/ EndpointLost \/ DriverNotices \/ RunSlot
    \/ \E t \in Threads : Step(t)

Spec == Init /\ [][Next]_vars

\* Waits that end even if what ends them is there only from time to time: a
\* timeout is certain, and the timers thread sleeps between two scans.
Wait(t) == AwaitOff(t) \/ AwaitStart(t) \/ Arm(t) \/ Disarm(t) \/ StartMeter(t)

\* Threads run, the event loop goes round, and a scan serves every timer that
\* expired.  The user need not click, the endpoint need not fail, a start need
\* not succeed.
Fairness ==
    /\ WF_vars(RunSlot) /\ WF_vars(DriverNotices)
    /\ SF_vars(RetryExpires) /\ SF_vars(MeterExpires)
    /\ \A t \in Threads : WF_vars(Step(t)) /\ SF_vars(Wait(t))

FairSpec == Spec /\ Fairness

---------------------------------------------------------------------------
(* Properties *)

\* Types; also that a port is never removed from an empty combo box.
TypeOK ==
    /\ env \in Env
    /\ has \subseteq Parts
    /\ type \in Types
    /\ button \in ButtonStates
    /\ drv \in DriverStates
    /\ retry \in BOOLEAN
    /\ meter \in BOOLEAN
    /\ ui \in [colour : ButtonStates, combo : Nat, rate : BOOLEAN]
    /\ posted \in Seq(ButtonStates \union Signals)
    /\ todo \in [Threads -> Seq(Steps)]

\* In every environment: once a port is connected and nothing is in progress,
\* its throughput is being measured, however a click, a retry and the end of a
\* measuring window interleave.
MeterRuns == Quiet /\ button = "CONNECTED" => meter

\* In every environment: when measuring has stopped no rate is left on screen.
RateCleared == Quiet /\ has = Parts /\ ~meter => ~ui.rate

\* Both: the throughput on screen is that of a port that is open.
ThroughputTrue == MeterRuns /\ RateCleared

\* Auto-reconnection (Port.h): a port that shows CONNECTING with nothing in
\* progress and no connection has its retry timer running.
TrialPending ==
    Quiet /\ button = "CONNECTING" /\ ~isStarted => retry

\* It holds as long as an endpoint is not lost in the middle of a handler.
StableTrialPending == "stable" \in env => TrialPending

\* The user closed the port or aborted the trials: no trial is pending that
\* would open it again, whatever retry was under way at the click.
StableAbortIsFinal == "stable" \in env /\ Quiet /\ ~isOpened => ~retry

\* In every environment: once m_proxy is destroyed no other thread is in a
\* handler of the port, and nothing is left that would start one.
GoneForGood ==
    "proxy" \notin has =>
        drv = "off" /\ Idle("driver") /\ Idle("timers") /\ ~retry /\ ~meter

\* All three: the retry timer runs exactly as long as the user wants it to, and
\* no handler outlives the port.
StableRetries == StableTrialPending /\ StableAbortIsFinal /\ GoneForGood

\* Handlers that do not overlap leave the state and the driver agreeing: open
\* exactly when CONNECTED, and trying exactly when CONNECTING; and the widgets
\* too: the colour is that of the state, and the combo box holds the port once
\* if it is connected and otherwise not at all.
CalmAgrees ==
    "calm" \in env /\ Quiet /\ has = Parts =>
        /\ button = "CONNECTED" <=> drv = "on"
        /\ button = "CONNECTING" <=> retry
        /\ ui.colour = button
        /\ ui.combo = IF button = "CONNECTED" THEN 1 ELSE 0

UsesProxy(t) ==
    \E s \in {"stop", "awaitOff", "start", "awaitStart"} : At(t, s)

\* handleNewSettings() destroys m_proxy: never one that is started, and never
\* under a retry that is using it, though a dialog may stay open for long.
CalmReplacesIdleProxy ==
    [][\A t \in Threads : "calm" \in env /\ ReplaceProxy(t)
            => drv = "off" /\ ~UsesProxy("timers")]_vars

\* No handler waits for ever: neither a click, nor a timer callback that holds
\* the timers mutex while it waits for a driver thread that wants that mutex.
HandlersReturn ==
    \A t \in Threads : (~Idle(t) /\ ~InDialog) ~> (Idle(t) \/ InDialog)

\* A port left CONNECTING is tried again, and again.
TrialsGoOn ==
    ("stable" \in env /\ button = "CONNECTING")
        ~> (At("timers", "start") \/ button # "CONNECTING" \/ isStarted)

\* Both: a port neither hangs nor forgets its endpoint.
PortGoesOn == HandlersReturn /\ TrialsGoOn
=============================================================================
