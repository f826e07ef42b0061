----------------------------- MODULE PortRests -----------------------------
(***************************************************************************)
(* What is left of the handlers of Port at each of their steps, and the    *)
(* invariants of Port told by it: what every environment keeps, what a     *)
(* stable one keeps of the retry timer, and what a calm one keeps of the   *)
(* state, the driver and the widgets.                                      *)
(***************************************************************************)
EXTENDS Port

---------------------------------------------------------------------------
(* The rests, each named for its first step; a whole handler keeps the name  *)
(* it has in Port.                                                           *)

CloseWaits == <<"awaitOff", "DISCONNECTED", "paint", "closed">>
Disconnects == <<"DISCONNECTED", "paint", "closed">>
ShowsClosed == <<"paint", "closed">>
SaysClosed == <<"closed">>
TryWaits == <<"awaitOff", "start">>
TryStarts == <<"start">>
StartWaits == <<"awaitStart">>
Connects == <<"CONNECTED", "paint", "opened", "startMeter">>
ShowsOpened == <<"paint", "opened", "startMeter">>
SaysOpened == <<"opened", "startMeter">>
Measures == <<"startMeter">>
Schedules == <<"CONNECTING", "paint", "closed">>
Clicked == <<"clickedStopped">>
Settings == <<"dialog", "replace">>
Replaces == <<"replace">>
Paints == <<"paint">>
DropsRetry == <<"dropRetry", "dropMeter", "dropProxy", "DISCONNECTED", "paint">>
DropsMeter == <<"dropMeter", "dropProxy", "DISCONNECTED", "paint">>
DropsProxy == <<"dropProxy", "DISCONNECTED", "paint">>
Window == <<"startMeter", "rate">>
Rates == <<"rate">>
NoRates == <<"norate">>
Lost7 == <<"paint", "closed", "arm", "CONNECTING", "paint", "closed", "leave">>
Lost6 == <<"closed", "arm", "CONNECTING", "paint", "closed", "leave">>
Lost5 == <<"arm", "CONNECTING", "paint", "closed", "leave">>
Lost4 == <<"CONNECTING", "paint", "closed", "leave">>
Lost3 == <<"paint", "closed", "leave">>
Lost2 == <<"closed", "leave">>
Lost1 == <<"leave">>

Done == <<>>

\* Where each thread can be.
GuiRests ==
    {Done, closePort, CloseWaits, abortTrials, Disconnects, ShowsClosed, SaysClosed,
     tryConnect, TryWaits, TryStarts, StartWaits, Connected, Connects, ShowsOpened,
     SaysOpened, Measures, scheduleConnectionTrial, Schedules, Clicked, Settings,
     Replaces, SetState("DISCONNECTED"), SetState("CONNECTING"), SetState("CONNECTED"),
     Paints, Destroy, DropsRetry, DropsMeter, DropsProxy}
TimersRests ==
    {Done, tryConnect, TryWaits, TryStarts, StartWaits, Connected, Connects, ShowsOpened,
     SaysOpened, Measures, scheduleConnectionTrial, Schedules, ShowsClosed, SaysClosed,
     Window, Rates, NoRates}
DriverRests ==
    {Done, onEndpointDisconnected, Lost7, Lost6, Lost5, Lost4, Lost3, Lost2, Lost1}

Gui == todo["gui"]
Tim == todo["timers"]
Drv == todo["driver"]

\* No thread is ever anywhere else.
Shape == Gui \in GuiRests /\ Tim \in TimersRests /\ Drv \in DriverRests

\* One thread moves on.
GuiMoves(a, b) == Gui = a /\ Gui' = b /\ Tim' = Tim /\ Drv' = Drv
TimMoves(a, b) == Tim = a /\ Tim' = b /\ Gui' = Gui /\ Drv' = Drv
DrvMoves(a, b) == Drv = a /\ Drv' = b /\ Gui' = Gui /\ Tim' = Tim
NoMove == Gui' = Gui /\ Tim' = Tim /\ Drv' = Drv

---------------------------------------------------------------------------
(* Every environment: the destructor, the meter and the rate on screen. *)

\* What MayBegin leaves open, in these terms.
MayStart ==
    /\ "stable" \in env => Drv = Done
    /\ "calm" \in env =>
        Tim = Done /\ Drv = Done /\ Gui \in {Done, Settings} /\ posted = <<>>

\* What is left of Parts as the destructor goes on.
Unheard == {"retry", "meter", "proxy"}
Untried == {"meter", "proxy"}
Unmetered == {"proxy"}
Nothing == {}

\* The timers thread ends a measuring window.
Measuring == {Window, Rates, NoRates}

\* What ~Port() has left, by where the GUI thread is in it, and that nothing
\* works for the port with what is gone.
Teardown ==
    /\ \/ has = Parts /\ Gui \notin {DropsRetry, DropsMeter, DropsProxy}
       \/ has = Unheard /\ Gui = DropsRetry
       \/ has = Untried /\ Gui = DropsMeter
       \/ has = Unmetered /\ Gui = DropsProxy
       \/ has = Nothing /\ Gui \in {SetState("DISCONNECTED"), Paints, Done}
    /\ "retry" \notin has => ~retry /\ Tim \in Measuring \union {Done}
    /\ "meter" \notin has => ~meter /\ Tim = Done
    /\ "proxy" \notin has => drv = "off" /\ Drv = Done
    /\ has = Nothing /\ Gui # SetState("DISCONNECTED") => button = "DISCONNECTED"

\* A connected port is metered, or somebody is about to start the meter.
Metered ==
    /\ "meter" \in has /\ (button = "CONNECTED" \/ Gui = SetState("CONNECTED")) =>
        \/ meter
        \/ Gui \in {ShowsOpened, SaysOpened, Measures}
        \/ Tim \in {ShowsOpened, SaysOpened, Measures, Window}
    /\ Gui = SetState("CONNECTED") => button # "DISCONNECTED"

\* m is posted to the GUI thread.
Waits(m) == \E i \in 1 .. Len(posted) : posted[i] = m

\* A rate shown or posted has a later "norate" behind it.
RateLeaves ==
    /\ ui.rate => Waits("norate")
    /\ \A i \in 1 .. Len(posted) : posted[i] = "rate" =>
          \E j \in 1 .. Len(posted) : i < j /\ posted[j] = "norate"

\* The timers thread shows a rate only with the meter started again, and a
\* meter that stopped has posted that there is no rate.
Cleared ==
    "meter" \in has =>
        /\ Tim = Rates => meter
        /\ ~meter /\ Tim \notin {Window, NoRates} => RateLeaves

---------------------------------------------------------------------------
(* A stable environment: who may have the retry timer running. *)

Trying == {tryConnect, TryStarts, scheduleConnectionTrial}

\* The retry timer runs, or its callback is before the trial's outcome.
TrialOn == retry \/ Tim \in Trying

\* While a trial is on, the driver is off, the port is CONNECTING and the GUI
\* thread is not connecting, editing or replacing; a port that is CONNECTING
\* has a trial on, is connected, or is being closed; and a lost endpoint is
\* handled alone.
Trials ==
    "stable" \in env =>
        /\ drv # "doomed"
        /\ drv = "closing" => Gui \in {CloseWaits, TryWaits}
        /\ Tim \notin {TryWaits, StartWaits}
        /\ Gui # SetState("CONNECTING")
        /\ TrialOn /\ Drv = Done =>
            /\ drv = "off"
            /\ Gui \in {Done, Schedules, Clicked, ShowsClosed, SaysClosed, abortTrials,
                        Destroy, DropsRetry}
            /\ button = "CONNECTING" \/ Gui = Schedules
        /\ Tim \in {Schedules, ShowsClosed, SaysClosed} => retry
        /\ Tim \in Trying \union {Connected, Connects} => ~retry
        /\ button = "CONNECTING" /\ Drv = Done =>
              TrialOn \/ drv = "on" \/
              Gui \in {CloseWaits, Disconnects, DropsMeter, DropsProxy,
                       SetState("DISCONNECTED")}
        /\ Gui = Schedules => TrialOn \/ drv = "on"
        /\ \/ Gui \in {tryConnect, TryWaits, TryStarts, scheduleConnectionTrial, Connected,
                       Connects, Settings, Replaces, SetState("CONNECTED")}
           \/ Gui = SetState("DISCONNECTED") /\ has = Parts
           => button # "CONNECTING" /\ ~TrialOn
        /\ Gui \in {TryStarts, scheduleConnectionTrial} => drv = "off"
        /\ Gui # StartWaits
        /\ Gui = TryWaits => drv \in {"closing", "off"}
        /\ Drv # Done =>
            /\ Gui = Done /\ Tim = Done /\ drv = "on"
            /\ retry <=> Drv \in {Lost4, Lost3, Lost2, Lost1}
            /\ button = "CONNECTING" \/ Drv = onEndpointDisconnected

---------------------------------------------------------------------------
(* A calm environment: handlers run one at a time, except that a window may    *)
(* end while the settings of a closed port are edited.                         *)

\* State, driver and retry timer agree.
Settled ==
    /\ drv \in {"off", "on"}
    /\ button = "CONNECTED" <=> drv = "on"
    /\ button = "CONNECTING" <=> retry

\* Who runs beside whom.
Alone ==
    /\ Drv # Done => Gui = Done /\ Tim = Done
    /\ Tim \notin Measuring \union {Done} => Gui = Done
    /\ Tim \in Measuring =>
          Gui \in {Done, Settings, Replaces, SetState("DISCONNECTED"), Paints}

\* How far the handler in progress has brought them to agree.
Agreement ==
    /\ Gui \notin {TryWaits, StartWaits, SetState("CONNECTING"), SetState("CONNECTED")}
    /\ Tim \notin {TryWaits, StartWaits}
    /\ Gui \in {Settings, Replaces, SetState("DISCONNECTED"), Paints} =>
          button = "DISCONNECTED" /\ drv = "off" /\ ~retry
    /\ Gui \in {Clicked, abortTrials, ShowsClosed, SaysClosed} => Settled /\ drv = "off"
    /\ Gui \in {closePort, ShowsOpened, SaysOpened, Measures} => Settled /\ drv = "on"
    /\ Gui = CloseWaits => drv \in {"closing", "off"} /\ ~retry
    /\ Gui = Disconnects => drv = "off" /\ ~retry
    /\ Gui \in Trying => button = "DISCONNECTED" /\ drv = "off" /\ ~retry
    /\ Gui \in {Connected, Connects} => button = "DISCONNECTED" /\ drv = "on" /\ ~retry
    /\ Tim \in Trying => button = "CONNECTING" /\ drv = "off" /\ ~retry
    /\ Tim \in {Connected, Connects} => button = "CONNECTING" /\ drv = "on" /\ ~retry
    /\ Gui = Schedules \/ Tim = Schedules => drv = "off" /\ retry
    /\ Tim \in {ShowsClosed, SaysClosed} => Settled /\ drv = "off"
    /\ Tim \in {ShowsOpened, SaysOpened, Measures} => Settled /\ drv = "on"
    /\ Drv # Done =>
        /\ drv = "on"
        /\ retry <=> Drv \in {Lost4, Lost3, Lost2, Lost1}
        /\ button = IF Drv = onEndpointDisconnected THEN "CONNECTED" ELSE "CONNECTING"
    /\ Gui = Done /\ Drv = Done /\ Tim \in Measuring \union {Done} => Settled

\* Nothing posted changes the colour.
NoColour == \A i \in 1 .. Len(posted) : posted[i] \notin ButtonStates

\* The colour, once everything posted is shown, is that of the state.
Matches ==
    \/ ui.colour = button /\ NoColour
    \/ \E i \in 1 .. Len(posted) :
        /\ posted[i] = button
        /\ \A j \in 1 .. Len(posted) : i < j => posted[j] \notin ButtonStates

\* The colour matches, unless the state was set and the paint is to come.
Coloured ==
    /\ Gui # Done => NoColour
    /\ \/ Gui \in {ShowsOpened, ShowsClosed}
       \/ Tim \in {ShowsOpened, ShowsClosed}
       \/ Drv \in {Lost7, Lost3}
       \/ Matches

\* Nothing posted concerns the combo box...
Uncounted == ~Waits("opened") /\ ~Waits("closed")

\* ... and what it holds once everything posted is shown.
OneEntry == Waits("opened") \/ (ui.combo = 1 /\ Uncounted)
NoEntry == Waits("closed") \/ (ui.combo = 0 /\ Uncounted)

\* The port is in the combo box at most once, and is not entered twice.
ComboOK ==
    /\ ui.combo \in {0, 1}
    /\ Waits("opened") => ui.combo = 0 /\ ~Waits("closed")
    /\ \A i, j \in 1 .. Len(posted) : posted[i] = "opened" /\ posted[j] = "opened" => i = j

\* The combo box has the port if it is connected, unless the handler that
\* changed the state is about to signal it.
Listed ==
    /\ ComboOK
    /\ Drv # Done => ~Waits("opened")
    /\ Gui # Done => Uncounted
    /\ Tim \notin Measuring \union {Done, Measures} => Uncounted
    /\ Gui \in {ShowsOpened, SaysOpened} \/ Tim \in {ShowsOpened, SaysOpened} => NoEntry
    /\ \/ Gui \in {ShowsOpened, SaysOpened, ShowsClosed, SaysClosed}
       \/ Tim \in {ShowsOpened, SaysOpened, ShowsClosed, SaysClosed}
       \/ Drv \in {Lost7, Lost6, Lost3, Lost2}
       \/ IF button = "CONNECTED" THEN OneEntry ELSE NoEntry

\* What the three say in a calm environment, until the port is destroyed.
CalmAgreement == "calm" \in env /\ has = Parts => Alone /\ Agreement
CalmColoured == "calm" \in env /\ has = Parts => Coloured
CalmListed == "calm" \in env /\ has = Parts => Listed
=============================================================================
