----------------------------- MODULE PortProofs -----------------------------
(***************************************************************************)
(* Proofs about a port, for any port types, any bound on posted signals    *)
(* and every environment: what its timers, throughput and widgets promise  *)
(* whatever overlaps, and what they promise when handlers do not.          *)
(***************************************************************************)
EXTENDS PortRests, SequenceTheorems, TLAPS

---------------------------------------------------------------------------
(* The handlers as literal sequences *)

\* Two sequences in a row are what their elements say.
LEMMA Glue ==
    ASSUME NEW s \in Seq(Steps), NEW t \in Seq(Steps), NEW u \in Seq(Steps),
           Len(u) = Len(s) + Len(t),
           \A i \in 1 .. Len(s) : u[i] = s[i],
           \A i \in 1 .. Len(t) : u[Len(s) + i] = t[i]
    PROVE  s \o t = u
<1>1. s \o t \in Seq(Steps) /\ Len(s \o t) = Len(u)
  OBVIOUS
<1>2. \A i \in 1 .. Len(u) : (s \o t)[i] = u[i]
  <2> SUFFICES ASSUME NEW i \in 1 .. Len(u) PROVE (s \o t)[i] = u[i]
    OBVIOUS
  <2>1. CASE i <= Len(s)
    BY <2>1
  <2>2. CASE i > Len(s)
    <3>1. i - Len(s) \in 1 .. Len(t) /\ u[Len(s) + (i - Len(s))] = t[i - Len(s)]
      BY <2>2
    <3>2. QED
      BY <2>2, <3>1
  <2>3. QED
    BY <2>1, <2>2
<1>3. QED
  BY <1>1, <1>2, SeqEqual

\* The cases that occur.
LEMMA Glue21 ==
    ASSUME NEW a \in Steps, NEW b \in Steps, NEW c \in Steps
    PROVE  <<a, b>> \o <<c>> = <<a, b, c>>
<1>1. {<<a, b>>, <<c>>, <<a, b, c>>} \subseteq Seq(Steps)
  OBVIOUS
<1>2. /\ Len(<<a, b, c>>) = Len(<<a, b>>) + Len(<<c>>)
      /\ \A i \in 1 .. Len(<<a, b>>) : <<a, b, c>>[i] = <<a, b>>[i]
      /\ \A i \in 1 .. Len(<<c>>) : <<a, b, c>>[Len(<<a, b>>) + i] = <<c>>[i]
  OBVIOUS
<1>3. QED
  BY <1>1, <1>2, Glue

LEMMA Glue13 ==
    ASSUME NEW a \in Steps, NEW b \in Steps, NEW c \in Steps,
           NEW d \in Steps
    PROVE  <<a>> \o <<b, c, d>> = <<a, b, c, d>>
<1>1. {<<a>>, <<b, c, d>>, <<a, b, c, d>>} \subseteq Seq(Steps)
  OBVIOUS
<1>2. /\ Len(<<a, b, c, d>>) = Len(<<a>>) + Len(<<b, c, d>>)
      /\ \A i \in 1 .. Len(<<a>>) : <<a, b, c, d>>[i] = <<a>>[i]
      /\ \A i \in 1 .. Len(<<b, c, d>>) : <<a, b, c, d>>[Len(<<a>>) + i] = <<b, c, d>>[i]
  OBVIOUS
<1>3. QED
  BY <1>1, <1>2, Glue

LEMMA Glue41 ==
    ASSUME NEW a \in Steps, NEW b \in Steps, NEW c \in Steps,
           NEW d \in Steps, NEW e \in Steps
    PROVE  <<a, b, c, d>> \o <<e>> = <<a, b, c, d, e>>
<1>1. {<<a, b, c, d>>, <<e>>, <<a, b, c, d, e>>} \subseteq Seq(Steps)
  OBVIOUS
<1>2. /\ Len(<<a, b, c, d, e>>) = Len(<<a, b, c, d>>) + Len(<<e>>)
      /\ \A i \in 1 .. Len(<<a, b, c, d>>) : <<a, b, c, d, e>>[i] = <<a, b, c, d>>[i]
      /\ \A i \in 1 .. Len(<<e>>) : <<a, b, c, d, e>>[Len(<<a, b, c, d>>) + i] = <<e>>[i]
  OBVIOUS
<1>3. QED
  BY <1>1, <1>2, Glue

\* The handlers of Port, put together.
LEMMA HandlersAre ==
    /\ \A s \in ButtonStates : /\ SetState(s) = <<s, "paint">>
                               /\ Become(s) = <<s, "paint", SignalFor(s)>>
    /\ closePort = <<"stop", "awaitOff", "DISCONNECTED", "paint", "closed">>
    /\ abortTrials = <<"disarm", "DISCONNECTED", "paint", "closed">>
    /\ Connected = <<"disarm", "CONNECTED", "paint", "opened", "startMeter">>
    /\ scheduleConnectionTrial = <<"arm", "CONNECTING", "paint", "closed">>
    /\ Destroy = <<"dropListeners", "dropRetry", "dropMeter", "dropProxy",
                   "DISCONNECTED", "paint">>
    /\ onEndpointDisconnected = <<"CONNECTING", "paint", "closed", "arm",
                                  "CONNECTING", "paint", "closed", "leave">>
<1> USE DEF Steps, ButtonStates, Signals
<1>1. \A s \in ButtonStates : /\ SetState(s) = <<s, "paint">>
                              /\ Become(s) = <<s, "paint", SignalFor(s)>>
  BY Glue21 DEF SetState, Become, SignalFor
<1>2. /\ Become("DISCONNECTED") = <<"DISCONNECTED", "paint", "closed">>
      /\ Become("CONNECTING") = <<"CONNECTING", "paint", "closed">>
      /\ Become("CONNECTED") = <<"CONNECTED", "paint", "opened">>
  BY <1>1 DEF SignalFor
<1>3. closePort = <<"stop", "awaitOff", "DISCONNECTED", "paint", "closed">>
  <2>1. {<<"stop", "awaitOff">>, <<"DISCONNECTED", "paint", "closed">>,
         <<"stop", "awaitOff", "DISCONNECTED", "paint", "closed">>} \subseteq Seq(Steps)
    OBVIOUS
  <2>2. LET s == <<"stop", "awaitOff">>
            t == <<"DISCONNECTED", "paint", "closed">>
            u == <<"stop", "awaitOff", "DISCONNECTED", "paint", "closed">>
        IN  /\ Len(u) = Len(s) + Len(t)
            /\ \A i \in 1 .. Len(s) : u[i] = s[i]
            /\ \A i \in 1 .. Len(t) : u[Len(s) + i] = t[i]
    OBVIOUS
  <2>3. <<"stop", "awaitOff">> \o <<"DISCONNECTED", "paint", "closed">>
          = <<"stop", "awaitOff", "DISCONNECTED", "paint", "closed">>
    BY <2>1, <2>2, Glue
  <2>4. QED
    BY <1>2, <2>3 DEF closePort
<1>4. abortTrials = <<"disarm", "DISCONNECTED", "paint", "closed">>
  BY <1>2, Glue13 DEF abortTrials
<1>5. Connected = <<"disarm", "CONNECTED", "paint", "opened", "startMeter">>
  <2>1. <<"disarm">> \o Become("CONNECTED") = <<"disarm", "CONNECTED", "paint", "opened">>
    BY <1>2, Glue13
  <2>2. QED
    BY <2>1, Glue41 DEF Connected
<1>6. scheduleConnectionTrial = <<"arm", "CONNECTING", "paint", "closed">>
  BY <1>2, Glue13 DEF scheduleConnectionTrial
<1>7. Destroy = <<"dropListeners", "dropRetry", "dropMeter", "dropProxy",
                  "DISCONNECTED", "paint">>
  <2>1. {<<"dropListeners", "dropRetry", "dropMeter", "dropProxy">>, <<"DISCONNECTED", "paint">>,
         <<"dropListeners", "dropRetry", "dropMeter", "dropProxy", "DISCONNECTED", "paint">>} \subseteq Seq(Steps)
    OBVIOUS
  <2>2. LET s == <<"dropListeners", "dropRetry", "dropMeter", "dropProxy">>
            t == <<"DISCONNECTED", "paint">>
            u == <<"dropListeners", "dropRetry", "dropMeter", "dropProxy", "DISCONNECTED", "paint">>
        IN  /\ Len(u) = Len(s) + Len(t)
            /\ \A i \in 1 .. Len(s) : u[i] = s[i]
            /\ \A i \in 1 .. Len(t) : u[Len(s) + i] = t[i]
    OBVIOUS
  <2>3. <<"dropListeners", "dropRetry", "dropMeter", "dropProxy">> \o <<"DISCONNECTED", "paint">>
          = <<"dropListeners", "dropRetry", "dropMeter", "dropProxy", "DISCONNECTED", "paint">>
    BY <2>1, <2>2, Glue
  <2>4. QED
    BY <1>1, <2>3 DEF Destroy
<1>8. onEndpointDisconnected = <<"CONNECTING", "paint", "closed", "arm",
                                 "CONNECTING", "paint", "closed", "leave">>
  <2>1. Become("CONNECTING") \o scheduleConnectionTrial
            = <<"CONNECTING", "paint", "closed", "arm", "CONNECTING", "paint", "closed">>
    <3>1. {<<"CONNECTING", "paint", "closed">>, <<"arm", "CONNECTING", "paint", "closed">>,
           <<"CONNECTING", "paint", "closed", "arm", "CONNECTING", "paint", "closed">>} \subseteq Seq(Steps)
      OBVIOUS
    <3>2. LET s == <<"CONNECTING", "paint", "closed">>
              t == <<"arm", "CONNECTING", "paint", "closed">>
              u == <<"CONNECTING", "paint", "closed", "arm", "CONNECTING", "paint", "closed">>
          IN  /\ Len(u) = Len(s) + Len(t)
              /\ \A i \in 1 .. Len(s) : u[i] = s[i]
              /\ \A i \in 1 .. Len(t) : u[Len(s) + i] = t[i]
      OBVIOUS
    <3>3. <<"CONNECTING", "paint", "closed">> \o <<"arm", "CONNECTING", "paint", "closed">>
            = <<"CONNECTING", "paint", "closed", "arm", "CONNECTING", "paint", "closed">>
      BY <3>1, <3>2, Glue
    <3>4. QED
      BY <1>2, <1>6, <3>3
  <2>2. {<<"CONNECTING", "paint", "closed", "arm", "CONNECTING", "paint", "closed">>, <<"leave">>,
         <<"CONNECTING", "paint", "closed", "arm", "CONNECTING", "paint", "closed", "leave">>}
            \subseteq Seq(Steps)
    OBVIOUS
  <2>3. <<"CONNECTING", "paint", "closed", "arm", "CONNECTING", "paint", "closed">> \o <<"leave">>
          = <<"CONNECTING", "paint", "closed", "arm", "CONNECTING", "paint", "closed", "leave">>
    <3>1. LET s == <<"CONNECTING", "paint", "closed", "arm", "CONNECTING", "paint", "closed">>
              t == <<"leave">>
              u == <<"CONNECTING", "paint", "closed", "arm", "CONNECTING", "paint", "closed", "leave">>
          IN  /\ Len(u) = Len(s) + Len(t)
              /\ \A i \in 1 .. Len(s) : u[i] = s[i]
              /\ \A i \in 1 .. Len(t) : u[Len(s) + i] = t[i]
      OBVIOUS
    <3>2. QED
      BY <2>2, <3>1, Glue
  <2>4. QED
    BY <2>1, <2>3, Zenon DEF onEndpointDisconnected
<1>9. QED
  BY <1>1, <1>3, <1>4, <1>5, <1>6, <1>7, <1>8

\* Their first steps and rests...
LEMMA HandlerFacts ==
    /\ closePort \in Seq(Steps) /\ Len(closePort) = 5
    /\ Head(closePort) = "stop" /\ Tail(closePort) = CloseWaits
    /\ abortTrials \in Seq(Steps) /\ Len(abortTrials) = 4
    /\ Head(abortTrials) = "disarm" /\ Tail(abortTrials) = Disconnects
    /\ tryConnect \in Seq(Steps) /\ Len(tryConnect) = 3
    /\ Head(tryConnect) = "stop" /\ Tail(tryConnect) = TryWaits
    /\ Connected \in Seq(Steps) /\ Len(Connected) = 5
    /\ Head(Connected) = "disarm" /\ Tail(Connected) = Connects
    /\ scheduleConnectionTrial \in Seq(Steps) /\ Len(scheduleConnectionTrial) = 4
    /\ Head(scheduleConnectionTrial) = "arm" /\ Tail(scheduleConnectionTrial) = Schedules
    /\ onEndpointDisconnected \in Seq(Steps) /\ Len(onEndpointDisconnected) = 8
    /\ Head(onEndpointDisconnected) = "CONNECTING" /\ Tail(onEndpointDisconnected) = Lost7
BY HandlersAre
DEF tryConnect, Steps, ButtonStates, Signals, CloseWaits, Connects,
     Disconnects, Lost7, Schedules, TryWaits

\* ... and those of their rests.
LEMMA RestFacts ==
    /\ CloseWaits \in Seq(Steps) /\ Len(CloseWaits) = 4
    /\ Head(CloseWaits) = "awaitOff" /\ Tail(CloseWaits) = Disconnects
    /\ Disconnects \in Seq(Steps) /\ Len(Disconnects) = 3
    /\ Head(Disconnects) = "DISCONNECTED" /\ Tail(Disconnects) = ShowsClosed
    /\ ShowsClosed \in Seq(Steps) /\ Len(ShowsClosed) = 2
    /\ Head(ShowsClosed) = "paint" /\ Tail(ShowsClosed) = SaysClosed
    /\ SaysClosed \in Seq(Steps) /\ Len(SaysClosed) = 1
    /\ Head(SaysClosed) = "closed" /\ Tail(SaysClosed) = <<>>
    /\ TryWaits \in Seq(Steps) /\ Len(TryWaits) = 2
    /\ Head(TryWaits) = "awaitOff" /\ Tail(TryWaits) = TryStarts
    /\ TryStarts \in Seq(Steps) /\ Len(TryStarts) = 1
    /\ Head(TryStarts) = "start" /\ Tail(TryStarts) = <<>>
    /\ StartWaits \in Seq(Steps) /\ Len(StartWaits) = 1
    /\ Head(StartWaits) = "awaitStart" /\ Tail(StartWaits) = <<>>
    /\ Connects \in Seq(Steps) /\ Len(Connects) = 4
    /\ Head(Connects) = "CONNECTED" /\ Tail(Connects) = ShowsOpened
    /\ ShowsOpened \in Seq(Steps) /\ Len(ShowsOpened) = 3
    /\ Head(ShowsOpened) = "paint" /\ Tail(ShowsOpened) = SaysOpened
    /\ SaysOpened \in Seq(Steps) /\ Len(SaysOpened) = 2
    /\ Head(SaysOpened) = "opened" /\ Tail(SaysOpened) = Measures
    /\ Measures \in Seq(Steps) /\ Len(Measures) = 1
    /\ Head(Measures) = "startMeter" /\ Tail(Measures) = <<>>
    /\ Schedules \in Seq(Steps) /\ Len(Schedules) = 3
    /\ Head(Schedules) = "CONNECTING" /\ Tail(Schedules) = ShowsClosed
    /\ Clicked \in Seq(Steps) /\ Len(Clicked) = 1
    /\ Head(Clicked) = "clickedStopped" /\ Tail(Clicked) = <<>>
    /\ Settings \in Seq(Steps) /\ Len(Settings) = 2
    /\ Head(Settings) = "dialog" /\ Tail(Settings) = Replaces
    /\ Replaces \in Seq(Steps) /\ Len(Replaces) = 1
    /\ Head(Replaces) = "replace" /\ Tail(Replaces) = <<>>
    /\ Paints \in Seq(Steps) /\ Len(Paints) = 1
    /\ Head(Paints) = "paint" /\ Tail(Paints) = <<>>
    /\ DropsRetry \in Seq(Steps) /\ Len(DropsRetry) = 5
    /\ Head(DropsRetry) = "dropRetry" /\ Tail(DropsRetry) = DropsMeter
    /\ DropsMeter \in Seq(Steps) /\ Len(DropsMeter) = 4
    /\ Head(DropsMeter) = "dropMeter" /\ Tail(DropsMeter) = DropsProxy
    /\ Window \in Seq(Steps) /\ Len(Window) = 2
    /\ Head(Window) = "startMeter" /\ Tail(Window) = Rates
    /\ Rates \in Seq(Steps) /\ Len(Rates) = 1
    /\ Head(Rates) = "rate" /\ Tail(Rates) = <<>>
    /\ NoRates \in Seq(Steps) /\ Len(NoRates) = 1
    /\ Head(NoRates) = "norate" /\ Tail(NoRates) = <<>>
    /\ Lost7 \in Seq(Steps) /\ Len(Lost7) = 7
    /\ Head(Lost7) = "paint" /\ Tail(Lost7) = Lost6
    /\ Lost6 \in Seq(Steps) /\ Len(Lost6) = 6
    /\ Head(Lost6) = "closed" /\ Tail(Lost6) = Lost5
    /\ Lost5 \in Seq(Steps) /\ Len(Lost5) = 5
    /\ Head(Lost5) = "arm" /\ Tail(Lost5) = Lost4
    /\ Lost4 \in Seq(Steps) /\ Len(Lost4) = 4
    /\ Head(Lost4) = "CONNECTING" /\ Tail(Lost4) = Lost3
    /\ Lost3 \in Seq(Steps) /\ Len(Lost3) = 3
    /\ Head(Lost3) = "paint" /\ Tail(Lost3) = Lost2
    /\ Lost2 \in Seq(Steps) /\ Len(Lost2) = 2
    /\ Head(Lost2) = "closed" /\ Tail(Lost2) = Lost1
    /\ Lost1 \in Seq(Steps) /\ Len(Lost1) = 1
    /\ Head(Lost1) = "leave" /\ Tail(Lost1) = <<>>
BY DEF Steps, ButtonStates, Signals, CloseWaits, Disconnects, ShowsClosed,
     SaysClosed, TryWaits, TryStarts, StartWaits, Connects, ShowsOpened,
     SaysOpened, Measures, Schedules, Clicked, Settings, Replaces, Paints,
     DropsRetry, Window, Rates, NoRates, Lost7, Lost6, Lost5, Lost4, Lost3,
     Lost2, Lost1, DropsMeter, DropsProxy

\* setState() is two steps.
LEMMA SetStateFacts ==
    \A s \in ButtonStates :
        /\ SetState(s) \in Seq(Steps) /\ Len(SetState(s)) = 2
        /\ Head(SetState(s)) = s /\ Tail(SetState(s)) = Paints
<1> SUFFICES ASSUME NEW s \in ButtonStates
             PROVE  /\ SetState(s) \in Seq(Steps) /\ Len(SetState(s)) = 2
                    /\ Head(SetState(s)) = s /\ Tail(SetState(s)) = Paints
  OBVIOUS
<1>1. SetState(s) = <<s, "paint">>
  BY HandlersAre
<1>2. <<s, "paint">> \in Seq(Steps) /\ Tail(<<s, "paint">>) = <<"paint">>
  BY DEF Steps, ButtonStates
<1>3. QED
  BY <1>1, <1>2 DEF Paints

\* A handler that is over.
LEMMA EmptyFacts ==
    /\ <<>> \in Seq(Steps) /\ Len(<<>>) = 0
    /\ \A s \in Seq(Steps) : <<>> \o s = s /\ s \o <<>> = s
BY ConcatEmptySeq

\* Those of the destructor.
LEMMA DestroyFacts ==
    /\ Destroy \in Seq(Steps) /\ Len(Destroy) = 6
    /\ Head(Destroy) = "dropListeners" /\ Tail(Destroy) = DropsRetry
    /\ DropsProxy \in Seq(Steps) /\ Len(DropsProxy) = 3
    /\ Head(DropsProxy) = "dropProxy" /\ Tail(DropsProxy) = SetState("DISCONNECTED")
BY HandlersAre DEF Steps, ButtonStates, Signals, DropsRetry, DropsProxy
\* Head, Len and Tail, kept from the provers where only the table matters.
First(s) == Head(s)
Left(s) == Len(s)
Rest(s) == Tail(s)

\* All of them, in terms the provers need not look into.
LEMMA Table ==
    /\ Left(Done) = 0
    /\ First(closePort) = "stop" /\ Left(closePort) = 5 /\ Rest(closePort) = CloseWaits
    /\ First(CloseWaits) = "awaitOff" /\ Left(CloseWaits) = 4 /\ Rest(CloseWaits) = Disconnects
    /\ First(abortTrials) = "disarm" /\ Left(abortTrials) = 4 /\ Rest(abortTrials) = Disconnects
    /\ First(Disconnects) = "DISCONNECTED" /\ Left(Disconnects) = 3 /\ Rest(Disconnects) = ShowsClosed
    /\ First(ShowsClosed) = "paint" /\ Left(ShowsClosed) = 2 /\ Rest(ShowsClosed) = SaysClosed
    /\ First(SaysClosed) = "closed" /\ Left(SaysClosed) = 1 /\ Rest(SaysClosed) = Done
    /\ First(tryConnect) = "stop" /\ Left(tryConnect) = 3 /\ Rest(tryConnect) = TryWaits
    /\ First(TryWaits) = "awaitOff" /\ Left(TryWaits) = 2 /\ Rest(TryWaits) = TryStarts
    /\ First(TryStarts) = "start" /\ Left(TryStarts) = 1 /\ Rest(TryStarts) = Done
    /\ First(StartWaits) = "awaitStart" /\ Left(StartWaits) = 1 /\ Rest(StartWaits) = Done
    /\ First(Connected) = "disarm" /\ Left(Connected) = 5 /\ Rest(Connected) = Connects
    /\ First(Connects) = "CONNECTED" /\ Left(Connects) = 4 /\ Rest(Connects) = ShowsOpened
    /\ First(ShowsOpened) = "paint" /\ Left(ShowsOpened) = 3 /\ Rest(ShowsOpened) = SaysOpened
    /\ First(SaysOpened) = "opened" /\ Left(SaysOpened) = 2 /\ Rest(SaysOpened) = Measures
    /\ First(Measures) = "startMeter" /\ Left(Measures) = 1 /\ Rest(Measures) = Done
    /\ First(scheduleConnectionTrial) = "arm" /\ Left(scheduleConnectionTrial) = 4 /\ Rest(scheduleConnectionTrial) = Schedules
    /\ First(Schedules) = "CONNECTING" /\ Left(Schedules) = 3 /\ Rest(Schedules) = ShowsClosed
    /\ First(Clicked) = "clickedStopped" /\ Left(Clicked) = 1 /\ Rest(Clicked) = Done
    /\ First(Settings) = "dialog" /\ Left(Settings) = 2 /\ Rest(Settings) = Replaces
    /\ First(Replaces) = "replace" /\ Left(Replaces) = 1 /\ Rest(Replaces) = Done
    /\ First(Paints) = "paint" /\ Left(Paints) = 1 /\ Rest(Paints) = Done
    /\ First(Destroy) = "dropListeners" /\ Left(Destroy) = 6 /\ Rest(Destroy) = DropsRetry
    /\ First(DropsRetry) = "dropRetry" /\ Left(DropsRetry) = 5 /\ Rest(DropsRetry) = DropsMeter
    /\ First(DropsMeter) = "dropMeter" /\ Left(DropsMeter) = 4 /\ Rest(DropsMeter) = DropsProxy
    /\ First(DropsProxy) = "dropProxy" /\ Left(DropsProxy) = 3 /\ Rest(DropsProxy) = SetState("DISCONNECTED")
    /\ First(Window) = "startMeter" /\ Left(Window) = 2 /\ Rest(Window) = Rates
    /\ First(Rates) = "rate" /\ Left(Rates) = 1 /\ Rest(Rates) = Done
    /\ First(NoRates) = "norate" /\ Left(NoRates) = 1 /\ Rest(NoRates) = Done
    /\ First(onEndpointDisconnected) = "CONNECTING" /\ Left(onEndpointDisconnected) = 8 /\ Rest(onEndpointDisconnected) = Lost7
    /\ First(Lost7) = "paint" /\ Left(Lost7) = 7 /\ Rest(Lost7) = Lost6
    /\ First(Lost6) = "closed" /\ Left(Lost6) = 6 /\ Rest(Lost6) = Lost5
    /\ First(Lost5) = "arm" /\ Left(Lost5) = 5 /\ Rest(Lost5) = Lost4
    /\ First(Lost4) = "CONNECTING" /\ Left(Lost4) = 4 /\ Rest(Lost4) = Lost3
    /\ First(Lost3) = "paint" /\ Left(Lost3) = 3 /\ Rest(Lost3) = Lost2
    /\ First(Lost2) = "closed" /\ Left(Lost2) = 2 /\ Rest(Lost2) = Lost1
    /\ First(Lost1) = "leave" /\ Left(Lost1) = 1 /\ Rest(Lost1) = Done
    /\ \A s \in ButtonStates :
           First(SetState(s)) = s /\ Left(SetState(s)) = 2 /\ Rest(SetState(s)) = Paints
<1> USE EmptyFacts DEF First, Left, Rest, Done
<1>1. Left(Done) = 0
  OBVIOUS
<1>2. /\ First(closePort) = "stop" /\ Left(closePort) = 5 /\ Rest(closePort) = CloseWaits
      /\ First(abortTrials) = "disarm" /\ Left(abortTrials) = 4 /\ Rest(abortTrials) = Disconnects
      /\ First(tryConnect) = "stop" /\ Left(tryConnect) = 3 /\ Rest(tryConnect) = TryWaits
      /\ First(Connected) = "disarm" /\ Left(Connected) = 5 /\ Rest(Connected) = Connects
      /\ First(scheduleConnectionTrial) = "arm" /\ Left(scheduleConnectionTrial) = 4 /\ Rest(scheduleConnectionTrial) = Schedules
      /\ First(onEndpointDisconnected) = "CONNECTING" /\ Left(onEndpointDisconnected) = 8 /\ Rest(onEndpointDisconnected) = Lost7
  BY HandlerFacts
<1>3. /\ First(CloseWaits) = "awaitOff" /\ Left(CloseWaits) = 4 /\ Rest(CloseWaits) = Disconnects
      /\ First(Disconnects) = "DISCONNECTED" /\ Left(Disconnects) = 3 /\ Rest(Disconnects) = ShowsClosed
      /\ First(ShowsClosed) = "paint" /\ Left(ShowsClosed) = 2 /\ Rest(ShowsClosed) = SaysClosed
      /\ First(SaysClosed) = "closed" /\ Left(SaysClosed) = 1 /\ Rest(SaysClosed) = Done
      /\ First(TryWaits) = "awaitOff" /\ Left(TryWaits) = 2 /\ Rest(TryWaits) = TryStarts
      /\ First(TryStarts) = "start" /\ Left(TryStarts) = 1 /\ Rest(TryStarts) = Done
      /\ First(StartWaits) = "awaitStart" /\ Left(StartWaits) = 1 /\ Rest(StartWaits) = Done
      /\ First(Connects) = "CONNECTED" /\ Left(Connects) = 4 /\ Rest(Connects) = ShowsOpened
      /\ First(ShowsOpened) = "paint" /\ Left(ShowsOpened) = 3 /\ Rest(ShowsOpened) = SaysOpened
      /\ First(SaysOpened) = "opened" /\ Left(SaysOpened) = 2 /\ Rest(SaysOpened) = Measures
      /\ First(Measures) = "startMeter" /\ Left(Measures) = 1 /\ Rest(Measures) = Done
      /\ First(Schedules) = "CONNECTING" /\ Left(Schedules) = 3 /\ Rest(Schedules) = ShowsClosed
      /\ First(Clicked) = "clickedStopped" /\ Left(Clicked) = 1 /\ Rest(Clicked) = Done
      /\ First(Settings) = "dialog" /\ Left(Settings) = 2 /\ Rest(Settings) = Replaces
      /\ First(Replaces) = "replace" /\ Left(Replaces) = 1 /\ Rest(Replaces) = Done
      /\ First(Paints) = "paint" /\ Left(Paints) = 1 /\ Rest(Paints) = Done
      /\ First(DropsRetry) = "dropRetry" /\ Left(DropsRetry) = 5 /\ Rest(DropsRetry) = DropsMeter
      /\ First(DropsMeter) = "dropMeter" /\ Left(DropsMeter) = 4 /\ Rest(DropsMeter) = DropsProxy
      /\ First(Window) = "startMeter" /\ Left(Window) = 2 /\ Rest(Window) = Rates
      /\ First(Rates) = "rate" /\ Left(Rates) = 1 /\ Rest(Rates) = Done
      /\ First(NoRates) = "norate" /\ Left(NoRates) = 1 /\ Rest(NoRates) = Done
      /\ First(Lost7) = "paint" /\ Left(Lost7) = 7 /\ Rest(Lost7) = Lost6
      /\ First(Lost6) = "closed" /\ Left(Lost6) = 6 /\ Rest(Lost6) = Lost5
      /\ First(Lost5) = "arm" /\ Left(Lost5) = 5 /\ Rest(Lost5) = Lost4
      /\ First(Lost4) = "CONNECTING" /\ Left(Lost4) = 4 /\ Rest(Lost4) = Lost3
      /\ First(Lost3) = "paint" /\ Left(Lost3) = 3 /\ Rest(Lost3) = Lost2
      /\ First(Lost2) = "closed" /\ Left(Lost2) = 2 /\ Rest(Lost2) = Lost1
      /\ First(Lost1) = "leave" /\ Left(Lost1) = 1 /\ Rest(Lost1) = Done
  BY RestFacts
<1>4. /\ First(Destroy) = "dropListeners" /\ Left(Destroy) = 6 /\ Rest(Destroy) = DropsRetry
      /\ First(DropsProxy) = "dropProxy" /\ Left(DropsProxy) = 3 /\ Rest(DropsProxy) = SetState("DISCONNECTED")
  BY DestroyFacts, SetStateFacts DEF ButtonStates
<1>5. \A s \in ButtonStates :
           First(SetState(s)) = s /\ Left(SetState(s)) = 2 /\ Rest(SetState(s)) = Paints
  BY SetStateFacts
<1>6. QED
  BY <1>1, <1>2, <1>3, <1>4, <1>5

\* Thread t is left with rest.
Goes(t, rest) == \A u \in Threads : todo'[u] = IF u = t THEN rest ELSE todo[u]

---------------------------------------------------------------------------
(* The actions, as moves from one rest to the next *)

\* Where a thread is.
LEMMA AtIs ==
    ASSUME NEW t \in Threads, NEW s \in Steps
    PROVE  /\ At(t, s) <=> todo[t] # Done /\ First(todo[t]) = s
           /\ Idle(t) <=> todo[t] = Done
BY DEF At, Idle, First, Done, Steps, ButtonStates, Signals

\* What Then() leaves.
LEMMA ThenGoes ==
    ASSUME TypeOK, NEW t \in Threads, todo[t] # Done
    PROVE  /\ Then(t, <<>>) => Goes(t, Rest(todo[t]))
           /\ Rest(todo[t]) = Done =>
                  \A more \in Seq(Steps) : Then(t, more) => Goes(t, more)
<1>1. todo[t] \in Seq(Steps)
  BY DEF TypeOK
<1>2. Tail(todo[t]) \in Seq(Steps)
  BY <1>1 DEF Done
<1>3. QED
  BY <1>2, EmptyFacts DEF Then, Goes, Rest, Done, TypeOK

\* What Then() may add.
LEMMA HandlersInSeq ==
    /\ {tryConnect, Connected, scheduleConnectionTrial, abortTrials, StartWaits, <<>>} \subseteq Seq(Steps)
    /\ \A s \in ButtonStates : SetState(s) \in Seq(Steps)
BY HandlerFacts, SetStateFacts, RestFacts, EmptyFacts

\* What Begin() leaves.
LEMMA BeginGoes ==
    ASSUME TypeOK, NEW t \in Threads, NEW steps
    PROVE  Begin(t, steps) => Goes(t, steps)
BY DEF Begin, Goes, TypeOK

\* Each step, by where it can be taken and where it leads.
LEMMA AwaitOffIs ==
    ASSUME TypeOK, Shape, NEW t \in Threads, AwaitOff(t)
    PROVE  \/ t = "gui" /\ GuiMoves(CloseWaits, Disconnects)
           \/ t = "gui" /\ GuiMoves(TryWaits, TryStarts)
           \/ t = "timers" /\ TimMoves(TryWaits, TryStarts)
<1>1. At(t, "awaitOff") /\ Then(t, <<>>)
  BY DEF AwaitOff
<1>2. todo[t] # Done /\ First(todo[t]) = "awaitOff" /\ Goes(t, Rest(todo[t]))
  BY <1>1, AtIs, ThenGoes DEF Steps
<1>3. QED
  BY <1>2, Table
  DEF Threads, Goes, Gui, Tim, Drv, GuiMoves, TimMoves, DrvMoves, Shape,
     GuiRests, TimersRests, DriverRests, ButtonStates

LEMMA ArmIs ==
    ASSUME TypeOK, Shape, NEW t \in Threads, Arm(t)
    PROVE  \/ t = "gui" /\ GuiMoves(scheduleConnectionTrial, Schedules)
           \/ t = "timers" /\ TimMoves(scheduleConnectionTrial, Schedules)
           \/ t = "driver" /\ DrvMoves(Lost5, Lost4)
<1>1. At(t, "arm") /\ Then(t, <<>>)
  BY DEF Arm
<1>2. todo[t] # Done /\ First(todo[t]) = "arm" /\ Goes(t, Rest(todo[t]))
  BY <1>1, AtIs, ThenGoes DEF Steps
<1>3. QED
  BY <1>2, Table
  DEF Threads, Goes, Gui, Tim, Drv, GuiMoves, TimMoves, DrvMoves, Shape,
     GuiRests, TimersRests, DriverRests, ButtonStates

LEMMA DisarmIs ==
    ASSUME TypeOK, Shape, NEW t \in Threads, Disarm(t)
    PROVE  \/ t = "gui" /\ GuiMoves(abortTrials, Disconnects)
           \/ t = "gui" /\ GuiMoves(Connected, Connects)
           \/ t = "timers" /\ TimMoves(Connected, Connects)
<1>1. At(t, "disarm") /\ Then(t, <<>>)
  BY DEF Disarm
<1>2. todo[t] # Done /\ First(todo[t]) = "disarm" /\ Goes(t, Rest(todo[t]))
  BY <1>1, AtIs, ThenGoes DEF Steps
<1>3. QED
  BY <1>2, Table
  DEF Threads, Goes, Gui, Tim, Drv, GuiMoves, TimMoves, DrvMoves, Shape,
     GuiRests, TimersRests, DriverRests, ButtonStates

LEMMA StartMeterIs ==
    ASSUME TypeOK, Shape, NEW t \in Threads, StartMeter(t)
    PROVE  \/ t = "gui" /\ GuiMoves(Measures, Done)
           \/ t = "timers" /\ TimMoves(Measures, Done)
           \/ t = "timers" /\ TimMoves(Window, Rates)
<1>1. At(t, "startMeter") /\ Then(t, <<>>)
  BY DEF StartMeter
<1>2. todo[t] # Done /\ First(todo[t]) = "startMeter" /\ Goes(t, Rest(todo[t]))
  BY <1>1, AtIs, ThenGoes DEF Steps
<1>3. QED
  BY <1>2, Table
  DEF Threads, Goes, Gui, Tim, Drv, GuiMoves, TimMoves, DrvMoves, Shape,
     GuiRests, TimersRests, DriverRests, ButtonStates

LEMMA PaintIs ==
    ASSUME TypeOK, Shape, NEW t \in Threads, Paint(t)
    PROVE  \/ t = "gui" /\ GuiMoves(ShowsClosed, SaysClosed)
           \/ t = "timers" /\ TimMoves(ShowsClosed, SaysClosed)
           \/ t = "gui" /\ GuiMoves(ShowsOpened, SaysOpened)
           \/ t = "timers" /\ TimMoves(ShowsOpened, SaysOpened)
           \/ t = "gui" /\ GuiMoves(Paints, Done)
           \/ t = "driver" /\ DrvMoves(Lost7, Lost6)
           \/ t = "driver" /\ DrvMoves(Lost3, Lost2)
<1>1. At(t, "paint") /\ Then(t, <<>>)
  BY DEF Paint
<1>2. todo[t] # Done /\ First(todo[t]) = "paint" /\ Goes(t, Rest(todo[t]))
  BY <1>1, AtIs, ThenGoes DEF Steps
<1>3. QED
  BY <1>2, Table
  DEF Threads, Goes, Gui, Tim, Drv, GuiMoves, TimMoves, DrvMoves, Shape,
     GuiRests, TimersRests, DriverRests, ButtonStates

LEMMA DropListenersIs ==
    ASSUME TypeOK, Shape, NEW t \in Threads, DropListeners(t)
    PROVE  t = "gui" /\ GuiMoves(Destroy, DropsRetry)
<1>1. At(t, "dropListeners") /\ Then(t, <<>>)
  BY DEF DropListeners
<1>2. todo[t] # Done /\ First(todo[t]) = "dropListeners" /\ Goes(t, Rest(todo[t]))
  BY <1>1, AtIs, ThenGoes DEF Steps
<1>3. QED
  BY <1>2, Table
  DEF Threads, Goes, Gui, Tim, Drv, GuiMoves, TimMoves, DrvMoves, Shape,
     GuiRests, TimersRests, DriverRests, ButtonStates

LEMMA DropRetryIs ==
    ASSUME TypeOK, Shape, NEW t \in Threads, DropRetry(t)
    PROVE  t = "gui" /\ GuiMoves(DropsRetry, DropsMeter)
<1>1. At(t, "dropRetry") /\ Then(t, <<>>)
  BY DEF DropRetry
<1>2. todo[t] # Done /\ First(todo[t]) = "dropRetry" /\ Goes(t, Rest(todo[t]))
  BY <1>1, AtIs, ThenGoes DEF Steps
<1>3. QED
  BY <1>2, Table
  DEF Threads, Goes, Gui, Tim, Drv, GuiMoves, TimMoves, DrvMoves, Shape,
     GuiRests, TimersRests, DriverRests, ButtonStates

LEMMA DropMeterIs ==
    ASSUME TypeOK, Shape, NEW t \in Threads, DropMeter(t)
    PROVE  t = "gui" /\ GuiMoves(DropsMeter, DropsProxy)
<1>1. At(t, "dropMeter") /\ Then(t, <<>>)
  BY DEF DropMeter
<1>2. todo[t] # Done /\ First(todo[t]) = "dropMeter" /\ Goes(t, Rest(todo[t]))
  BY <1>1, AtIs, ThenGoes DEF Steps
<1>3. QED
  BY <1>2, Table
  DEF Threads, Goes, Gui, Tim, Drv, GuiMoves, TimMoves, DrvMoves, Shape,
     GuiRests, TimersRests, DriverRests, ButtonStates

LEMMA DropProxyIs ==
    ASSUME TypeOK, Shape, NEW t \in Threads, DropProxy(t)
    PROVE  t = "gui" /\ GuiMoves(DropsProxy, SetState("DISCONNECTED"))
<1>1. At(t, "dropProxy") /\ Then(t, <<>>)
  BY DEF DropProxy
<1>2. todo[t] # Done /\ First(todo[t]) = "dropProxy" /\ Goes(t, Rest(todo[t]))
  BY <1>1, AtIs, ThenGoes DEF Steps
<1>3. QED
  BY <1>2, Table
  DEF Threads, Goes, Gui, Tim, Drv, GuiMoves, TimMoves, DrvMoves, Shape,
     GuiRests, TimersRests, DriverRests, ButtonStates

LEMMA LeaveIs ==
    ASSUME TypeOK, Shape, NEW t \in Threads, Leave(t)
    PROVE  t = "driver" /\ DrvMoves(Lost1, Done)
<1>1. At(t, "leave") /\ Then(t, <<>>)
  BY DEF Leave
<1>2. todo[t] # Done /\ First(todo[t]) = "leave" /\ Goes(t, Rest(todo[t]))
  BY <1>1, AtIs, ThenGoes DEF Steps
<1>3. QED
  BY <1>2, Table
  DEF Threads, Goes, Gui, Tim, Drv, GuiMoves, TimMoves, DrvMoves, Shape,
     GuiRests, TimersRests, DriverRests, ButtonStates

LEMMA SetIs ==
    ASSUME TypeOK, Shape, NEW t \in Threads, Set(t)
    PROVE  \/ t = "gui" /\ GuiMoves(Disconnects, ShowsClosed) /\ button' = "DISCONNECTED"
           \/ t = "gui" /\ GuiMoves(Connects, ShowsOpened) /\ button' = "CONNECTED"
           \/ t = "timers" /\ TimMoves(Connects, ShowsOpened) /\ button' = "CONNECTED"
           \/ t = "gui" /\ GuiMoves(Schedules, ShowsClosed) /\ button' = "CONNECTING"
           \/ t = "timers" /\ TimMoves(Schedules, ShowsClosed) /\ button' = "CONNECTING"
           \/ /\ t = "gui"
              /\ button' \in ButtonStates /\ GuiMoves(SetState(button'), Paints)
           \/ t = "driver" /\ DrvMoves(onEndpointDisconnected, Lost7) /\ button' = "CONNECTING"
           \/ t = "driver" /\ DrvMoves(Lost4, Lost3) /\ button' = "CONNECTING"
<1>1. PICK s \in ButtonStates : At(t, s) /\ Then(t, <<>>) /\ button' = s
  BY DEF Set
<1>2. todo[t] # Done /\ First(todo[t]) = s /\ Goes(t, Rest(todo[t]))
  BY <1>1, AtIs, ThenGoes DEF Steps
<1>3. QED
  BY <1>1, <1>2, Table
  DEF Threads, Goes, Gui, Tim, Drv, GuiMoves, TimMoves, DrvMoves, Shape,
     GuiRests, TimersRests, DriverRests, ButtonStates

LEMMA SignalIs ==
    ASSUME TypeOK, Shape, NEW t \in Threads, NEW m \in Signals, At(t, m), Then(t, <<>>)
    PROVE  \/ t = "gui" /\ GuiMoves(SaysClosed, Done) /\ m = "closed"
           \/ t = "timers" /\ TimMoves(SaysClosed, Done) /\ m = "closed"
           \/ t = "gui" /\ GuiMoves(SaysOpened, Measures) /\ m = "opened"
           \/ t = "timers" /\ TimMoves(SaysOpened, Measures) /\ m = "opened"
           \/ t = "timers" /\ TimMoves(Rates, Done) /\ m = "rate"
           \/ t = "timers" /\ TimMoves(NoRates, Done) /\ m = "norate"
           \/ t = "driver" /\ DrvMoves(Lost6, Lost5) /\ m = "closed"
           \/ t = "driver" /\ DrvMoves(Lost2, Lost1) /\ m = "closed"
<1>1. todo[t] # Done /\ First(todo[t]) = m /\ Goes(t, Rest(todo[t]))
  BY AtIs, ThenGoes DEF Steps
<1>2. QED
  BY <1>1, Table
  DEF Threads, Goes, Gui, Tim, Drv, GuiMoves, TimMoves, DrvMoves, Shape,
     GuiRests, TimersRests, DriverRests, ButtonStates, Signals

LEMMA ClickedStoppedIs ==
    ASSUME TypeOK, Shape, NEW t \in Threads, ClickedStopped(t)
    PROVE  t = "gui" /\ GuiMoves(Clicked, IF button = "CONNECTING" THEN abortTrials ELSE tryConnect)
<1>1. At(t, "clickedStopped") /\ Then(t, IF button = "CONNECTING" THEN abortTrials ELSE tryConnect)
  BY DEF ClickedStopped
<1>2. todo[t] # Done /\ First(todo[t]) = "clickedStopped"
  BY <1>1, AtIs DEF Steps
<1>3. t = "gui" /\ Gui = Clicked
  BY <1>2, Table
  DEF Threads, Goes, Gui, Tim, Drv, GuiMoves, TimMoves, DrvMoves, Shape,
     GuiRests, TimersRests, DriverRests, ButtonStates
<1>4. Goes(t, IF button = "CONNECTING" THEN abortTrials ELSE tryConnect)
  BY SMTT(30), <1>1, <1>2, <1>3, ThenGoes, HandlersInSeq, Table DEF Gui
<1>5. QED
  BY <1>3, <1>4 DEF Goes, Threads, Gui, Tim, Drv, GuiMoves

LEMMA StopIs ==
    ASSUME TypeOK, Shape, NEW t \in Threads, Stop(t)
    PROVE  \/ /\ isStarted
              /\ \/ t = "gui" /\ GuiMoves(closePort, CloseWaits)
                 \/ t = "gui" /\ GuiMoves(tryConnect, TryWaits)
                 \/ t = "timers" /\ TimMoves(tryConnect, TryWaits)
           \/ /\ ~isStarted
              /\ \/ t = "gui" /\ GuiMoves(closePort, Disconnects)
                 \/ t = "gui" /\ GuiMoves(tryConnect, TryStarts)
                 \/ t = "timers" /\ TimMoves(tryConnect, TryStarts)
<1>1. At(t, "stop") /\ todo' = [todo EXCEPT ![t] = IF isStarted THEN Tail(@) ELSE Tail(Tail(@))]
  BY DEF Stop
<1>2. todo[t] # Done /\ First(todo[t]) = "stop"
  BY <1>1, AtIs DEF Steps
<1>3. /\ isStarted => Goes(t, Rest(todo[t]))
      /\ ~isStarted => Goes(t, Rest(Rest(todo[t])))
  BY <1>1 DEF Goes, Rest, TypeOK
<1>4. QED
  BY <1>2, <1>3, Table
  DEF Threads, Goes, Gui, Tim, Drv, GuiMoves, TimMoves, DrvMoves, Shape,
     GuiRests, TimersRests, DriverRests, ButtonStates

LEMMA StartIs ==
    ASSUME TypeOK, Shape, NEW t \in Threads, Start(t)
    PROVE  \/ /\ drv = "off" /\ drv' = "on"
              /\ \/ t = "gui" /\ GuiMoves(TryStarts, Connected)
                 \/ t = "timers" /\ TimMoves(TryStarts, Connected)
           \/ /\ drv = "closing" /\ drv' = "doomed"
              /\ \/ t = "gui" /\ GuiMoves(TryStarts, StartWaits)
                 \/ t = "timers" /\ TimMoves(TryStarts, StartWaits)
           \/ /\ drv' = drv
              /\ \/ t = "gui" /\ GuiMoves(TryStarts, scheduleConnectionTrial)
                 \/ t = "gui" /\ GuiMoves(TryStarts, Done)
                 \/ t = "timers" /\ TimMoves(TryStarts, scheduleConnectionTrial)
<1>1. At(t, "start")
  BY DEF Start
<1>2. /\ todo[t] = TryStarts /\ todo[t] # Done /\ Rest(todo[t]) = Done
      /\ (t = "gui" /\ Gui = TryStarts) \/ (t = "timers" /\ Tim = TryStarts)
  <2>1. todo[t] # Done /\ First(todo[t]) = "start"
    BY <1>1, AtIs DEF Steps
  <2>2. (t = "gui" /\ Gui = TryStarts) \/ (t = "timers" /\ Tim = TryStarts)
    <3>1. t = "gui" => Gui = TryStarts
      BY <2>1, Table DEF Gui, Shape, GuiRests, ButtonStates
    <3>2. t = "timers" => Tim = TryStarts
      BY <2>1, Table DEF Tim, Shape, TimersRests
    <3>3. t # "driver"
      BY <2>1, Table DEF Drv, Shape, DriverRests
    <3>4. QED
      BY <3>1, <3>2, <3>3 DEF Threads
  <2>3. Rest(TryStarts) = Done
    BY Table
  <2>4. QED
    BY <2>1, <2>2, <2>3 DEF Gui, Tim
<1>3. /\ \/ Refused(t) = scheduleConnectionTrial
         \/ t # "timers" /\ Refused(t) = Done
      /\ Refused(t) \in Seq(Steps)
  BY HandlersInSeq DEF Refused, Done
<1>4. CASE drv = "off" /\ drv' = "on" /\ Then(t, Connected)
  <2>1. Goes(t, Connected)
    BY <1>2, <1>4, ThenGoes, HandlersInSeq DEF StartWaits
  <2>2. QED
    BY <1>2, <1>4, <2>1
    DEF Goes, Threads, Gui, Tim, Drv, GuiMoves, TimMoves, DrvMoves
<1>5. CASE drv = "closing" /\ drv' = "doomed" /\ Then(t, <<"awaitStart">>)
  <2>1. Goes(t, StartWaits)
    BY <1>2, <1>5, ThenGoes, HandlersInSeq DEF StartWaits
  <2>2. QED
    BY <1>2, <1>5, <2>1
    DEF Goes, Threads, Gui, Tim, Drv, GuiMoves, TimMoves, DrvMoves
<1>6. CASE drv' = drv /\ Then(t, Refused(t))
  <2>1. Goes(t, Refused(t))
    BY <1>2, <1>3, <1>6, ThenGoes
  <2>2. QED
    BY <1>2, <1>3, <1>6, <2>1
    DEF Goes, Threads, Gui, Tim, Drv, GuiMoves, TimMoves, DrvMoves
<1>7. QED
  BY <1>4, <1>5, <1>6 DEF Start

LEMMA AwaitStartIs ==
    ASSUME TypeOK, Shape, NEW t \in Threads, AwaitStart(t)
    PROVE  \/ /\ drv # "doomed" /\ drv' = drv
              /\ \/ t = "gui" /\ GuiMoves(StartWaits, Connected)
                 \/ t = "timers" /\ TimMoves(StartWaits, Connected)
           \/ /\ drv = "doomed" /\ drv' = drv /\ GivesUp(t)
              /\ \/ t = "gui" /\ GuiMoves(StartWaits, scheduleConnectionTrial)
                 \/ t = "gui" /\ GuiMoves(StartWaits, Done)
                 \/ t = "timers" /\ TimMoves(StartWaits, scheduleConnectionTrial)
<1>1. At(t, "awaitStart")
  BY DEF AwaitStart
<1>2. /\ todo[t] = StartWaits /\ todo[t] # Done /\ Rest(todo[t]) = Done
      /\ (t = "gui" /\ Gui = StartWaits) \/ (t = "timers" /\ Tim = StartWaits)
  <2>1. todo[t] # Done /\ First(todo[t]) = "awaitStart"
    BY <1>1, AtIs DEF Steps
  <2>2. (t = "gui" /\ Gui = StartWaits) \/ (t = "timers" /\ Tim = StartWaits)
    <3>1. t = "gui" => Gui = StartWaits
      BY <2>1, Table DEF Gui, Shape, GuiRests, ButtonStates
    <3>2. t = "timers" => Tim = StartWaits
      BY <2>1, Table DEF Tim, Shape, TimersRests
    <3>3. t # "driver"
      BY <2>1, Table DEF Drv, Shape, DriverRests
    <3>4. QED
      BY <3>1, <3>2, <3>3 DEF Threads
  <2>3. Rest(StartWaits) = Done
    BY Table
  <2>4. QED
    BY <2>1, <2>2, <2>3 DEF Gui, Tim
<1>3. /\ \/ Refused(t) = scheduleConnectionTrial
         \/ t # "timers" /\ Refused(t) = Done
      /\ Refused(t) \in Seq(Steps)
  BY HandlersInSeq DEF Refused, Done
<1>4. CASE drv # "doomed" /\ drv' = drv /\ Then(t, Connected)
  <2>1. Goes(t, Connected)
    BY <1>2, <1>4, ThenGoes, HandlersInSeq DEF StartWaits
  <2>2. QED
    BY <1>2, <1>4, <2>1
    DEF Goes, Threads, Gui, Tim, Drv, GuiMoves, TimMoves, DrvMoves
<1>5. CASE drv = "doomed" /\ drv' = drv /\ GivesUp(t) /\ Then(t, Refused(t))
  <2>1. Goes(t, Refused(t))
    BY <1>2, <1>3, <1>5, ThenGoes
  <2>2. QED
    BY <1>2, <1>3, <1>5, <2>1
    DEF Goes, Threads, Gui, Tim, Drv, GuiMoves, TimMoves, DrvMoves
<1>6. QED
  BY <1>4, <1>5 DEF AwaitStart, others

LEMMA CloseDialogIs ==
    ASSUME TypeOK, Shape, NEW t \in Threads, CloseDialog(t)
    PROVE  \/ t = "gui" /\ GuiMoves(Settings, Replaces)
           \/ t = "gui" /\ GuiMoves(Settings, Done)
<1>1. PICK accepted \in BOOLEAN :
          At(t, "dialog") /\ todo' = [todo EXCEPT ![t] = IF accepted THEN Tail(@) ELSE <<>>]
  BY DEF CloseDialog
<1>2. todo[t] # Done /\ First(todo[t]) = "dialog"
  BY <1>1, AtIs DEF Steps
<1>3. Goes(t, Rest(todo[t])) \/ Goes(t, Done)
  BY <1>1 DEF Goes, Rest, Done, TypeOK
<1>4. QED
  BY <1>2, <1>3, Table
  DEF Threads, Goes, Gui, Tim, Drv, GuiMoves, TimMoves, DrvMoves, Shape,
     GuiRests, TimersRests, DriverRests, ButtonStates

LEMMA ReplaceProxyIs ==
    ASSUME TypeOK, Shape, NEW t \in Threads, ReplaceProxy(t)
    PROVE  /\ t = "gui" /\ GuiMoves(Replaces, SetState(button))
           /\ button \in {"DISCONNECTED", "CONNECTING", "CONNECTED"}
<1>1. At(t, "replace") /\ Then(t, SetState(button))
  BY DEF ReplaceProxy
<1>2. todo[t] # Done /\ First(todo[t]) = "replace"
  BY <1>1, AtIs DEF Steps
<1>3. t = "gui" /\ Gui = Replaces
  BY <1>2, Table
  DEF Threads, Goes, Gui, Tim, Drv, GuiMoves, TimMoves, DrvMoves, Shape,
     GuiRests, TimersRests, DriverRests, ButtonStates
<1>4. Goes(t, SetState(button))
  BY SMTT(30), <1>1, <1>2, <1>3, ThenGoes, HandlersInSeq, Table DEF Gui, TypeOK
<1>5. QED
  BY <1>3, <1>4 DEF Goes, Threads, Gui, Tim, Drv, GuiMoves, TypeOK, ButtonStates

\* The same for what begins a handler.
LEMMA ClickIs ==
    ASSUME TypeOK, Shape, Click
    PROVE  GuiMoves(Done, IF isStarted THEN closePort ELSE Clicked)
<1>1. Idle("gui") /\ Begin("gui", IF isStarted THEN closePort ELSE Clicked)
  BY DEF Click, MayBegin, Clicked
<1>2. QED
  BY <1>1, AtIs, BeginGoes DEF Goes, Threads, Gui, Tim, Drv, GuiMoves, Idle, Done

LEMMA OpenSettingsIs ==
    ASSUME TypeOK, Shape, OpenSettings
    PROVE  GuiMoves(Done, Settings)
<1>1. Idle("gui") /\ Begin("gui", Settings)
  BY DEF OpenSettings, MayBegin, Settings
<1>2. QED
  BY <1>1, AtIs, BeginGoes DEF Goes, Threads, Gui, Tim, Drv, GuiMoves, Idle, Done

LEMMA CloseApplicationIs ==
    ASSUME TypeOK, Shape, CloseApplication
    PROVE  GuiMoves(Done, Destroy)
<1>1. Idle("gui") /\ Begin("gui", Destroy)
  BY DEF CloseApplication, MayBegin
<1>2. QED
  BY <1>1, AtIs, BeginGoes DEF Goes, Threads, Gui, Tim, Drv, GuiMoves, Idle, Done

LEMMA RetryExpiresIs ==
    ASSUME TypeOK, Shape, RetryExpires
    PROVE  TimMoves(Done, tryConnect)
<1>1. Idle("timers") /\ Begin("timers", tryConnect)
  BY DEF RetryExpires, MayBegin
<1>2. QED
  BY <1>1, AtIs, BeginGoes DEF Goes, Threads, Gui, Tim, Drv, TimMoves, Idle, Done

LEMMA MeterExpiresIs ==
    ASSUME TypeOK, Shape, MeterExpires
    PROVE  TimMoves(Done, IF isOpened THEN Window ELSE NoRates)
<1>1. Idle("timers") /\ Begin("timers", IF isOpened THEN Window ELSE NoRates)
  BY DEF MeterExpires, MayBegin, NextWindow, Window, NoRates
<1>2. QED
  BY <1>1, AtIs, BeginGoes DEF Goes, Threads, Gui, Tim, Drv, TimMoves, Idle, Done

LEMMA EndpointLostIs ==
    ASSUME TypeOK, Shape, EndpointLost
    PROVE  DrvMoves(Done, onEndpointDisconnected)
<1>1. Idle("driver") /\ Begin("driver", onEndpointDisconnected)
  BY DEF EndpointLost, MayBegin
<1>2. QED
  BY <1>1, AtIs, BeginGoes DEF Goes, Threads, Gui, Tim, Drv, DrvMoves, Idle, Done

\* What the guards look at.
LEMMA IdleIs ==
    /\ Idle("gui") <=> Gui = Done
    /\ Idle("timers") <=> Tim = Done
    /\ Idle("driver") <=> Drv = Done
BY DEF Idle, Gui, Tim, Drv, Done

LEMMA InDialogIs ==
    ASSUME Shape
    PROVE  InDialog <=> Gui = Settings
<1>1. InDialog <=> Gui # Done /\ First(Gui) = "dialog"
  BY AtIs DEF InDialog, Threads, Steps, Gui
<1>2. QED
  BY <1>1, Table DEF Shape, GuiRests, TimersRests, DriverRests, ButtonStates

LEMMA ArmsIs ==
    ASSUME Shape
    PROVE  At("driver", "arm") <=> Drv = Lost5
<1>1. At("driver", "arm") <=> Drv # Done /\ First(Drv) = "arm"
  BY AtIs DEF Threads, Steps, Drv
<1>2. QED
  BY <1>1, Table DEF Shape, GuiRests, TimersRests, DriverRests, ButtonStates

\* Nobody moves.
LEMMA NoMoveIs == UNCHANGED todo => NoMove
BY DEF NoMove, Gui, Tim, Drv

\* What each action asks and does besides.
LEMMA MayStartIs ==
    ASSUME Shape, NEW t \in Threads, MayBegin(t)
    PROVE  MayStart
BY IdleIs, InDialogIs DEF MayBegin, MayStart, Threads

LEMMA ClickDoes ==
    ASSUME TypeOK, Shape, Click
    PROVE  /\ MayStart
           /\ has = Parts
           /\ UNCHANGED <<env, has, type, button, drv, retry, meter, ui, posted>>
BY MayStartIs, IdleIs
DEF Click, Threads, others

LEMMA OpenSettingsDoes ==
    ASSUME TypeOK, Shape, OpenSettings
    PROVE  /\ MayStart
           /\ has = Parts
           /\ button = "DISCONNECTED"
           /\ UNCHANGED <<env, has, type, button, drv, retry, meter, ui, posted>>
BY MayStartIs, IdleIs
DEF OpenSettings, Threads, MayEdit, others

LEMMA CloseApplicationDoes ==
    ASSUME TypeOK, Shape, CloseApplication
    PROVE  /\ MayStart
           /\ has = Parts
           /\ UNCHANGED <<env, has, type, button, drv, retry, meter, ui, posted>>
BY MayStartIs, IdleIs
DEF CloseApplication, Threads, others

LEMMA RetryExpiresDoes ==
    ASSUME TypeOK, Shape, RetryExpires
    PROVE  /\ MayStart
           /\ retry
           /\ ~retry'
           /\ "prompt" \in env => Drv = Done
           /\ UNCHANGED <<env, has, type, button, drv, meter, ui, posted>>
BY MayStartIs, IdleIs
DEF RetryExpires, Threads, others

LEMMA MeterExpiresDoes ==
    ASSUME TypeOK, Shape, MeterExpires
    PROVE  /\ MayStart
           /\ meter
           /\ ~meter'
           /\ UNCHANGED <<env, has, type, button, drv, retry, ui, posted>>
BY MayStartIs, IdleIs
DEF MeterExpires, Threads, others

LEMMA EndpointLostDoes ==
    ASSUME TypeOK, Shape, EndpointLost
    PROVE  /\ MayStart
           /\ drv \in {"on", "closing"}
           /\ "stable" \in env => Gui = Done /\ Tim = Done
           /\ UNCHANGED <<env, has, type, button, drv, retry, meter, ui, posted>>
BY MayStartIs, IdleIs
DEF EndpointLost, Threads, others

LEMMA DriverNoticesDoes ==
    ASSUME TypeOK, Shape, DriverNotices
    PROVE  /\ Drv = Done
           /\ drv \in {"closing", "doomed"}
           /\ drv' = "off"
           /\ UNCHANGED <<env, has, type, button, retry, meter, ui, posted>>
           /\ NoMove
BY IdleIs, NoMoveIs
DEF DriverNotices, others

LEMMA RunSlotDoes ==
    ASSUME TypeOK, Shape, RunSlot
    PROVE  /\ Gui \in {Done, Settings}
           /\ posted # <<>>
           /\ ui' = Shown(Head(posted))
           /\ posted' = Tail(posted)
           /\ UNCHANGED <<env, has, type, button, drv, retry, meter>>
           /\ NoMove
BY IdleIs, InDialogIs, NoMoveIs
DEF RunSlot, others

LEMMA ClickedStoppedDoes ==
    ASSUME TypeOK, Shape, NEW t \in Threads, ClickedStopped(t)
    PROVE  /\ UNCHANGED <<env, has, type, button, drv, retry, meter, ui, posted>>
BY DEF ClickedStopped, others

LEMMA StopDoes ==
    ASSUME TypeOK, Shape, NEW t \in Threads, Stop(t)
    PROVE  /\ drv' = IF isStarted THEN "closing" ELSE drv
           /\ UNCHANGED <<env, has, type, button, retry, meter, ui, posted>>
BY DEF Stop, others

LEMMA AwaitOffDoes ==
    ASSUME TypeOK, Shape, NEW t \in Threads, AwaitOff(t)
    PROVE  /\ \/ drv = "off" \/ "prompt" \notin env
              \/ t = "timers" /\ Drv = Lost5
              \/ drv = "on" /\ Drv = Done
           /\ UNCHANGED <<env, has, type, button, drv, retry, meter, ui, posted>>
BY IdleIs, ArmsIs
DEF AwaitOff, GivesUp, others

LEMMA StartDoes ==
    ASSUME TypeOK, Shape, NEW t \in Threads, Start(t)
    PROVE  /\ UNCHANGED <<env, has, type, button, retry, meter, ui, posted>>
BY DEF Start, others

LEMMA AwaitStartDoes ==
    ASSUME TypeOK, Shape, NEW t \in Threads, AwaitStart(t)
    PROVE  /\ UNCHANGED <<env, has, type, button, drv, retry, meter, ui, posted>>
BY DEF AwaitStart, others

LEMMA ArmDoes ==
    ASSUME TypeOK, Shape, NEW t \in Threads, Arm(t)
    PROVE  /\ t = "timers" \/ Tim = Done
           /\ retry' <=> "retry" \in has
           /\ UNCHANGED <<env, has, type, button, drv, meter, ui, posted>>
BY IdleIs
DEF Arm, TimersFree, others

LEMMA DisarmDoes ==
    ASSUME TypeOK, Shape, NEW t \in Threads, Disarm(t)
    PROVE  /\ t = "timers" \/ Tim = Done
           /\ ~retry'
           /\ UNCHANGED <<env, has, type, button, drv, meter, ui, posted>>
BY IdleIs
DEF Disarm, TimersFree, others

LEMMA StartMeterDoes ==
    ASSUME TypeOK, Shape, NEW t \in Threads, StartMeter(t)
    PROVE  /\ t = "timers" \/ Tim = Done
           /\ meter' <=> "meter" \in has
           /\ UNCHANGED <<env, has, type, button, drv, retry, ui, posted>>
BY IdleIs
DEF StartMeter, TimersFree, others

LEMMA SetDoes ==
    ASSUME TypeOK, Shape, NEW t \in Threads, Set(t)
    PROVE  /\ UNCHANGED <<env, has, type, drv, retry, meter, ui, posted>>
BY DEF Set, others

LEMMA PaintDoes ==
    ASSUME TypeOK, Shape, NEW t \in Threads, Paint(t)
    PROVE  /\ Emit(t, button)
           /\ UNCHANGED <<env, has, type, button, drv, retry, meter>>
BY DEF Paint, others

LEMMA CloseDialogDoes ==
    ASSUME TypeOK, Shape, NEW t \in Threads, CloseDialog(t)
    PROVE  /\ UNCHANGED <<env, has, type, button, drv, retry, meter, ui, posted>>
BY DEF CloseDialog, others

LEMMA ReplaceProxyDoes ==
    ASSUME TypeOK, Shape, NEW t \in Threads, ReplaceProxy(t)
    PROVE  /\ Drv = Done
           /\ drv' = "off"
           /\ type' \in Types
           /\ UNCHANGED <<env, has, button, retry, meter, ui, posted>>
BY IdleIs
DEF ReplaceProxy, others

LEMMA DropListenersDoes ==
    ASSUME TypeOK, Shape, NEW t \in Threads, DropListeners(t)
    PROVE  /\ has' = has \ {"listeners"}
           /\ UNCHANGED <<env, type, button, drv, retry, meter, ui, posted>>
BY DEF DropListeners, others

LEMMA DropRetryDoes ==
    ASSUME TypeOK, Shape, NEW t \in Threads, DropRetry(t)
    PROVE  /\ t = "timers" \/ Tim = Done
           /\ has' = has \ {"retry"}
           /\ ~retry'
           /\ UNCHANGED <<env, type, button, drv, meter, ui, posted>>
BY IdleIs
DEF DropRetry, TimersFree, others

LEMMA DropMeterDoes ==
    ASSUME TypeOK, Shape, NEW t \in Threads, DropMeter(t)
    PROVE  /\ t = "timers" \/ Tim = Done
           /\ has' = has \ {"meter"}
           /\ ~meter'
           /\ UNCHANGED <<env, type, button, drv, retry, ui, posted>>
BY IdleIs
DEF DropMeter, TimersFree, others

LEMMA DropProxyDoes ==
    ASSUME TypeOK, Shape, NEW t \in Threads, DropProxy(t)
    PROVE  /\ Drv = Done
           /\ has' = has \ {"proxy"}
           /\ drv' = "off"
           /\ UNCHANGED <<env, type, button, retry, meter, ui, posted>>
BY IdleIs
DEF DropProxy, others

LEMMA LeaveDoes ==
    ASSUME TypeOK, Shape, NEW t \in Threads, Leave(t)
    PROVE  /\ drv' = "off"
           /\ UNCHANGED <<env, has, type, button, retry, meter, ui, posted>>
BY DEF Leave, others

\* Signal(t) with the signal m.
SignalDoes(t, m) ==
    /\ At(t, m) /\ Then(t, <<>>)
    /\ IF m \in {"opened", "closed"} /\ "listeners" \notin has
       THEN UNCHANGED <<ui, posted>> ELSE Emit(t, m)
    /\ UNCHANGED <<env, has, type, button, drv, retry, meter>>

\* A signal step sends one signal.
LEMMA SignalIsOne ==
    ASSUME NEW t, Signal(t)
    PROVE  \E m \in Signals : SignalDoes(t, m)
BY DEF Signal, SignalDoes

---------------------------------------------------------------------------
(* Type correctness *)

\* The threads stay among the rests.
LEMMA ShapeStep ==
    TypeOK /\ Shape /\ [Next]_vars => Shape'
<1> SUFFICES ASSUME TypeOK, Shape, [Next]_vars
             PROVE  Shape'
  OBVIOUS
<1>1. CASE Click
  BY <1>1, ClickIs
  DEF GuiMoves, TimMoves, DrvMoves, Shape, GuiRests, TimersRests, DriverRests,
     ButtonStates
<1>2. CASE OpenSettings
  BY <1>2, OpenSettingsIs
  DEF GuiMoves, TimMoves, DrvMoves, Shape, GuiRests, TimersRests, DriverRests,
     ButtonStates
<1>3. CASE CloseApplication
  BY <1>3, CloseApplicationIs
  DEF GuiMoves, TimMoves, DrvMoves, Shape, GuiRests, TimersRests, DriverRests,
     ButtonStates
<1>4. CASE RetryExpires
  BY <1>4, RetryExpiresIs
  DEF GuiMoves, TimMoves, DrvMoves, Shape, GuiRests, TimersRests, DriverRests,
     ButtonStates
<1>5. CASE MeterExpires
  BY <1>5, MeterExpiresIs
  DEF GuiMoves, TimMoves, DrvMoves, Shape, GuiRests, TimersRests, DriverRests,
     ButtonStates
<1>6. CASE EndpointLost
  BY <1>6, EndpointLostIs
  DEF GuiMoves, TimMoves, DrvMoves, Shape, GuiRests, TimersRests, DriverRests,
     ButtonStates
<1>7. CASE DriverNotices
  BY <1>7, NoMoveIs
  DEF NoMove, DriverNotices, Shape, GuiRests, TimersRests, DriverRests,
     ButtonStates
<1>8. CASE RunSlot
  BY <1>8, NoMoveIs
  DEF NoMove, RunSlot, Shape, GuiRests, TimersRests, DriverRests, ButtonStates
<1>9. ASSUME NEW t \in Threads, ClickedStopped(t) PROVE Shape'
  BY <1>9, ClickedStoppedIs
  DEF GuiMoves, TimMoves, DrvMoves, Shape, GuiRests, TimersRests, DriverRests,
     ButtonStates
<1>10. ASSUME NEW t \in Threads, Stop(t) PROVE Shape'
  BY <1>10, StopIs
  DEF GuiMoves, TimMoves, DrvMoves, Shape, GuiRests, TimersRests, DriverRests,
     ButtonStates
<1>11. ASSUME NEW t \in Threads, AwaitOff(t) PROVE Shape'
  BY <1>11, AwaitOffIs
  DEF GuiMoves, TimMoves, DrvMoves, Shape, GuiRests, TimersRests, DriverRests,
     ButtonStates
<1>12. ASSUME NEW t \in Threads, Start(t) PROVE Shape'
  BY <1>12, StartIs
  DEF GuiMoves, TimMoves, DrvMoves, Shape, GuiRests, TimersRests, DriverRests,
     ButtonStates
<1>13. ASSUME NEW t \in Threads, AwaitStart(t) PROVE Shape'
  BY <1>13, AwaitStartIs
  DEF GuiMoves, TimMoves, DrvMoves, Shape, GuiRests, TimersRests, DriverRests,
     ButtonStates
<1>14. ASSUME NEW t \in Threads, Arm(t) PROVE Shape'
  BY <1>14, ArmIs
  DEF GuiMoves, TimMoves, DrvMoves, Shape, GuiRests, TimersRests, DriverRests,
     ButtonStates
<1>15. ASSUME NEW t \in Threads, Disarm(t) PROVE Shape'
  BY <1>15, DisarmIs
  DEF GuiMoves, TimMoves, DrvMoves, Shape, GuiRests, TimersRests, DriverRests,
     ButtonStates
<1>16. ASSUME NEW t \in Threads, StartMeter(t) PROVE Shape'
  BY <1>16, StartMeterIs
  DEF GuiMoves, TimMoves, DrvMoves, Shape, GuiRests, TimersRests, DriverRests,
     ButtonStates
<1>17. ASSUME NEW t \in Threads, Set(t) PROVE Shape'
  BY <1>17, SetIs
  DEF GuiMoves, TimMoves, DrvMoves, Shape, GuiRests, TimersRests, DriverRests,
     ButtonStates
<1>18. ASSUME NEW t \in Threads, Paint(t) PROVE Shape'
  BY <1>18, PaintIs
  DEF GuiMoves, TimMoves, DrvMoves, Shape, GuiRests, TimersRests, DriverRests,
     ButtonStates
<1>19. ASSUME NEW t \in Threads, Signal(t) PROVE Shape'
  <2>1. PICK m \in Signals : At(t, m) /\ Then(t, <<>>) /\ UNCHANGED <<env, has, type, button, drv, retry, meter>>
    BY <1>19 DEF Signal
  <2>2. QED
    BY <2>1, SignalIs
    DEF GuiMoves, TimMoves, DrvMoves, Shape, GuiRests, TimersRests,
     DriverRests, ButtonStates
<1>20. ASSUME NEW t \in Threads, CloseDialog(t) PROVE Shape'
  BY <1>20, CloseDialogIs
  DEF GuiMoves, TimMoves, DrvMoves, Shape, GuiRests, TimersRests, DriverRests,
     ButtonStates
<1>21. ASSUME NEW t \in Threads, ReplaceProxy(t) PROVE Shape'
  BY <1>21, ReplaceProxyIs
  DEF GuiMoves, TimMoves, DrvMoves, TypeOK, Shape, GuiRests, TimersRests,
     DriverRests, ButtonStates
<1>22. ASSUME NEW t \in Threads, DropListeners(t) PROVE Shape'
  BY <1>22, DropListenersIs
  DEF GuiMoves, TimMoves, DrvMoves, Shape, GuiRests, TimersRests, DriverRests,
     ButtonStates
<1>23. ASSUME NEW t \in Threads, DropRetry(t) PROVE Shape'
  BY <1>23, DropRetryIs
  DEF GuiMoves, TimMoves, DrvMoves, Shape, GuiRests, TimersRests, DriverRests,
     ButtonStates
<1>24. ASSUME NEW t \in Threads, DropMeter(t) PROVE Shape'
  BY <1>24, DropMeterIs
  DEF GuiMoves, TimMoves, DrvMoves, Shape, GuiRests, TimersRests, DriverRests,
     ButtonStates
<1>25. ASSUME NEW t \in Threads, DropProxy(t) PROVE Shape'
  BY <1>25, DropProxyIs
  DEF GuiMoves, TimMoves, DrvMoves, Shape, GuiRests, TimersRests, DriverRests,
     ButtonStates
<1>26. ASSUME NEW t \in Threads, Leave(t) PROVE Shape'
  BY <1>26, LeaveIs
  DEF GuiMoves, TimMoves, DrvMoves, Shape, GuiRests, TimersRests, DriverRests,
     ButtonStates
<1>27. CASE UNCHANGED vars
  BY <1>27, NoMoveIs
  DEF vars, NoMove, Shape, GuiRests, TimersRests, DriverRests, ButtonStates
<1>28. QED
  BY <1>1, <1>2, <1>3, <1>4, <1>5, <1>6, <1>7, <1>8, <1>9, <1>10, <1>11,
     <1>12, <1>13, <1>14, <1>15, <1>16, <1>17, <1>18, <1>19, <1>20, <1>21,
     <1>22, <1>23, <1>24, <1>25, <1>26, <1>27 DEF Next, Step, Gone

\* The parts of TypeOK.
StateOK ==
    /\ env \in Env /\ has \subseteq Parts /\ type \in Types /\ button \in ButtonStates
    /\ drv \in DriverStates /\ retry \in BOOLEAN /\ meter \in BOOLEAN

ScreenOK ==
    /\ ui \in [colour : ButtonStates, combo : Nat, rate : BOOLEAN]
    /\ posted \in Seq(ButtonStates \union Signals)

\* The state proper keeps its types...
LEMMA StateStep ==
    TypeOK /\ Shape /\ StateOK /\ [Next]_vars => StateOK'
<1> SUFFICES ASSUME TypeOK, Shape, StateOK, [Next]_vars
             PROVE  StateOK'
  OBVIOUS
<1>1. CASE Click
  BY <1>1, ClickIs
  DEF Click, others, MayBegin, StateOK, ButtonStates, DriverStates
<1>2. CASE OpenSettings
  BY <1>2, OpenSettingsIs
  DEF OpenSettings, others, MayBegin, StateOK, ButtonStates, DriverStates
<1>3. CASE CloseApplication
  BY <1>3, CloseApplicationIs
  DEF CloseApplication, others, MayBegin, StateOK, ButtonStates, DriverStates
<1>4. CASE RetryExpires
  BY <1>4, RetryExpiresIs
  DEF RetryExpires, others, MayBegin, StateOK, ButtonStates, DriverStates
<1>5. CASE MeterExpires
  BY <1>5, MeterExpiresIs
  DEF MeterExpires, others, MayBegin, StateOK, ButtonStates, DriverStates
<1>6. CASE EndpointLost
  BY <1>6, EndpointLostIs
  DEF EndpointLost, others, MayBegin, StateOK, ButtonStates, DriverStates
<1>7. CASE DriverNotices
  BY <1>7, NoMoveIs
  DEF DriverNotices, NoMove, others, StateOK, ButtonStates, DriverStates
<1>8. CASE RunSlot
  BY <1>8, NoMoveIs
  DEF RunSlot, NoMove, others, StateOK, ButtonStates, DriverStates
<1>9. ASSUME NEW t \in Threads, ClickedStopped(t) PROVE StateOK'
  BY <1>9, ClickedStoppedIs
  DEF ClickedStopped, others, StateOK, ButtonStates, DriverStates
<1>10. ASSUME NEW t \in Threads, Stop(t) PROVE StateOK'
  BY <1>10, StopIs
  DEF Stop, others, StateOK, ButtonStates, DriverStates
<1>11. ASSUME NEW t \in Threads, AwaitOff(t) PROVE StateOK'
  BY <1>11, AwaitOffIs
  DEF AwaitOff, others, StateOK, ButtonStates, DriverStates
<1>12. ASSUME NEW t \in Threads, Start(t) PROVE StateOK'
  BY <1>12, StartIs
  DEF Start, others, StateOK, ButtonStates, DriverStates
<1>13. ASSUME NEW t \in Threads, AwaitStart(t) PROVE StateOK'
  BY <1>13, AwaitStartIs
  DEF AwaitStart, others, StateOK, ButtonStates, DriverStates
<1>14. ASSUME NEW t \in Threads, Arm(t) PROVE StateOK'
  BY <1>14 DEF Arm, others, StateOK
<1>15. ASSUME NEW t \in Threads, Disarm(t) PROVE StateOK'
  BY <1>15, DisarmIs
  DEF Disarm, others, StateOK, ButtonStates, DriverStates
<1>16. ASSUME NEW t \in Threads, StartMeter(t) PROVE StateOK'
  BY <1>16 DEF StartMeter, others, StateOK
<1>17. ASSUME NEW t \in Threads, Set(t) PROVE StateOK'
  BY <1>17, SetIs
  DEF Set, others, StateOK, ButtonStates, DriverStates
<1>18. ASSUME NEW t \in Threads, Paint(t) PROVE StateOK'
  BY <1>18, PaintIs
  DEF Paint, others, StateOK, ButtonStates, DriverStates
<1>19. ASSUME NEW t \in Threads, Signal(t) PROVE StateOK'
  BY <1>19 DEF Signal, StateOK
<1>20. ASSUME NEW t \in Threads, CloseDialog(t) PROVE StateOK'
  BY <1>20, CloseDialogIs
  DEF CloseDialog, others, StateOK, ButtonStates, DriverStates
<1>21. ASSUME NEW t \in Threads, ReplaceProxy(t) PROVE StateOK'
  BY <1>21, ReplaceProxyIs
  DEF ReplaceProxy, others, StateOK, ButtonStates, DriverStates
<1>22. ASSUME NEW t \in Threads, DropListeners(t) PROVE StateOK'
  BY <1>22, DropListenersIs
  DEF DropListeners, others, StateOK, ButtonStates, DriverStates
<1>23. ASSUME NEW t \in Threads, DropRetry(t) PROVE StateOK'
  BY <1>23, DropRetryIs
  DEF DropRetry, others, StateOK, ButtonStates, DriverStates
<1>24. ASSUME NEW t \in Threads, DropMeter(t) PROVE StateOK'
  BY <1>24, DropMeterIs
  DEF DropMeter, others, StateOK, ButtonStates, DriverStates
<1>25. ASSUME NEW t \in Threads, DropProxy(t) PROVE StateOK'
  BY <1>25, DropProxyIs
  DEF DropProxy, others, StateOK, ButtonStates, DriverStates
<1>26. ASSUME NEW t \in Threads, Leave(t) PROVE StateOK'
  BY <1>26, LeaveIs
  DEF Leave, others, StateOK, ButtonStates, DriverStates
<1>27. CASE UNCHANGED vars
  BY <1>27, NoMoveIs
  DEF vars, NoMove, StateOK, ButtonStates, DriverStates
<1>28. QED
  BY <1>1, <1>2, <1>3, <1>4, <1>5, <1>6, <1>7, <1>8, <1>9, <1>10, <1>11,
     <1>12, <1>13, <1>14, <1>15, <1>16, <1>17, <1>18, <1>19, <1>20, <1>21,
     <1>22, <1>23, <1>24, <1>25, <1>26, <1>27 DEF Next, Step, Gone

\* ... what is shown and posted keeps them...
LEMMA ShownOK ==
    ASSUME TypeOK, NEW m \in ButtonStates \union Signals
    PROVE  Shown(m) \in [colour : ButtonStates, combo : Nat, rate : BOOLEAN]
<1>1. ui.colour \in ButtonStates /\ ui.combo \in Nat /\ ui.rate \in BOOLEAN
  BY DEF TypeOK
<1>2. Added(ui.combo) \in Nat /\ Removed(ui.combo) \in Nat
  BY <1>1 DEF Added, Removed
<1>3. QED
  BY <1>1, <1>2 DEF Shown

LEMMA EmitOK ==
    ASSUME TypeOK, NEW t, NEW m \in ButtonStates \union Signals, Emit(t, m)
    PROVE  ScreenOK'
<1>1. ScreenOK
  BY DEF TypeOK, ScreenOK
<1>2. CASE t = "gui"
  BY <1>1, <1>2, ShownOK DEF Emit, ScreenOK
<1>3. CASE t # "gui"
  BY <1>1, <1>3 DEF Emit, ScreenOK
<1>4. QED
  BY <1>2, <1>3

\* Every action keeps their types.
LEMMA ScreenStep ==
    TypeOK /\ Shape /\ ScreenOK /\ [Next]_vars => ScreenOK'
<1> SUFFICES ASSUME TypeOK, Shape, ScreenOK, [Next]_vars
             PROVE  ScreenOK'
  OBVIOUS
<1>1. CASE Click
  BY <1>1, ClickIs
  DEF Click, others, MayBegin, ScreenOK
<1>2. CASE OpenSettings
  BY <1>2, OpenSettingsIs
  DEF OpenSettings, others, MayBegin, ScreenOK
<1>3. CASE CloseApplication
  BY <1>3, CloseApplicationIs
  DEF CloseApplication, others, MayBegin, ScreenOK
<1>4. CASE RetryExpires
  BY <1>4, RetryExpiresIs
  DEF RetryExpires, others, MayBegin, ScreenOK
<1>5. CASE MeterExpires
  BY <1>5, MeterExpiresIs
  DEF MeterExpires, others, MayBegin, ScreenOK
<1>6. CASE EndpointLost
  BY <1>6, EndpointLostIs
  DEF EndpointLost, others, MayBegin, ScreenOK
<1>7. CASE DriverNotices
  BY <1>7, NoMoveIs
  DEF DriverNotices, NoMove, others, ScreenOK
<1>8. CASE RunSlot
  <2>1. Head(posted) \in ButtonStates \union Signals /\ Tail(posted) \in Seq(ButtonStates \union Signals)
    BY <1>8 DEF RunSlot, ScreenOK
  <2>2. QED
    BY <1>8, <2>1, ShownOK DEF RunSlot, ScreenOK
<1>9. ASSUME NEW t \in Threads, ClickedStopped(t) PROVE ScreenOK'
  BY <1>9, ClickedStoppedIs
  DEF ClickedStopped, others, ScreenOK
<1>10. ASSUME NEW t \in Threads, Stop(t) PROVE ScreenOK'
  BY <1>10, StopIs
  DEF Stop, others, ScreenOK
<1>11. ASSUME NEW t \in Threads, AwaitOff(t) PROVE ScreenOK'
  BY <1>11, AwaitOffIs
  DEF AwaitOff, others, ScreenOK
<1>12. ASSUME NEW t \in Threads, Start(t) PROVE ScreenOK'
  BY <1>12, StartIs
  DEF Start, others, ScreenOK
<1>13. ASSUME NEW t \in Threads, AwaitStart(t) PROVE ScreenOK'
  BY <1>13, AwaitStartIs
  DEF AwaitStart, others, ScreenOK
<1>14. ASSUME NEW t \in Threads, Arm(t) PROVE ScreenOK'
  BY <1>14, ArmIs
  DEF Arm, others, ScreenOK
<1>15. ASSUME NEW t \in Threads, Disarm(t) PROVE ScreenOK'
  BY <1>15, DisarmIs
  DEF Disarm, others, ScreenOK
<1>16. ASSUME NEW t \in Threads, StartMeter(t) PROVE ScreenOK'
  BY <1>16, StartMeterIs
  DEF StartMeter, others, ScreenOK
<1>17. ASSUME NEW t \in Threads, Set(t) PROVE ScreenOK'
  BY <1>17, SetIs
  DEF Set, others, ScreenOK
<1>18. ASSUME NEW t \in Threads, Paint(t) PROVE ScreenOK'
  BY <1>18, EmitOK DEF Paint, TypeOK
<1>19. ASSUME NEW t \in Threads, Signal(t) PROVE ScreenOK'
  BY <1>19, EmitOK DEF Signal, ScreenOK
<1>20. ASSUME NEW t \in Threads, CloseDialog(t) PROVE ScreenOK'
  BY <1>20, CloseDialogIs
  DEF CloseDialog, others, ScreenOK
<1>21. ASSUME NEW t \in Threads, ReplaceProxy(t) PROVE ScreenOK'
  BY <1>21, ReplaceProxyIs
  DEF ReplaceProxy, others, ScreenOK
<1>22. ASSUME NEW t \in Threads, DropListeners(t) PROVE ScreenOK'
  BY <1>22, DropListenersIs
  DEF DropListeners, others, ScreenOK
<1>23. ASSUME NEW t \in Threads, DropRetry(t) PROVE ScreenOK'
  BY <1>23, DropRetryIs
  DEF DropRetry, others, ScreenOK
<1>24. ASSUME NEW t \in Threads, DropMeter(t) PROVE ScreenOK'
  BY <1>24, DropMeterIs
  DEF DropMeter, others, ScreenOK
<1>25. ASSUME NEW t \in Threads, DropProxy(t) PROVE ScreenOK'
  BY <1>25, DropProxyIs
  DEF DropProxy, others, ScreenOK
<1>26. ASSUME NEW t \in Threads, Leave(t) PROVE ScreenOK'
  BY <1>26, LeaveIs
  DEF Leave, others, ScreenOK
<1>27. CASE UNCHANGED vars
  BY <1>27, NoMoveIs
  DEF vars, NoMove, ScreenOK
<1>28. QED
  BY <1>1, <1>2, <1>3, <1>4, <1>5, <1>6, <1>7, <1>8, <1>9, <1>10, <1>11,
     <1>12, <1>13, <1>14, <1>15, <1>16, <1>17, <1>18, <1>19, <1>20, <1>21,
     <1>22, <1>23, <1>24, <1>25, <1>26, <1>27 DEF Next, Step, Gone

\* ... and so do the handlers.
LEMMA RestsInSeq == GuiRests \union TimersRests \union DriverRests \subseteq Seq(Steps)
BY HandlerFacts, RestFacts, DestroyFacts, SetStateFacts, EmptyFacts
DEF GuiRests, TimersRests, DriverRests, ButtonStates, Done

\* The table of handlers keeps its domain.
LEMMA TodoStep == TypeOK /\ Shape /\ Shape' /\ [Next]_vars => todo' \in [Threads -> Seq(Steps)]
<1> SUFFICES ASSUME TypeOK, Shape, Shape', [Next]_vars
             PROVE  todo' \in [Threads -> Seq(Steps)]
  OBVIOUS
<1>1. UNCHANGED todo \/ \E t \in Threads : \E e : todo' = [todo EXCEPT ![t] = e]
  <2> DEFINE Moves == \E t \in Threads : \E e : todo' = [todo EXCEPT ![t] = e]
  <2>1. CASE \/ Click \/ OpenSettings \/ CloseApplication \/ Gone \/ RetryExpires
             \/ MeterExpires \/ EndpointLost \/ DriverNotices \/ RunSlot
    <3>1. {"gui", "timers", "driver"} \subseteq Threads
      BY DEF Threads
    <3>2. UNCHANGED todo \/ \E t \in {"gui", "timers", "driver"} : \E e : todo' = [todo EXCEPT ![t] = e]
      BY <2>1
      DEF Begin, Click, OpenSettings, CloseApplication, RetryExpires, MeterExpires,
          EndpointLost, DriverNotices, RunSlot, Gone, vars
    <3>3. QED
      BY <3>1, <3>2
  <2>2. ASSUME NEW t \in Threads, Step(t) PROVE UNCHANGED todo \/ Moves
    <3>1. UNCHANGED todo \/ \E e : todo' = [todo EXCEPT ![t] = e]
      <4>1. CASE ClickedStopped(t) \/ Stop(t) \/ AwaitOff(t) \/ Start(t) \/ AwaitStart(t)
                 \/ Arm(t) \/ Disarm(t) \/ StartMeter(t) \/ Set(t)
        BY <4>1 DEF Then, ClickedStopped, Stop, AwaitOff, Start, AwaitStart, Arm, Disarm,
                    StartMeter, Set
      <4>2. CASE Paint(t) \/ Signal(t) \/ CloseDialog(t) \/ ReplaceProxy(t) \/ Leave(t)
                 \/ DropListeners(t) \/ DropRetry(t) \/ DropMeter(t) \/ DropProxy(t)
        BY <4>2 DEF Then, Paint, Signal, CloseDialog, ReplaceProxy, Leave, DropListeners,
                    DropRetry, DropMeter, DropProxy
      <4>3. QED
        BY <2>2, <4>1, <4>2 DEF Step
    <3>2. QED
      BY <3>1
  <2>3. QED
    BY <2>1, <2>2 DEF Next, vars
<1>2. todo \in [Threads -> Seq(Steps)]
  BY DEF TypeOK
<1>3. \A t \in Threads : todo'[t] \in Seq(Steps)
  BY RestsInSeq DEF Shape, Gui, Tim, Drv, Threads
<1>4. QED
  BY <1>1, <1>2, <1>3

\* All of TypeOK.
LEMMA TypeStep == TypeOK /\ Shape /\ [Next]_vars => TypeOK'
<1> SUFFICES ASSUME TypeOK, Shape, [Next]_vars PROVE TypeOK'
  OBVIOUS
<1>1. StateOK /\ ScreenOK
  BY DEF TypeOK, StateOK, ScreenOK
<1>2. StateOK' /\ ScreenOK' /\ Shape'
  BY <1>1, StateStep, ScreenStep, ShapeStep
<1>3. QED
  BY <1>2, TodoStep DEF TypeOK, StateOK, ScreenOK

\* The rests differ in their first step or their length.
LEMMA Apart ==
    /\ Left(Done) = 0
    /\ First(closePort) = "stop" /\ Left(closePort) = 5
    /\ First(CloseWaits) = "awaitOff" /\ Left(CloseWaits) = 4
    /\ First(abortTrials) = "disarm" /\ Left(abortTrials) = 4
    /\ First(Disconnects) = "DISCONNECTED" /\ Left(Disconnects) = 3
    /\ First(ShowsClosed) = "paint" /\ Left(ShowsClosed) = 2
    /\ First(SaysClosed) = "closed" /\ Left(SaysClosed) = 1
    /\ First(tryConnect) = "stop" /\ Left(tryConnect) = 3
    /\ First(TryWaits) = "awaitOff" /\ Left(TryWaits) = 2
    /\ First(TryStarts) = "start" /\ Left(TryStarts) = 1
    /\ First(StartWaits) = "awaitStart" /\ Left(StartWaits) = 1
    /\ First(Connected) = "disarm" /\ Left(Connected) = 5
    /\ First(Connects) = "CONNECTED" /\ Left(Connects) = 4
    /\ First(ShowsOpened) = "paint" /\ Left(ShowsOpened) = 3
    /\ First(SaysOpened) = "opened" /\ Left(SaysOpened) = 2
    /\ First(Measures) = "startMeter" /\ Left(Measures) = 1
    /\ First(scheduleConnectionTrial) = "arm" /\ Left(scheduleConnectionTrial) = 4
    /\ First(Schedules) = "CONNECTING" /\ Left(Schedules) = 3
    /\ First(Clicked) = "clickedStopped" /\ Left(Clicked) = 1
    /\ First(Settings) = "dialog" /\ Left(Settings) = 2
    /\ First(Replaces) = "replace" /\ Left(Replaces) = 1
    /\ First(Paints) = "paint" /\ Left(Paints) = 1
    /\ First(Destroy) = "dropListeners" /\ Left(Destroy) = 6
    /\ First(DropsRetry) = "dropRetry" /\ Left(DropsRetry) = 5
    /\ First(DropsMeter) = "dropMeter" /\ Left(DropsMeter) = 4
    /\ First(DropsProxy) = "dropProxy" /\ Left(DropsProxy) = 3
    /\ First(Window) = "startMeter" /\ Left(Window) = 2
    /\ First(Rates) = "rate" /\ Left(Rates) = 1
    /\ First(NoRates) = "norate" /\ Left(NoRates) = 1
    /\ First(onEndpointDisconnected) = "CONNECTING" /\ Left(onEndpointDisconnected) = 8
    /\ First(Lost7) = "paint" /\ Left(Lost7) = 7
    /\ First(Lost6) = "closed" /\ Left(Lost6) = 6
    /\ First(Lost5) = "arm" /\ Left(Lost5) = 5
    /\ First(Lost4) = "CONNECTING" /\ Left(Lost4) = 4
    /\ First(Lost3) = "paint" /\ Left(Lost3) = 3
    /\ First(Lost2) = "closed" /\ Left(Lost2) = 2
    /\ First(Lost1) = "leave" /\ Left(Lost1) = 1
    /\ First(SetState("DISCONNECTED")) = "DISCONNECTED" /\ Left(SetState("DISCONNECTED")) = 2
    /\ First(SetState("CONNECTING")) = "CONNECTING" /\ Left(SetState("CONNECTING")) = 2
    /\ First(SetState("CONNECTED")) = "CONNECTED" /\ Left(SetState("CONNECTED")) = 2
BY Table DEF ButtonStates

---------------------------------------------------------------------------
(* Every environment *)

\* What the destructor leaves, part by part.
LEMMA PartsFacts ==
    /\ "retry" \in Parts /\ "meter" \in Parts /\ "proxy" \in Parts /\ "listeners" \in Parts
    /\ "retry" \in Unheard /\ "meter" \in Unheard /\ "proxy" \in Unheard /\ "listeners" \notin Unheard
    /\ "retry" \notin Untried /\ "meter" \in Untried /\ "proxy" \in Untried /\ "listeners" \notin Untried
    /\ "retry" \notin Unmetered /\ "meter" \notin Unmetered /\ "proxy" \in Unmetered /\ "listeners" \notin Unmetered
    /\ "retry" \notin Nothing /\ "meter" \notin Nothing /\ "proxy" \notin Nothing /\ "listeners" \notin Nothing
    /\ Parts \ {"listeners"} = Unheard
    /\ Unheard \ {"retry"} = Untried
    /\ Untried \ {"meter"} = Unmetered
    /\ Unmetered \ {"proxy"} = Nothing
BY DEF Parts, Unheard, Untried, Unmetered, Nothing

\* ~Port() takes the parts down in its order, and nobody uses what is gone.
LEMMA TeardownStep == TypeOK /\ Shape /\ Teardown /\ [Next]_vars => Teardown'
<1> SUFFICES ASSUME TypeOK, Shape, Teardown, [Next]_vars
             PROVE  Teardown'
  OBVIOUS
<1> USE Apart, PartsFacts
    DEF GuiMoves, TimMoves, DrvMoves, NoMove, Teardown, Measuring,
     ButtonStates
<1>1. CASE Click
  BY <1>1, ClickIs, ClickDoes
<1>2. CASE OpenSettings
  BY <1>2, OpenSettingsIs, OpenSettingsDoes
<1>3. CASE CloseApplication
  BY <1>3, CloseApplicationIs, CloseApplicationDoes
<1>4. CASE RetryExpires
  BY <1>4, RetryExpiresIs, RetryExpiresDoes
<1>5. CASE MeterExpires
  BY <1>5, MeterExpiresIs, MeterExpiresDoes
<1>6. CASE EndpointLost
  BY <1>6, EndpointLostIs, EndpointLostDoes
<1>7. CASE DriverNotices
  BY <1>7, DriverNoticesDoes
<1>8. CASE RunSlot
  BY <1>8, RunSlotDoes
<1>9. ASSUME NEW t \in Threads, ClickedStopped(t) PROVE Teardown'
  BY <1>9, ClickedStoppedIs, ClickedStoppedDoes
<1>10. ASSUME NEW t \in Threads, Stop(t) PROVE Teardown'
  BY <1>10, StopIs, StopDoes
<1>11. ASSUME NEW t \in Threads, AwaitOff(t) PROVE Teardown'
  BY <1>11, AwaitOffIs, AwaitOffDoes
<1>12. ASSUME NEW t \in Threads, Start(t) PROVE Teardown'
  BY <1>12, StartIs, StartDoes
<1>13. ASSUME NEW t \in Threads, AwaitStart(t) PROVE Teardown'
  BY <1>13, AwaitStartIs, AwaitStartDoes
<1>14. ASSUME NEW t \in Threads, Arm(t) PROVE Teardown'
  BY <1>14, ArmIs, ArmDoes
<1>15. ASSUME NEW t \in Threads, Disarm(t) PROVE Teardown'
  BY <1>15, DisarmIs, DisarmDoes
<1>16. ASSUME NEW t \in Threads, StartMeter(t) PROVE Teardown'
  BY <1>16, StartMeterIs, StartMeterDoes
<1>17. ASSUME NEW t \in Threads, Set(t) PROVE Teardown'
  BY <1>17, SetIs, SetDoes
<1>18. ASSUME NEW t \in Threads, Paint(t) PROVE Teardown'
  BY <1>18, PaintIs, PaintDoes
<1>19. ASSUME NEW t \in Threads, Signal(t) PROVE Teardown'
  <2>1. PICK m \in Signals : SignalDoes(t, m)
    BY <1>19, SignalIsOne
  <2>2. QED
    BY <2>1, SignalIs DEF SignalDoes
<1>20. ASSUME NEW t \in Threads, CloseDialog(t) PROVE Teardown'
  BY <1>20, CloseDialogIs, CloseDialogDoes
<1>21. ASSUME NEW t \in Threads, ReplaceProxy(t) PROVE Teardown'
  BY <1>21, ReplaceProxyIs, ReplaceProxyDoes
<1>22. ASSUME NEW t \in Threads, DropListeners(t) PROVE Teardown'
  BY <1>22, DropListenersIs, DropListenersDoes
<1>23. ASSUME NEW t \in Threads, DropRetry(t) PROVE Teardown'
  BY <1>23, DropRetryIs, DropRetryDoes
<1>24. ASSUME NEW t \in Threads, DropMeter(t) PROVE Teardown'
  BY <1>24, DropMeterIs, DropMeterDoes
<1>25. ASSUME NEW t \in Threads, DropProxy(t) PROVE Teardown'
  BY <1>25, DropProxyIs, DropProxyDoes
<1>26. ASSUME NEW t \in Threads, Leave(t) PROVE Teardown'
  BY <1>26, LeaveIs, LeaveDoes
<1>27. CASE UNCHANGED vars
  BY <1>27, NoMoveIs DEF vars
<1>28. QED
  BY <1>1, <1>2, <1>3, <1>4, <1>5, <1>6, <1>7, <1>8, <1>9, <1>10, <1>11,
     <1>12, <1>13, <1>14, <1>15, <1>16, <1>17, <1>18, <1>19, <1>20, <1>21,
     <1>22, <1>23, <1>24, <1>25, <1>26, <1>27 DEF Next, Step, Gone

\* A connected port is metered.
LEMMA MeteredStep ==
    TypeOK /\ Shape /\ Teardown /\ Metered /\ [Next]_vars => Metered'
<1> SUFFICES ASSUME TypeOK, Shape, Teardown, Metered, [Next]_vars
             PROVE  Metered'
  OBVIOUS
<1> USE Apart, PartsFacts
    DEF GuiMoves, TimMoves, DrvMoves, NoMove, Metered, Teardown, isOpened
<1>1. CASE Click
  BY <1>1, ClickIs, ClickDoes
<1>2. CASE OpenSettings
  BY <1>2, OpenSettingsIs, OpenSettingsDoes
<1>3. CASE CloseApplication
  BY <1>3, CloseApplicationIs, CloseApplicationDoes
<1>4. CASE RetryExpires
  BY <1>4, RetryExpiresIs, RetryExpiresDoes
<1>5. CASE MeterExpires
  BY <1>5, MeterExpiresIs, MeterExpiresDoes
<1>6. CASE EndpointLost
  BY <1>6, EndpointLostIs, EndpointLostDoes
<1>7. CASE DriverNotices
  BY <1>7, DriverNoticesDoes
<1>8. CASE RunSlot
  BY <1>8, RunSlotDoes
<1>9. ASSUME NEW t \in Threads, ClickedStopped(t) PROVE Metered'
  BY <1>9, ClickedStoppedIs, ClickedStoppedDoes
<1>10. ASSUME NEW t \in Threads, Stop(t) PROVE Metered'
  BY <1>10, StopIs, StopDoes
<1>11. ASSUME NEW t \in Threads, AwaitOff(t) PROVE Metered'
  BY <1>11, AwaitOffIs, AwaitOffDoes
<1>12. ASSUME NEW t \in Threads, Start(t) PROVE Metered'
  BY <1>12, StartIs, StartDoes
<1>13. ASSUME NEW t \in Threads, AwaitStart(t) PROVE Metered'
  BY <1>13, AwaitStartIs, AwaitStartDoes
<1>14. ASSUME NEW t \in Threads, Arm(t) PROVE Metered'
  BY <1>14, ArmIs, ArmDoes
<1>15. ASSUME NEW t \in Threads, Disarm(t) PROVE Metered'
  BY <1>15, DisarmIs, DisarmDoes
<1>16. ASSUME NEW t \in Threads, StartMeter(t) PROVE Metered'
  BY <1>16, StartMeterIs, StartMeterDoes
<1>17. ASSUME NEW t \in Threads, Set(t) PROVE Metered'
  BY <1>17, SetIs, SetDoes
<1>18. ASSUME NEW t \in Threads, Paint(t) PROVE Metered'
  BY <1>18, PaintIs, PaintDoes
<1>19. ASSUME NEW t \in Threads, Signal(t) PROVE Metered'
  <2>1. PICK m \in Signals : SignalDoes(t, m)
    BY <1>19, SignalIsOne
  <2>2. QED
    BY <2>1, SignalIs DEF SignalDoes
<1>20. ASSUME NEW t \in Threads, CloseDialog(t) PROVE Metered'
  BY <1>20, CloseDialogIs, CloseDialogDoes
<1>21. ASSUME NEW t \in Threads, ReplaceProxy(t) PROVE Metered'
  BY <1>21, ReplaceProxyIs, ReplaceProxyDoes
<1>22. ASSUME NEW t \in Threads, DropListeners(t) PROVE Metered'
  BY <1>22, DropListenersIs, DropListenersDoes
<1>23. ASSUME NEW t \in Threads, DropRetry(t) PROVE Metered'
  BY <1>23, DropRetryIs, DropRetryDoes
<1>24. ASSUME NEW t \in Threads, DropMeter(t) PROVE Metered'
  BY <1>24, DropMeterIs, DropMeterDoes
<1>25. ASSUME NEW t \in Threads, DropProxy(t) PROVE Metered'
  BY <1>25, DropProxyIs, DropProxyDoes
<1>26. ASSUME NEW t \in Threads, Leave(t) PROVE Metered'
  BY <1>26, LeaveIs, LeaveDoes
<1>27. CASE UNCHANGED vars
  BY <1>27, NoMoveIs DEF vars
<1>28. QED
  BY <1>1, <1>2, <1>3, <1>4, <1>5, <1>6, <1>7, <1>8, <1>9, <1>10, <1>11,
     <1>12, <1>13, <1>14, <1>15, <1>16, <1>17, <1>18, <1>19, <1>20, <1>21,
     <1>22, <1>23, <1>24, <1>25, <1>26, <1>27 DEF Next, Step, Gone

\* The environments are nested.
LEMMA EnvIs ==
    ASSUME TypeOK
    PROVE  /\ "stable" \in env => "prompt" \in env
           /\ "calm" \in env => "stable" \in env
BY DEF TypeOK, Env

\* The states, one by one.
LEMMA StatesAre ==
    ASSUME TypeOK
    PROVE  /\ drv \in {"off", "on", "closing", "doomed"}
           /\ button \in {"DISCONNECTED", "CONNECTING", "CONNECTED"}
BY DEF TypeOK, DriverStates, ButtonStates

---------------------------------------------------------------------------
(* A stable environment *)

\* The retry timer runs exactly for the trials.
LEMMA TrialsStep == TypeOK /\ Shape /\ Teardown /\ Trials /\ [Next]_vars => Trials'
<1> SUFFICES ASSUME TypeOK, Shape, Teardown, Trials, [Next]_vars
             PROVE  Trials'
  OBVIOUS
<1> USE Apart
    DEF GuiMoves, TimMoves, DrvMoves, NoMove, Trials, TrialOn, Trying,
     isStarted, MayStart
<1>1. CASE Click
  BY <1>1, ClickIs, ClickDoes
<1>2. CASE OpenSettings
  BY <1>2, OpenSettingsIs, OpenSettingsDoes
<1>3. CASE CloseApplication
  BY <1>3, CloseApplicationIs, CloseApplicationDoes
<1>4. CASE RetryExpires
  BY <1>4, RetryExpiresIs, RetryExpiresDoes
<1>5. CASE MeterExpires
  BY <1>5, MeterExpiresIs, MeterExpiresDoes
<1>6. CASE EndpointLost
  BY <1>6, EndpointLostIs, EndpointLostDoes
<1>7. CASE DriverNotices
  BY <1>7, DriverNoticesDoes
<1>8. CASE RunSlot
  BY <1>8, RunSlotDoes
<1>9. ASSUME NEW t \in Threads, ClickedStopped(t) PROVE Trials'
  BY <1>9, ClickedStoppedIs, ClickedStoppedDoes
<1>10. ASSUME NEW t \in Threads, Stop(t) PROVE Trials'
  <2>1. CASE t = "gui" /\ GuiMoves(closePort, CloseWaits) /\ isStarted
    BY StatesAre, <1>10, <2>1, StopDoes
  <2>2. CASE t = "gui" /\ GuiMoves(tryConnect, TryWaits) /\ isStarted
    BY StatesAre, <1>10, <2>2, StopDoes
  <2>3. CASE t = "timers" /\ TimMoves(tryConnect, TryWaits) /\ isStarted
    BY StatesAre, <1>10, <2>3, StopDoes
  <2>4. CASE t = "gui" /\ GuiMoves(closePort, Disconnects) /\ ~isStarted
    BY StatesAre, <1>10, <2>4, StopDoes
  <2>5. CASE t = "gui" /\ GuiMoves(tryConnect, TryStarts) /\ ~isStarted
    BY StatesAre, <1>10, <2>5, StopDoes
  <2>6. CASE t = "timers" /\ TimMoves(tryConnect, TryStarts) /\ ~isStarted
    BY StatesAre, <1>10, <2>6, StopDoes
  <2>7. QED
    BY <1>10, <2>1, <2>2, <2>3, <2>4, <2>5, <2>6, StopIs
<1>11. ASSUME NEW t \in Threads, AwaitOff(t) PROVE Trials'
  BY EnvIs, <1>11, AwaitOffIs, AwaitOffDoes
<1>12. ASSUME NEW t \in Threads, Start(t) PROVE Trials'
  BY <1>12, StartIs, StartDoes
<1>13. ASSUME NEW t \in Threads, AwaitStart(t) PROVE Trials'
  BY <1>13, AwaitStartIs, AwaitStartDoes
<1>14. ASSUME NEW t \in Threads, Arm(t) PROVE Trials'
  BY PartsFacts, <1>14, ArmIs, ArmDoes DEF Teardown, Measuring
<1>15. ASSUME NEW t \in Threads, Disarm(t) PROVE Trials'
  BY <1>15, DisarmIs, DisarmDoes
<1>16. ASSUME NEW t \in Threads, StartMeter(t) PROVE Trials'
  BY <1>16, StartMeterIs, StartMeterDoes
<1>17. ASSUME NEW t \in Threads, Set(t) PROVE Trials'
  BY StatesAre, <1>17, SetIs, SetDoes DEF ButtonStates
<1>18. ASSUME NEW t \in Threads, Paint(t) PROVE Trials'
  BY <1>18, PaintIs, PaintDoes
<1>19. ASSUME NEW t \in Threads, Signal(t) PROVE Trials'
  <2>1. PICK m \in Signals : SignalDoes(t, m)
    BY <1>19, SignalIsOne
  <2>2. QED
    BY <2>1, SignalIs DEF SignalDoes
<1>20. ASSUME NEW t \in Threads, CloseDialog(t) PROVE Trials'
  BY <1>20, CloseDialogIs, CloseDialogDoes
<1>21. ASSUME NEW t \in Threads, ReplaceProxy(t) PROVE Trials'
  BY <1>21, ReplaceProxyIs, ReplaceProxyDoes
<1>22. ASSUME NEW t \in Threads, DropListeners(t) PROVE Trials'
  BY <1>22, DropListenersIs, DropListenersDoes
<1>23. ASSUME NEW t \in Threads, DropRetry(t) PROVE Trials'
  BY <1>23, DropRetryIs, DropRetryDoes
<1>24. ASSUME NEW t \in Threads, DropMeter(t) PROVE Trials'
  BY <1>24, DropMeterIs, DropMeterDoes
<1>25. ASSUME NEW t \in Threads, DropProxy(t) PROVE Trials'
  BY PartsFacts, <1>25, DropProxyIs, DropProxyDoes DEF Teardown, Measuring
<1>26. ASSUME NEW t \in Threads, Leave(t) PROVE Trials'
  BY <1>26, LeaveIs, LeaveDoes
<1>27. CASE UNCHANGED vars
  BY <1>27, NoMoveIs DEF vars
<1>28. QED
  BY <1>1, <1>2, <1>3, <1>4, <1>5, <1>6, <1>7, <1>8, <1>9, <1>10, <1>11,
     <1>12, <1>13, <1>14, <1>15, <1>16, <1>17, <1>18, <1>19, <1>20, <1>21,
     <1>22, <1>23, <1>24, <1>25, <1>26, <1>27 DEF Next, Step, Gone

---------------------------------------------------------------------------
(* The rate on screen *)

\* What posting and running a slot do to the queue.
LEMMA PostedGrows ==
    ASSUME TypeOK, NEW m, posted' = Append(posted, m)
    PROVE  /\ Len(posted) \in Nat /\ Len(posted') = Len(posted) + 1
           /\ \A i \in 1 .. Len(posted) : posted'[i] = posted[i]
           /\ posted'[Len(posted')] = m
BY DEF TypeOK

\* The other end of it.
LEMMA PostedShrinks ==
    ASSUME TypeOK, posted # <<>>, posted' = Tail(posted)
    PROVE  /\ Len(posted) \in Nat \ {0} /\ Len(posted') = Len(posted) - 1
           /\ \A i \in 1 .. Len(posted') : posted'[i] = posted[i + 1]
           /\ Head(posted) = posted[1]
BY DEF TypeOK

\* What a slot does to the rate.
LEMMA ShownRate ==
    ASSUME NEW m
    PROVE  /\ m \notin {"rate", "norate"} => Shown(m).rate = ui.rate
           /\ Shown("rate").rate = TRUE /\ Shown("norate").rate = FALSE
BY DEF Shown

\* A rate on its way off the screen stays on its way.
LEMMA RateLeavesKept ==
    ASSUME UNCHANGED <<ui, posted>>
    PROVE  RateLeaves' <=> RateLeaves
BY DEF RateLeaves, Waits

\* Other signals behind it do not matter,
LEMMA RateLeavesEmit ==
    ASSUME TypeOK, RateLeaves, NEW t, NEW m, m \notin {"rate", "norate"}, Emit(t, m)
    PROVE  RateLeaves'
<1>1. CASE t = "gui"
  <2>1. posted' = posted /\ ui'.rate = ui.rate
    BY <1>1, ShownRate DEF Emit
  <2>2. QED
    BY <2>1 DEF RateLeaves, Waits
<1>2. CASE t # "gui"
  <2>1. ui' = ui /\ posted' = Append(posted, m)
    BY <1>2 DEF Emit
  <2>2. Waits("norate") => Waits("norate")'
    BY <2>1, PostedGrows DEF Waits
  <2>3. ASSUME NEW i \in 1 .. Len(posted'), posted'[i] = "rate"
        PROVE  \E j \in 1 .. Len(posted') : i < j /\ posted'[j] = "norate"
    <3>1. i \in 1 .. Len(posted) /\ posted[i] = "rate"
      BY <2>1, <2>3, PostedGrows
    <3>2. PICK j \in 1 .. Len(posted) : i < j /\ posted[j] = "norate"
      BY <3>1 DEF RateLeaves
    <3>3. QED
      BY <2>1, <3>2, PostedGrows
  <2>4. QED
    BY <2>1, <2>2, <2>3 DEF RateLeaves
<1>3. QED
  BY <1>1, <1>2

\* a "norate" behind it is all it takes,
LEMMA NorateLeaves ==
    ASSUME TypeOK, NEW t, t # "gui", Emit(t, "norate")
    PROVE  RateLeaves'
<1>1. ui' = ui /\ posted' = Append(posted, "norate")
  BY DEF Emit
<1>2. Len(posted') \in 1 .. Len(posted') /\ posted'[Len(posted')] = "norate"
  BY <1>1, PostedGrows
<1>3. ASSUME NEW i \in 1 .. Len(posted'), posted'[i] = "rate"
      PROVE  i < Len(posted')
  BY <1>1, <1>3, PostedGrows
<1>4. QED
  BY <1>2, <1>3 DEF RateLeaves, Waits

\* and slots run in order.
LEMMA RateLeavesShown ==
    ASSUME TypeOK, RateLeaves, posted # <<>>, ui' = Shown(Head(posted)), posted' = Tail(posted)
    PROVE  RateLeaves'
<1>1. ASSUME NEW j \in 1 .. Len(posted), 1 < j
      PROVE  j - 1 \in 1 .. Len(posted') /\ posted'[j - 1] = posted[j]
  BY <1>1, PostedShrinks
<1>2. ui'.rate => Waits("norate")'
  <2>1. CASE Head(posted) = "rate"
    <3>1. PICK j \in 1 .. Len(posted) : 1 < j /\ posted[j] = "norate"
      BY <2>1, PostedShrinks DEF RateLeaves
    <3>2. QED
      BY <1>1, <3>1 DEF Waits
  <2>2. CASE Head(posted) = "norate"
    BY <2>2, ShownRate
  <2>3. CASE Head(posted) \notin {"rate", "norate"}
    <3>1. SUFFICES ASSUME ui.rate PROVE Waits("norate")'
      BY <2>3, ShownRate
    <3>2. PICK j \in 1 .. Len(posted) : posted[j] = "norate"
      BY <3>1 DEF RateLeaves, Waits
    <3>3. 1 < j
      BY <2>3, <3>2, PostedShrinks
    <3>4. QED
      BY <1>1, <3>2, <3>3 DEF Waits
  <2>4. QED
    BY <2>1, <2>2, <2>3
<1>3. ASSUME NEW i \in 1 .. Len(posted'), posted'[i] = "rate"
      PROVE  \E j \in 1 .. Len(posted') : i < j /\ posted'[j] = "norate"
  <2>1. i + 1 \in 1 .. Len(posted) /\ posted[i + 1] = "rate"
    BY <1>3, PostedShrinks
  <2>2. PICK j \in 1 .. Len(posted) : i + 1 < j /\ posted[j] = "norate"
    BY <2>1 DEF RateLeaves
  <2>3. j - 1 \in 1 .. Len(posted') /\ posted'[j - 1] = "norate" /\ i < j - 1
    BY <1>1, <2>2
  <2>4. QED
    BY <2>3
<1>4. QED
  BY <1>2, <1>3 DEF RateLeaves

\* A meter that stopped leaves no rate.
LEMMA ClearedStep ==
    TypeOK /\ Shape /\ Teardown /\ Cleared /\ [Next]_vars => Cleared'
<1> SUFFICES ASSUME TypeOK, Shape, Teardown, Cleared, [Next]_vars
             PROVE  Cleared'
  OBVIOUS
<1> USE RateLeavesKept, Apart, PartsFacts
    DEF GuiMoves, TimMoves, DrvMoves, NoMove, Cleared, Teardown, isOpened
<1>1. CASE Click
  BY <1>1, ClickIs, ClickDoes
<1>2. CASE OpenSettings
  BY <1>2, OpenSettingsIs, OpenSettingsDoes
<1>3. CASE CloseApplication
  BY <1>3, CloseApplicationIs, CloseApplicationDoes
<1>4. CASE RetryExpires
  BY <1>4, RetryExpiresIs, RetryExpiresDoes
<1>5. CASE MeterExpires
  BY <1>5, MeterExpiresIs, MeterExpiresDoes
<1>6. CASE EndpointLost
  BY <1>6, EndpointLostIs, EndpointLostDoes
<1>7. CASE DriverNotices
  BY <1>7, DriverNoticesDoes
<1>8. CASE RunSlot
  BY <1>8, RunSlotDoes, RateLeavesShown
<1>9. ASSUME NEW t \in Threads, ClickedStopped(t) PROVE Cleared'
  BY <1>9, ClickedStoppedIs, ClickedStoppedDoes
<1>10. ASSUME NEW t \in Threads, Stop(t) PROVE Cleared'
  BY <1>10, StopIs, StopDoes
<1>11. ASSUME NEW t \in Threads, AwaitOff(t) PROVE Cleared'
  BY <1>11, AwaitOffIs, AwaitOffDoes
<1>12. ASSUME NEW t \in Threads, Start(t) PROVE Cleared'
  BY <1>12, StartIs, StartDoes
<1>13. ASSUME NEW t \in Threads, AwaitStart(t) PROVE Cleared'
  BY <1>13, AwaitStartIs, AwaitStartDoes
<1>14. ASSUME NEW t \in Threads, Arm(t) PROVE Cleared'
  BY <1>14, ArmIs, ArmDoes
<1>15. ASSUME NEW t \in Threads, Disarm(t) PROVE Cleared'
  BY <1>15, DisarmIs, DisarmDoes
<1>16. ASSUME NEW t \in Threads, StartMeter(t) PROVE Cleared'
  BY <1>16, StartMeterIs, StartMeterDoes
<1>17. ASSUME NEW t \in Threads, Set(t) PROVE Cleared'
  BY <1>17, SetIs, SetDoes
<1>18. ASSUME NEW t \in Threads, Paint(t) PROVE Cleared'
  BY <1>18, PaintIs, PaintDoes, StatesAre, RateLeavesEmit
<1>19. ASSUME NEW t \in Threads, Signal(t) PROVE Cleared'
  <2>1. PICK m \in Signals : SignalDoes(t, m)
    BY <1>19, SignalIsOne
  <2>2. CASE m \in {"opened", "closed"} /\ UNCHANGED <<ui, posted>>
    BY <2>1, <2>2, SignalIs DEF SignalDoes
  <2>3. CASE Emit(t, m)
    BY <2>1, <2>3, SignalIs, RateLeavesEmit, NorateLeaves DEF SignalDoes
  <2>4. QED
    BY <2>1, <2>2, <2>3 DEF SignalDoes
<1>20. ASSUME NEW t \in Threads, CloseDialog(t) PROVE Cleared'
  BY <1>20, CloseDialogIs, CloseDialogDoes
<1>21. ASSUME NEW t \in Threads, ReplaceProxy(t) PROVE Cleared'
  BY <1>21, ReplaceProxyIs, ReplaceProxyDoes
<1>22. ASSUME NEW t \in Threads, DropListeners(t) PROVE Cleared'
  BY <1>22, DropListenersIs, DropListenersDoes
<1>23. ASSUME NEW t \in Threads, DropRetry(t) PROVE Cleared'
  BY <1>23, DropRetryIs, DropRetryDoes
<1>24. ASSUME NEW t \in Threads, DropMeter(t) PROVE Cleared'
  BY <1>24, DropMeterIs, DropMeterDoes
<1>25. ASSUME NEW t \in Threads, DropProxy(t) PROVE Cleared'
  BY <1>25, DropProxyIs, DropProxyDoes
<1>26. ASSUME NEW t \in Threads, Leave(t) PROVE Cleared'
  BY <1>26, LeaveIs, LeaveDoes
<1>27. CASE UNCHANGED vars
  BY <1>27, NoMoveIs DEF vars
<1>28. QED
  BY <1>1, <1>2, <1>3, <1>4, <1>5, <1>6, <1>7, <1>8, <1>9, <1>10, <1>11,
     <1>12, <1>13, <1>14, <1>15, <1>16, <1>17, <1>18, <1>19, <1>20, <1>21,
     <1>22, <1>23, <1>24, <1>25, <1>26, <1>27 DEF Next, Step, Gone

---------------------------------------------------------------------------
(* A calm environment *)

\* State, driver and retry timer agree, as far as the handler has come.
LEMMA CalmAgreementStep ==
    TypeOK /\ Shape /\ Teardown /\ CalmAgreement /\ [Next]_vars => CalmAgreement'
<1> SUFFICES ASSUME TypeOK, Shape, Teardown, CalmAgreement, [Next]_vars
             PROVE  CalmAgreement'
  OBVIOUS
<1> USE Apart, StatesAre, PartsFacts
    DEF GuiMoves, TimMoves, DrvMoves, NoMove, CalmAgreement, Alone, Agreement,
     Settled, Trying, Measuring, MayStart, isStarted
<1>1. CASE Click
  BY <1>1, ClickIs, ClickDoes
<1>2. CASE OpenSettings
  BY <1>2, OpenSettingsIs, OpenSettingsDoes
<1>3. CASE CloseApplication
  BY <1>3, CloseApplicationIs, CloseApplicationDoes
<1>4. CASE RetryExpires
  BY <1>4, RetryExpiresIs, RetryExpiresDoes
<1>5. CASE MeterExpires
  BY <1>5, MeterExpiresIs, MeterExpiresDoes DEF isOpened
<1>6. CASE EndpointLost
  BY <1>6, EndpointLostIs, EndpointLostDoes
<1>7. CASE DriverNotices
  BY <1>7, DriverNoticesDoes
<1>8. CASE RunSlot
  BY <1>8, RunSlotDoes
<1>9. ASSUME NEW t \in Threads, ClickedStopped(t) PROVE CalmAgreement'
  BY <1>9, ClickedStoppedIs, ClickedStoppedDoes
<1>10. ASSUME NEW t \in Threads, Stop(t) PROVE CalmAgreement'
  BY <1>10, StopIs, StopDoes
<1>11. ASSUME NEW t \in Threads, AwaitOff(t) PROVE CalmAgreement'
  BY EnvIs, <1>11, AwaitOffIs, AwaitOffDoes
<1>12. ASSUME NEW t \in Threads, Start(t) PROVE CalmAgreement'
  BY <1>12, StartIs, StartDoes
<1>13. ASSUME NEW t \in Threads, AwaitStart(t) PROVE CalmAgreement'
  BY <1>13, AwaitStartIs, AwaitStartDoes
<1>14. ASSUME NEW t \in Threads, Arm(t) PROVE CalmAgreement'
  BY <1>14, ArmIs, ArmDoes
<1>15. ASSUME NEW t \in Threads, Disarm(t) PROVE CalmAgreement'
  BY <1>15, DisarmIs, DisarmDoes
<1>16. ASSUME NEW t \in Threads, StartMeter(t) PROVE CalmAgreement'
  BY <1>16, StartMeterIs, StartMeterDoes
<1>17. ASSUME NEW t \in Threads, Set(t) PROVE CalmAgreement'
  <2>1. CASE t = "gui" /\ GuiMoves(Disconnects, ShowsClosed) /\ button' = "DISCONNECTED"
    BY <1>17, <2>1, SetDoes DEF ButtonStates
  <2>2. CASE t = "gui" /\ GuiMoves(Connects, ShowsOpened) /\ button' = "CONNECTED"
    BY <1>17, <2>2, SetDoes DEF ButtonStates
  <2>3. CASE t = "timers" /\ TimMoves(Connects, ShowsOpened) /\ button' = "CONNECTED"
    BY <1>17, <2>3, SetDoes DEF ButtonStates
  <2>4. CASE t = "gui" /\ GuiMoves(Schedules, ShowsClosed) /\ button' = "CONNECTING"
    BY <1>17, <2>4, SetDoes DEF ButtonStates
  <2>5. CASE t = "timers" /\ TimMoves(Schedules, ShowsClosed) /\ button' = "CONNECTING"
    BY <1>17, <2>5, SetDoes DEF ButtonStates
  <2>6. CASE t = "driver" /\ DrvMoves(onEndpointDisconnected, Lost7) /\ button' = "CONNECTING"
    BY <1>17, <2>6, SetDoes DEF ButtonStates
  <2>7. CASE t = "driver" /\ DrvMoves(Lost4, Lost3) /\ button' = "CONNECTING"
    BY <1>17, <2>7, SetDoes DEF ButtonStates
  <2>8. CASE t = "gui" /\ button' \in ButtonStates /\ GuiMoves(SetState(button'), Paints)
    BY <1>17, <2>8, SetDoes DEF ButtonStates
  <2>9. QED
    BY <1>17, <2>1, <2>2, <2>3, <2>4, <2>5, <2>6, <2>7, <2>8, SetIs
<1>18. ASSUME NEW t \in Threads, Paint(t) PROVE CalmAgreement'
  BY <1>18, PaintIs, PaintDoes
<1>19. ASSUME NEW t \in Threads, Signal(t) PROVE CalmAgreement'
  <2>1. PICK m \in Signals : SignalDoes(t, m)
    BY <1>19, SignalIsOne
  <2>2. QED
    BY <2>1, SignalIs DEF SignalDoes
<1>20. ASSUME NEW t \in Threads, CloseDialog(t) PROVE CalmAgreement'
  BY <1>20, CloseDialogIs, CloseDialogDoes
<1>21. ASSUME NEW t \in Threads, ReplaceProxy(t) PROVE CalmAgreement'
  BY <1>21, ReplaceProxyIs, ReplaceProxyDoes
<1>22. ASSUME NEW t \in Threads, DropListeners(t) PROVE CalmAgreement'
  BY <1>22, DropListenersIs, DropListenersDoes
<1>23. ASSUME NEW t \in Threads, DropRetry(t) PROVE CalmAgreement'
  BY <1>23, DropRetryIs, DropRetryDoes
<1>24. ASSUME NEW t \in Threads, DropMeter(t) PROVE CalmAgreement'
  BY <1>24, DropMeterIs, DropMeterDoes
<1>25. ASSUME NEW t \in Threads, DropProxy(t) PROVE CalmAgreement'
  BY <1>25, DropProxyIs, DropProxyDoes
<1>26. ASSUME NEW t \in Threads, Leave(t) PROVE CalmAgreement'
  BY <1>26, LeaveIs, LeaveDoes
<1>27. CASE UNCHANGED vars
  BY <1>27, NoMoveIs DEF vars
<1>28. QED
  BY <1>1, <1>2, <1>3, <1>4, <1>5, <1>6, <1>7, <1>8, <1>9, <1>10, <1>11,
     <1>12, <1>13, <1>14, <1>15, <1>16, <1>17, <1>18, <1>19, <1>20, <1>21,
     <1>22, <1>23, <1>24, <1>25, <1>26, <1>27 DEF Next, Step, Gone

\* The colour follows the state through the queue...
LEMMA MatchesKept ==
    ASSUME UNCHANGED <<ui, posted>>
    PROVE  /\ NoColour' <=> NoColour
           /\ button' = button => (Matches' <=> Matches)
BY DEF NoColour, Matches

\* A signal leaves it,
LEMMA MatchesEmit ==
    ASSUME TypeOK, NEW t, NEW m, m \notin ButtonStates, Emit(t, m), button' = button
    PROVE  /\ NoColour => NoColour'
           /\ Matches => Matches'
<1>1. CASE t = "gui"
  <2>1. posted' = posted /\ ui'.colour = ui.colour
    BY <1>1 DEF Emit, Shown
  <2>2. QED
    BY <2>1 DEF NoColour, Matches
<1>2. CASE t # "gui"
  <2>1. ui' = ui /\ posted' = Append(posted, m)
    BY <1>2 DEF Emit
  <2>2. NoColour => NoColour'
    BY <2>1, PostedGrows DEF NoColour
  <2>3. ASSUME NEW i \in 1 .. Len(posted), posted[i] = button,
               \A j \in 1 .. Len(posted) : i < j => posted[j] \notin ButtonStates
        PROVE  Matches'
    <3>1. i \in 1 .. Len(posted') /\ posted'[i] = button'
      BY <2>1, <2>3, PostedGrows
    <3>2. ASSUME NEW j \in 1 .. Len(posted'), i < j PROVE posted'[j] \notin ButtonStates
      BY <2>1, <2>3, <3>2, PostedGrows
    <3>3. QED
      BY <3>1, <3>2 DEF Matches
  <2>4. QED
    BY <2>1, <2>2, <2>3 DEF Matches
<1>3. QED
  BY <1>1, <1>2

\* a paint establishes it,
LEMMA MatchesPaint ==
    ASSUME TypeOK, NEW t, Emit(t, button), button' = button, t = "gui" => NoColour
    PROVE  Matches' /\ (t = "gui" => NoColour')
<1>1. CASE t = "gui"
  <2>1. posted' = posted /\ ui'.colour = button
    BY <1>1 DEF Emit, Shown, TypeOK
  <2>2. QED
    BY <1>1, <2>1 DEF NoColour, Matches
<1>2. CASE t # "gui"
  <2>1. posted' = Append(posted, button)
    BY <1>2 DEF Emit
  <2>2. /\ Len(posted') \in 1 .. Len(posted') /\ posted'[Len(posted')] = button'
        /\ \A j \in 1 .. Len(posted') : ~(Len(posted') < j)
    BY <2>1, PostedGrows
  <2>3. QED
    BY <1>2, <2>2 DEF Matches
<1>3. QED
  BY <1>1, <1>2

\* and a slot that runs carries it on.
LEMMA MatchesShown ==
    ASSUME TypeOK, posted # <<>>, ui' = Shown(Head(posted)), posted' = Tail(posted),
           button' = button
    PROVE  /\ NoColour => NoColour'
           /\ Matches => Matches'
<1>1. ASSUME NEW j \in 1 .. Len(posted), 1 < j
      PROVE  j - 1 \in 1 .. Len(posted') /\ posted'[j - 1] = posted[j]
  BY <1>1, PostedShrinks
<1>2. ASSUME NEW j \in 1 .. Len(posted')
      PROVE  j + 1 \in 1 .. Len(posted) /\ posted'[j] = posted[j + 1]
  BY <1>2, PostedShrinks
<1>3. 1 \in 1 .. Len(posted) /\ Head(posted) = posted[1]
  BY PostedShrinks
<1>4. NoColour => NoColour'
  BY <1>2 DEF NoColour
<1>5. ASSUME NoColour, ui.colour = button PROVE Matches'
  <2>1. Head(posted) \notin ButtonStates
    BY <1>3, <1>5 DEF NoColour
  <2>2. ui'.colour = ui.colour
    BY <2>1 DEF Shown
  <2>3. QED
    BY <1>4, <1>5, <2>2 DEF Matches
<1>6. ASSUME NEW i \in 1 .. Len(posted), posted[i] = button,
             \A j \in 1 .. Len(posted) : i < j => posted[j] \notin ButtonStates
      PROVE  Matches'
  <2>1. CASE i = 1
    <3>1. NoColour'
      <4>1. ASSUME NEW j \in 1 .. Len(posted') PROVE posted'[j] \notin ButtonStates
        <5>1. j + 1 \in 1 .. Len(posted) /\ 1 < j + 1
          BY <1>2
        <5>2. QED
          BY <1>2, <1>6, <2>1, <5>1
      <4>2. QED
        BY <4>1 DEF NoColour
    <3>2. ui'.colour = button'
      BY <1>3, <1>6, <2>1 DEF Shown, TypeOK
    <3>3. QED
      BY <3>1, <3>2 DEF Matches
  <2>2. CASE i # 1
    <3>1. i - 1 \in 1 .. Len(posted') /\ posted'[i - 1] = button'
      BY <1>1, <1>6, <2>2
    <3>2. ASSUME NEW j \in 1 .. Len(posted'), i - 1 < j PROVE posted'[j] \notin ButtonStates
      <4>1. j + 1 \in 1 .. Len(posted) /\ i < j + 1
        BY <1>2, <3>2
      <4>2. QED
        BY <1>2, <1>6, <4>1
    <3>3. QED
      BY <3>1, <3>2 DEF Matches
  <2>3. QED
    BY <2>1, <2>2
<1>7. QED
  BY <1>4, <1>5, <1>6 DEF Matches

\* With nothing posted there is nothing to follow.
LEMMA NothingPosted ==
    ASSUME posted = <<>>
    PROVE  NoColour /\ Uncounted /\ ~Waits("opened") /\ ~Waits("closed")
BY DEF NoColour, Uncounted, Waits

\* Signals are not colours.
LEMMA SignalsAreNot == \A m \in Signals : m \notin ButtonStates
BY DEF Signals, ButtonStates

\* ... and is painted after every change of state.
LEMMA CalmColouredStep ==
    TypeOK /\ Shape /\ Teardown /\ CalmAgreement /\ CalmColoured /\ [Next]_vars => CalmColoured'
<1> SUFFICES ASSUME TypeOK, Shape, Teardown, CalmAgreement, CalmColoured, [Next]_vars
             PROVE  CalmColoured'
  OBVIOUS
<1> USE MatchesKept, Apart, StatesAre, PartsFacts
    DEF GuiMoves, TimMoves, DrvMoves, NoMove, CalmColoured, Coloured,
     CalmAgreement, Alone, Agreement, Settled, Measuring, MayStart
<1>1. CASE Click
  BY NothingPosted, <1>1, ClickIs, ClickDoes
<1>2. CASE OpenSettings
  BY NothingPosted, <1>2, OpenSettingsIs, OpenSettingsDoes
<1>3. CASE CloseApplication
  BY NothingPosted, <1>3, CloseApplicationIs, CloseApplicationDoes
<1>4. CASE RetryExpires
  BY NothingPosted, <1>4, RetryExpiresIs, RetryExpiresDoes
<1>5. CASE MeterExpires
  BY <1>5, MeterExpiresIs, MeterExpiresDoes
<1>6. CASE EndpointLost
  BY NothingPosted, <1>6, EndpointLostIs, EndpointLostDoes
<1>7. CASE DriverNotices
  BY <1>7, DriverNoticesDoes
<1>8. CASE RunSlot
  BY <1>8, RunSlotDoes, MatchesShown
<1>9. ASSUME NEW t \in Threads, ClickedStopped(t) PROVE CalmColoured'
  BY <1>9, ClickedStoppedIs, ClickedStoppedDoes
<1>10. ASSUME NEW t \in Threads, Stop(t) PROVE CalmColoured'
  BY <1>10, StopIs, StopDoes
<1>11. ASSUME NEW t \in Threads, AwaitOff(t) PROVE CalmColoured'
  BY <1>11, AwaitOffIs, AwaitOffDoes
<1>12. ASSUME NEW t \in Threads, Start(t) PROVE CalmColoured'
  BY <1>12, StartIs, StartDoes
<1>13. ASSUME NEW t \in Threads, AwaitStart(t) PROVE CalmColoured'
  BY <1>13, AwaitStartIs, AwaitStartDoes
<1>14. ASSUME NEW t \in Threads, Arm(t) PROVE CalmColoured'
  BY <1>14, ArmIs, ArmDoes
<1>15. ASSUME NEW t \in Threads, Disarm(t) PROVE CalmColoured'
  BY <1>15, DisarmIs, DisarmDoes
<1>16. ASSUME NEW t \in Threads, StartMeter(t) PROVE CalmColoured'
  BY <1>16, StartMeterIs, StartMeterDoes
<1>17. ASSUME NEW t \in Threads, Set(t) PROVE CalmColoured'
  <2>1. CASE t = "gui" /\ GuiMoves(Disconnects, ShowsClosed) /\ button' = "DISCONNECTED"
    BY <1>17, <2>1, SetDoes DEF ButtonStates
  <2>2. CASE t = "gui" /\ GuiMoves(Connects, ShowsOpened) /\ button' = "CONNECTED"
    BY <1>17, <2>2, SetDoes DEF ButtonStates
  <2>3. CASE t = "timers" /\ TimMoves(Connects, ShowsOpened) /\ button' = "CONNECTED"
    BY <1>17, <2>3, SetDoes DEF ButtonStates
  <2>4. CASE t = "gui" /\ GuiMoves(Schedules, ShowsClosed) /\ button' = "CONNECTING"
    BY <1>17, <2>4, SetDoes DEF ButtonStates
  <2>5. CASE t = "timers" /\ TimMoves(Schedules, ShowsClosed) /\ button' = "CONNECTING"
    BY <1>17, <2>5, SetDoes DEF ButtonStates
  <2>6. CASE t = "driver" /\ DrvMoves(onEndpointDisconnected, Lost7) /\ button' = "CONNECTING"
    BY <1>17, <2>6, SetDoes DEF ButtonStates
  <2>7. CASE t = "driver" /\ DrvMoves(Lost4, Lost3) /\ button' = "CONNECTING"
    BY <1>17, <2>7, SetDoes DEF ButtonStates
  <2>8. CASE t = "gui" /\ button' \in ButtonStates /\ GuiMoves(SetState(button'), Paints)
    BY <1>17, <2>8, SetDoes DEF ButtonStates
  <2>9. QED
    BY <1>17, <2>1, <2>2, <2>3, <2>4, <2>5, <2>6, <2>7, <2>8, SetIs
<1>18. ASSUME NEW t \in Threads, Paint(t) PROVE CalmColoured'
  BY <1>18, PaintIs, PaintDoes, MatchesPaint
<1>19. ASSUME NEW t \in Threads, Signal(t) PROVE CalmColoured'
  <2>1. PICK m \in Signals : SignalDoes(t, m)
    BY <1>19, SignalIsOne
  <2>2. CASE m \in {"opened", "closed"} /\ UNCHANGED <<ui, posted>>
    BY <2>1, <2>2, SignalIs DEF SignalDoes
  <2>3. CASE Emit(t, m)
    BY <2>1, <2>3, SignalIs, SignalsAreNot, MatchesEmit DEF SignalDoes
  <2>4. QED
    BY <2>1, <2>2, <2>3 DEF SignalDoes
<1>20. ASSUME NEW t \in Threads, CloseDialog(t) PROVE CalmColoured'
  BY <1>20, CloseDialogIs, CloseDialogDoes
<1>21. ASSUME NEW t \in Threads, ReplaceProxy(t) PROVE CalmColoured'
  BY <1>21, ReplaceProxyIs, ReplaceProxyDoes
<1>22. ASSUME NEW t \in Threads, DropListeners(t) PROVE CalmColoured'
  BY <1>22, DropListenersIs, DropListenersDoes
<1>23. ASSUME NEW t \in Threads, DropRetry(t) PROVE CalmColoured'
  BY <1>23, DropRetryIs, DropRetryDoes
<1>24. ASSUME NEW t \in Threads, DropMeter(t) PROVE CalmColoured'
  BY <1>24, DropMeterIs, DropMeterDoes
<1>25. ASSUME NEW t \in Threads, DropProxy(t) PROVE CalmColoured'
  BY <1>25, DropProxyIs, DropProxyDoes
<1>26. ASSUME NEW t \in Threads, Leave(t) PROVE CalmColoured'
  BY <1>26, LeaveIs, LeaveDoes
<1>27. CASE UNCHANGED vars
  BY <1>27, NoMoveIs DEF vars
<1>28. QED
  BY <1>1, <1>2, <1>3, <1>4, <1>5, <1>6, <1>7, <1>8, <1>9, <1>10, <1>11,
     <1>12, <1>13, <1>14, <1>15, <1>16, <1>17, <1>18, <1>19, <1>20, <1>21,
     <1>22, <1>23, <1>24, <1>25, <1>26, <1>27 DEF Next, Step, Gone

\* The combo box follows the signals through the queue...
LEMMA ListKept ==
    ASSUME UNCHANGED <<ui, posted>>
    PROVE  /\ ComboOK' <=> ComboOK
           /\ OneEntry' <=> OneEntry
           /\ NoEntry' <=> NoEntry
           /\ Uncounted' <=> Uncounted
           /\ Waits("opened")' <=> Waits("opened")
BY DEF ComboOK, OneEntry, NoEntry, Uncounted, Waits

\* What waits after a signal is posted,
LEMMA WaitsGrow ==
    ASSUME TypeOK, NEW m, posted' = Append(posted, m), NEW s
    PROVE  Waits(s)' <=> Waits(s) \/ m = s
<1>1. Waits(s) => Waits(s)'
  BY PostedGrows DEF Waits
<1>2. m = s => Waits(s)'
  BY PostedGrows DEF Waits
<1>3. Waits(s)' => Waits(s) \/ m = s
  BY PostedGrows DEF Waits
<1>4. QED
  BY <1>1, <1>2, <1>3

\* and after a slot ran.
LEMMA WaitsShrink ==
    ASSUME TypeOK, posted # <<>>, posted' = Tail(posted), NEW s
    PROVE  /\ Waits(s)' => Waits(s)
           /\ Waits(s) => Waits(s)' \/ Head(posted) = s
           /\ Head(posted) = s => Waits(s)
<1>1. ASSUME NEW j \in 1 .. Len(posted), 1 < j
      PROVE  j - 1 \in 1 .. Len(posted') /\ posted'[j - 1] = posted[j]
  BY <1>1, PostedShrinks
<1>2. ASSUME NEW j \in 1 .. Len(posted')
      PROVE  j + 1 \in 1 .. Len(posted) /\ posted'[j] = posted[j + 1]
  BY <1>2, PostedShrinks
<1>3. 1 \in 1 .. Len(posted) /\ Head(posted) = posted[1]
  BY PostedShrinks
<1>4. Waits(s)' => Waits(s)
  BY <1>2 DEF Waits
<1>5. ASSUME NEW j \in 1 .. Len(posted), posted[j] = s
      PROVE  Waits(s)' \/ Head(posted) = s
  <2>1. j = 1 \/ 1 < j
    OBVIOUS
  <2>2. QED
    BY <1>1, <1>3, <1>5, <2>1 DEF Waits
<1>6. Head(posted) = s => Waits(s)
  BY <1>3 DEF Waits
<1>7. QED
  BY <1>4, <1>5, <1>6 DEF Waits

\* "opened" is posted at most once.
OpenedOnce ==
    \A i, j \in 1 .. Len(posted) : posted[i] = "opened" /\ posted[j] = "opened" => i = j

\* "opened" is posted once,
LEMMA OpenedOnceGrows ==
    ASSUME TypeOK, OpenedOnce, NEW m, posted' = Append(posted, m),
           m = "opened" => ~Waits("opened")
    PROVE  OpenedOnce'
<1> SUFFICES ASSUME NEW i \in 1 .. Len(posted'), NEW j \in 1 .. Len(posted'),
                    posted'[i] = "opened", posted'[j] = "opened"
             PROVE  i = j
  BY DEF OpenedOnce
<1>1. CASE m = "opened"
  BY <1>1, PostedGrows DEF Waits
<1>2. CASE m # "opened"
  <2>1. i \in 1 .. Len(posted) /\ j \in 1 .. Len(posted)
    BY <1>2, PostedGrows
  <2>2. QED
    BY <2>1, PostedGrows DEF OpenedOnce
<1>3. QED
  BY <1>1, <1>2

\* and gone once it was shown.
LEMMA OpenedOnceShrinks ==
    ASSUME TypeOK, OpenedOnce, posted # <<>>, posted' = Tail(posted)
    PROVE  /\ OpenedOnce'
           /\ Head(posted) = "opened" => ~Waits("opened")'
<1>1. ASSUME NEW j \in 1 .. Len(posted')
      PROVE  j + 1 \in 1 .. Len(posted) /\ posted'[j] = posted[j + 1] /\ j + 1 # 1
  BY <1>1, PostedShrinks
<1>2. 1 \in 1 .. Len(posted) /\ Head(posted) = posted[1]
  BY PostedShrinks
<1>3. OpenedOnce'
  <2> SUFFICES ASSUME NEW i \in 1 .. Len(posted'), NEW j \in 1 .. Len(posted'),
                      posted'[i] = "opened", posted'[j] = "opened"
               PROVE  i = j
    BY DEF OpenedOnce
  <2>1. i + 1 = j + 1
    BY <1>1 DEF OpenedOnce
  <2>2. QED
    BY <2>1
<1>4. Head(posted) = "opened" => ~Waits("opened")'
  BY <1>1, <1>2 DEF OpenedOnce, Waits
<1>5. QED
  BY <1>3, <1>4

\* ComboOK in these terms.
LEMMA ComboIs ==
    ComboOK <=> /\ ui.combo \in {0, 1}
                /\ Waits("opened") => ui.combo = 0 /\ ~Waits("closed")
                /\ OpenedOnce
BY DEF ComboOK, OpenedOnce

\* What a slot does to the combo box.
LEMMA ShownCombo ==
    ASSUME NEW m
    PROVE  /\ m \notin {"opened", "closed"} => Shown(m).combo = ui.combo
           /\ ui.combo \in {0, 1} => Shown("closed").combo = 0
           /\ ui.combo = 0 /\ MaxEntries > 0 => Shown("opened").combo = 1
BY DEF Shown, Added, Removed

\* Other signals leave it,
LEMMA ListEmit ==
    ASSUME TypeOK, ComboOK, NEW t, NEW m, m \notin {"opened", "closed"}, Emit(t, m)
    PROVE  /\ ComboOK'
           /\ OneEntry => OneEntry'
           /\ NoEntry => NoEntry'
           /\ Uncounted => Uncounted'
           /\ ~Waits("opened") => ~Waits("opened")'
<1>1. CASE t = "gui"
  <2>1. posted' = posted /\ ui'.combo = ui.combo
    BY <1>1, ShownCombo DEF Emit
  <2>2. QED
    BY <2>1 DEF ComboOK, OneEntry, NoEntry, Uncounted, Waits
<1>2. CASE t # "gui"
  <2>1. ui' = ui /\ posted' = Append(posted, m)
    BY <1>2 DEF Emit
  <2>2. /\ Waits("opened")' <=> Waits("opened")
        /\ Waits("closed")' <=> Waits("closed")
    BY <2>1, WaitsGrow
  <2>3. OpenedOnce'
    BY <2>1, OpenedOnceGrows, ComboIs
  <2>4. ComboOK'
    BY <2>1, <2>2, <2>3, ComboIs DEF ComboOK, OpenedOnce
  <2>5. QED
    BY <2>1, <2>2, <2>4 DEF OneEntry, NoEntry, Uncounted
<1>3. QED
  BY <1>1, <1>2

\* "closed" removes the port,
LEMMA ClosedEmit ==
    ASSUME TypeOK, ComboOK, NEW t, Emit(t, "closed"), ~Waits("opened"), t = "gui" => Uncounted
    PROVE  /\ ComboOK' /\ NoEntry' /\ ~Waits("opened")'
           /\ t = "gui" => Uncounted'
<1>1. CASE t = "gui"
  <2>1. posted' = posted /\ ui'.combo = 0
    BY <1>1, ShownCombo DEF Emit, ComboOK
  <2>2. QED
    BY <1>1, <2>1 DEF ComboOK, NoEntry, Uncounted, Waits
<1>2. CASE t # "gui"
  <2>1. ui' = ui /\ posted' = Append(posted, "closed")
    BY <1>2 DEF Emit
  <2>2. ~Waits("opened")' /\ Waits("closed")'
    BY <2>1, WaitsGrow
  <2>3. OpenedOnce'
    BY <2>1, OpenedOnceGrows, ComboIs
  <2>4. QED
    BY <1>2, <2>1, <2>2, <2>3 DEF ComboOK, OpenedOnce, NoEntry
<1>3. QED
  BY <1>1, <1>2

\* "opened" enters it,
LEMMA OpenedEmit ==
    ASSUME TypeOK, ComboOK, NEW t, Emit(t, "opened"), Uncounted, NoEntry, MaxEntries > 0
    PROVE  /\ ComboOK' /\ OneEntry'
           /\ t = "gui" => Uncounted'
<1>0. ui.combo = 0
  BY DEF NoEntry, Uncounted
<1>1. CASE t = "gui"
  <2>1. posted' = posted /\ ui'.combo = 1
    BY <1>0, <1>1, ShownCombo DEF Emit, ComboOK
  <2>2. QED
    BY <1>1, <2>1 DEF ComboOK, OneEntry, Uncounted, Waits
<1>2. CASE t # "gui"
  <2>1. ui' = ui /\ posted' = Append(posted, "opened")
    BY <1>2 DEF Emit
  <2>2. Waits("opened")' /\ ~Waits("closed")'
    BY <2>1, WaitsGrow DEF Uncounted
  <2>3. OpenedOnce'
    BY <2>1, OpenedOnceGrows, ComboIs DEF Uncounted
  <2>4. QED
    BY <1>0, <1>2, <2>1, <2>2, <2>3 DEF ComboOK, OpenedOnce, OneEntry
<1>3. QED
  BY <1>1, <1>2

\* and a slot that runs carries it on.
LEMMA ListShown ==
    ASSUME TypeOK, ComboOK, posted # <<>>, ui' = Shown(Head(posted)), posted' = Tail(posted),
           MaxEntries > 0
    PROVE  /\ ComboOK'
           /\ OneEntry => OneEntry'
           /\ NoEntry => NoEntry'
           /\ Uncounted => Uncounted'
           /\ ~Waits("opened") => ~Waits("opened")'
<1>1. /\ Waits("opened")' => Waits("opened")
      /\ Waits("opened") => Waits("opened")' \/ Head(posted) = "opened"
      /\ Head(posted) = "opened" => Waits("opened") /\ ~Waits("opened")'
      /\ Waits("closed")' => Waits("closed")
      /\ Waits("closed") => Waits("closed")' \/ Head(posted) = "closed"
      /\ Head(posted) = "closed" => Waits("closed")
      /\ OpenedOnce'
  BY WaitsShrink, OpenedOnceShrinks, ComboIs
<1>2. CASE Head(posted) = "opened"
  <2>1. ui.combo = 0 /\ ~Waits("closed") /\ ui'.combo = 1
    BY <1>1, <1>2, ShownCombo DEF ComboOK
  <2>2. QED
    BY <1>1, <1>2, <2>1 DEF ComboOK, OpenedOnce, OneEntry, NoEntry, Uncounted
<1>3. CASE Head(posted) = "closed"
  <2>1. ~Waits("opened") /\ ui'.combo = 0
    BY <1>1, <1>3, ShownCombo DEF ComboOK
  <2>2. QED
    BY <1>1, <1>3, <2>1 DEF ComboOK, OpenedOnce, OneEntry, NoEntry, Uncounted
<1>4. CASE Head(posted) \notin {"opened", "closed"}
  <2>1. ui'.combo = ui.combo
    BY <1>4, ShownCombo
  <2>2. QED
    BY <1>1, <1>4, <2>1 DEF ComboOK, OpenedOnce, OneEntry, NoEntry, Uncounted
<1>5. QED
  BY <1>2, <1>3, <1>4

\* ... and they are sent once for every change of state.
LEMMA CalmListedStep ==
    MaxEntries > 0 /\ TypeOK /\ Shape /\ Teardown /\ CalmAgreement /\ CalmListed /\ [Next]_vars => CalmListed'
<1> SUFFICES ASSUME MaxEntries > 0, TypeOK, Shape, Teardown, CalmAgreement, CalmListed, [Next]_vars
             PROVE  CalmListed'
  OBVIOUS
<1> USE ListKept, Apart, StatesAre, PartsFacts
    DEF GuiMoves, TimMoves, DrvMoves, NoMove, CalmListed, Listed,
     CalmAgreement, Alone, Agreement, Settled, Trying, Measuring, MayStart
<1>1. CASE Click
  BY NothingPosted, <1>1, ClickIs, ClickDoes
<1>2. CASE OpenSettings
  BY NothingPosted, <1>2, OpenSettingsIs, OpenSettingsDoes
<1>3. CASE CloseApplication
  BY NothingPosted, <1>3, CloseApplicationIs, CloseApplicationDoes
<1>4. CASE RetryExpires
  BY NothingPosted, <1>4, RetryExpiresIs, RetryExpiresDoes
<1>5. CASE MeterExpires
  BY <1>5, MeterExpiresIs, MeterExpiresDoes
<1>6. CASE EndpointLost
  BY NothingPosted, <1>6, EndpointLostIs, EndpointLostDoes
<1>7. CASE DriverNotices
  BY <1>7, DriverNoticesDoes
<1>8. CASE RunSlot
  BY <1>8, RunSlotDoes, ListShown
<1>9. ASSUME NEW t \in Threads, ClickedStopped(t) PROVE CalmListed'
  BY <1>9, ClickedStoppedIs, ClickedStoppedDoes
<1>10. ASSUME NEW t \in Threads, Stop(t) PROVE CalmListed'
  BY <1>10, StopIs, StopDoes
<1>11. ASSUME NEW t \in Threads, AwaitOff(t) PROVE CalmListed'
  BY <1>11, AwaitOffIs, AwaitOffDoes
<1>12. ASSUME NEW t \in Threads, Start(t) PROVE CalmListed'
  BY <1>12, StartIs, StartDoes
<1>13. ASSUME NEW t \in Threads, AwaitStart(t) PROVE CalmListed'
  BY <1>13, AwaitStartIs, AwaitStartDoes
<1>14. ASSUME NEW t \in Threads, Arm(t) PROVE CalmListed'
  BY <1>14, ArmIs, ArmDoes
<1>15. ASSUME NEW t \in Threads, Disarm(t) PROVE CalmListed'
  BY <1>15, DisarmIs, DisarmDoes
<1>16. ASSUME NEW t \in Threads, StartMeter(t) PROVE CalmListed'
  BY <1>16, StartMeterIs, StartMeterDoes
<1>17. ASSUME NEW t \in Threads, Set(t) PROVE CalmListed'
  <2>1. CASE t = "gui" /\ GuiMoves(Disconnects, ShowsClosed) /\ button' = "DISCONNECTED"
    BY <1>17, <2>1, SetDoes DEF ButtonStates
  <2>2. CASE t = "gui" /\ GuiMoves(Connects, ShowsOpened) /\ button' = "CONNECTED"
    BY <1>17, <2>2, SetDoes DEF ButtonStates
  <2>3. CASE t = "timers" /\ TimMoves(Connects, ShowsOpened) /\ button' = "CONNECTED"
    BY <1>17, <2>3, SetDoes DEF ButtonStates
  <2>4. CASE t = "gui" /\ GuiMoves(Schedules, ShowsClosed) /\ button' = "CONNECTING"
    BY <1>17, <2>4, SetDoes DEF ButtonStates
  <2>5. CASE t = "timers" /\ TimMoves(Schedules, ShowsClosed) /\ button' = "CONNECTING"
    BY <1>17, <2>5, SetDoes DEF ButtonStates
  <2>6. CASE t = "driver" /\ DrvMoves(onEndpointDisconnected, Lost7) /\ button' = "CONNECTING"
    BY <1>17, <2>6, SetDoes DEF ButtonStates
  <2>7. CASE t = "driver" /\ DrvMoves(Lost4, Lost3) /\ button' = "CONNECTING"
    BY <1>17, <2>7, SetDoes DEF ButtonStates
  <2>8. CASE t = "gui" /\ button' \in ButtonStates /\ GuiMoves(SetState(button'), Paints)
    BY <1>17, <2>8, SetDoes DEF ButtonStates
  <2>9. QED
    BY <1>17, <2>1, <2>2, <2>3, <2>4, <2>5, <2>6, <2>7, <2>8, SetIs
<1>18. ASSUME NEW t \in Threads, Paint(t) PROVE CalmListed'
  BY <1>18, PaintIs, PaintDoes, ListEmit
<1>19. ASSUME NEW t \in Threads, Signal(t) PROVE CalmListed'
  <2>1. PICK m \in Signals : SignalDoes(t, m)
    BY <1>19, SignalIsOne
  <2>2. CASE m \in {"opened", "closed"} /\ "listeners" \notin has
    BY <2>1, <2>2 DEF SignalDoes
  <2>3. CASE Emit(t, m) /\ m = "opened"
    <3>1. SUFFICES ASSUME "calm" \in env, has = Parts PROVE Listed'
      BY <2>1 DEF SignalDoes
    <3>2. Alone /\ Agreement /\ Listed
      BY <3>1
    <3>3. CASE t = "gui" /\ GuiMoves(SaysOpened, Measures)
      BY <2>1, <2>3, <3>2, <3>3, OpenedEmit DEF SignalDoes
    <3>4. CASE t = "timers" /\ TimMoves(SaysOpened, Measures)
      BY <2>1, <2>3, <3>2, <3>4, OpenedEmit DEF SignalDoes
    <3>5. QED
      BY <2>1, <2>3, <3>3, <3>4, SignalIs DEF SignalDoes
  <2>4. CASE Emit(t, m) /\ m = "closed"
    <3>1. SUFFICES ASSUME "calm" \in env, has = Parts PROVE Listed'
      BY <2>1 DEF SignalDoes
    <3>2. Alone /\ Agreement /\ Listed
      BY <3>1
    <3>3. CASE t = "gui" /\ GuiMoves(SaysClosed, Done)
      BY <2>1, <2>4, <3>2, <3>3, ClosedEmit DEF Uncounted, SignalDoes
    <3>4. CASE t = "timers" /\ TimMoves(SaysClosed, Done)
      BY <2>1, <2>4, <3>2, <3>4, ClosedEmit DEF Uncounted, SignalDoes
    <3>5. CASE t = "driver" /\ DrvMoves(Lost6, Lost5)
      BY <2>1, <2>4, <3>2, <3>5, ClosedEmit DEF SignalDoes
    <3>6. CASE t = "driver" /\ DrvMoves(Lost2, Lost1)
      BY <2>1, <2>4, <3>2, <3>6, ClosedEmit DEF SignalDoes
    <3>7. QED
      BY <2>1, <2>4, <3>3, <3>4, <3>5, <3>6, SignalIs DEF SignalDoes
  <2>5. CASE Emit(t, m) /\ m \notin {"opened", "closed"}
    BY <2>1, <2>5, SignalIs, ListEmit DEF SignalDoes
  <2>6. QED
    BY <2>1, <2>2, <2>3, <2>4, <2>5 DEF SignalDoes
<1>20. ASSUME NEW t \in Threads, CloseDialog(t) PROVE CalmListed'
  BY <1>20, CloseDialogIs, CloseDialogDoes
<1>21. ASSUME NEW t \in Threads, ReplaceProxy(t) PROVE CalmListed'
  BY <1>21, ReplaceProxyIs, ReplaceProxyDoes
<1>22. ASSUME NEW t \in Threads, DropListeners(t) PROVE CalmListed'
  BY <1>22, DropListenersIs, DropListenersDoes
<1>23. ASSUME NEW t \in Threads, DropRetry(t) PROVE CalmListed'
  BY <1>23, DropRetryIs, DropRetryDoes
<1>24. ASSUME NEW t \in Threads, DropMeter(t) PROVE CalmListed'
  BY <1>24, DropMeterIs, DropMeterDoes
<1>25. ASSUME NEW t \in Threads, DropProxy(t) PROVE CalmListed'
  BY <1>25, DropProxyIs, DropProxyDoes
<1>26. ASSUME NEW t \in Threads, Leave(t) PROVE CalmListed'
  BY <1>26, LeaveIs, LeaveDoes
<1>27. CASE UNCHANGED vars
  BY <1>27, NoMoveIs DEF vars
<1>28. QED
  BY <1>1, <1>2, <1>3, <1>4, <1>5, <1>6, <1>7, <1>8, <1>9, <1>10, <1>11,
     <1>12, <1>13, <1>14, <1>15, <1>16, <1>17, <1>18, <1>19, <1>20, <1>21,
     <1>22, <1>23, <1>24, <1>25, <1>26, <1>27 DEF Next, Step, Gone

---------------------------------------------------------------------------
(* The theorems *)

\* The invariant holds at first...
LEMMA PortInit == Init => TypeOK /\ Shape /\ Teardown /\ Metered /\ Cleared /\ Trials
        /\ CalmAgreement /\ CalmColoured
<1> SUFFICES ASSUME Init PROVE TypeOK /\ Shape /\ Teardown /\ Metered /\ Cleared /\ Trials
        /\ CalmAgreement /\ CalmColoured
  OBVIOUS
<1>1. Gui = Done /\ Tim = Done /\ Drv = Done /\ Shape
  BY DEF Init, Gui, Tim, Drv, Done, Threads, Shape, GuiRests, TimersRests,
     DriverRests
<1>2. TypeOK
  <2>1. StateOK
    BY ConstantsAssumption
    DEF Init, StateOK, Env, Parts, ButtonStates, DriverStates
  <2>2. ScreenOK
    BY DEF Init, ScreenOK, ButtonStates
  <2>3. todo \in [Threads -> Seq(Steps)]
    BY EmptyFacts DEF Init
  <2>4. QED
    BY <2>1, <2>2, <2>3 DEF TypeOK, StateOK, ScreenOK
<1>3. Teardown
  BY <1>1, PartsFacts, Apart DEF Init, Teardown
<1>4. Metered
  BY <1>1, Apart DEF Init, Metered
<1>5. Cleared
  BY <1>1, Apart DEF Init, Cleared, RateLeaves
<1>6. Trials
  BY <1>1, Apart DEF Init, Trials, TrialOn, Trying
<1>7. CalmAgreement
  BY <1>1, Apart
  DEF Init, CalmAgreement, Alone, Agreement, Settled, Trying, Measuring
<1>8. CalmColoured
  BY <1>1, NothingPosted DEF Init, CalmColoured, Coloured, Matches
<1>9. QED
  BY <1>1, <1>2, <1>3, <1>4, <1>5, <1>6, <1>7, <1>8

\* What every reachable state of a port satisfies.
IInv == TypeOK /\ Shape /\ Teardown /\ Metered /\ Cleared /\ Trials
        /\ CalmAgreement /\ CalmColoured

\* ... and is kept.
LEMMA PortInvariant == Spec => []IInv
<1>1. Init => IInv
  BY PortInit DEF IInv
<1>2. IInv /\ [Next]_vars => IInv'
  BY TypeStep, ShapeStep, TeardownStep, MeteredStep, ClearedStep, TrialsStep,
     CalmAgreementStep, CalmColouredStep DEF IInv
<1>3. QED
  BY <1>1, <1>2, PTL DEF Spec

\* Types, and that a port is never removed from an empty combo box.
THEOREM TypeCorrect == Spec => []TypeOK
<1>1. IInv => TypeOK
  BY DEF IInv
<1>2. QED
  BY <1>1, PortInvariant, PTL

\* Nothing is in progress: every thread is at the end of its handler.
LEMMA QuietIs == Quiet => posted = <<>> /\ Gui = Done /\ Tim = Done /\ Drv = Done
BY IdleIs DEF Quiet, Threads

\* However clicks, retries and windows interleave (Port::onTimeout,
\* Port::tryConnect): a port that is connected is being measured once all is
\* quiet, and one that is not measured shows no rate.
THEOREM ThroughputIsTrue == Spec => []ThroughputTrue
<1>1. IInv => MeterRuns
  <2> SUFFICES ASSUME IInv, Quiet, button = "CONNECTED" PROVE meter
    BY DEF MeterRuns
  <2>1. "meter" \in has
    BY QuietIs, PartsFacts, Apart DEF IInv, Teardown
  <2>2. QED
    BY <2>1, QuietIs, Apart DEF IInv, Metered
<1>2. IInv => RateCleared
  <2> SUFFICES ASSUME IInv, Quiet, has = Parts, ~meter PROVE ~ui.rate
    BY DEF RateCleared
  <2>1. RateLeaves
    BY QuietIs, PartsFacts, Apart DEF IInv, Cleared
  <2>2. ~Waits("norate")
    BY QuietIs DEF Waits
  <2>3. QED
    BY <2>1, <2>2 DEF RateLeaves
<1>3. QED
  BY <1>1, <1>2, PortInvariant, PTL DEF ThroughputTrue

\* A port left CONNECTING has its retry timer running, a closed one has not,
\* if endpoints are not lost in the middle of a handler; and once ~Port() has
\* destroyed m_proxy nothing of the port runs or will run, in any environment.
THEOREM RetriesAreStable == Spec => []StableRetries
<1>1. IInv => StableTrialPending
  <2> SUFFICES ASSUME IInv, "stable" \in env, Quiet, button = "CONNECTING", ~isStarted
               PROVE  retry
    BY DEF StableTrialPending, TrialPending
  <2>1. QED
    BY QuietIs, Apart DEF IInv, Trials, TrialOn, Trying, isStarted
<1>2. IInv => StableAbortIsFinal
  <2> SUFFICES ASSUME IInv, "stable" \in env, Quiet, button = "DISCONNECTED" PROVE ~retry
    BY DEF StableAbortIsFinal, isOpened
  <2>1. QED
    BY QuietIs, Apart DEF IInv, Trials, TrialOn, Trying
<1>3. IInv => GoneForGood
  <2> SUFFICES ASSUME IInv, "proxy" \notin has
               PROVE  drv = "off" /\ Drv = Done /\ Tim = Done /\ ~retry /\ ~meter
    BY IdleIs DEF GoneForGood
  <2>1. QED
    BY PartsFacts DEF IInv, Teardown
<1>4. QED
  BY <1>1, <1>2, <1>3, PortInvariant, PTL DEF StableRetries

\* The combo box, if its entries are counted at all.
LEMMA ListInvariant == MaxEntries > 0 => (Spec => []CalmListed)
<1> SUFFICES ASSUME MaxEntries > 0 PROVE Spec => []CalmListed
  OBVIOUS
<1>1. Init => CalmListed
  <2> SUFFICES ASSUME Init PROVE CalmListed
    OBVIOUS
  <2>1. Gui = Done /\ Tim = Done /\ Drv = Done
    BY DEF Init, Gui, Tim, Drv, Done, Threads
  <2>2. Uncounted /\ ~Waits("opened")
    BY NothingPosted DEF Init
  <2>3. QED
    BY <2>1, <2>2, Apart DEF Init, CalmListed, Listed, ComboOK, NoEntry
<1>2. IInv /\ CalmListed /\ [Next]_vars => CalmListed'
  BY CalmListedStep DEF IInv
<1>3. QED
  BY <1>1, <1>2, PortInvariant, PTL DEF Spec

\* Handlers that do not overlap leave m_buttonState, the driver, the retry timer,
\* the colour and the combo box agreeing.
THEOREM AloneTheyAgree == MaxEntries > 0 => (Spec => []CalmAgrees)
<1> SUFFICES ASSUME MaxEntries > 0 PROVE Spec => []CalmAgrees
  OBVIOUS
<1>1. IInv /\ CalmListed => CalmAgrees
  <2> SUFFICES ASSUME IInv, CalmListed, "calm" \in env, Quiet, has = Parts
               PROVE  /\ button = "CONNECTED" <=> drv = "on"
                      /\ button = "CONNECTING" <=> retry
                      /\ ui.colour = button
                      /\ ui.combo = IF button = "CONNECTED" THEN 1 ELSE 0
    BY DEF CalmAgrees
  <2>1. posted = <<>> /\ Gui = Done /\ Tim = Done /\ Drv = Done
    BY QuietIs
  <2>2. Settled
    BY <2>1 DEF IInv, CalmAgreement, Agreement
  <2>3. Matches
    BY <2>1, Apart DEF IInv, CalmColoured, Coloured
  <2>4. ui.colour = button
    BY <2>1, <2>3 DEF Matches
  <2>5. IF button = "CONNECTED" THEN OneEntry ELSE NoEntry
    BY <2>1, Apart DEF CalmListed, Listed
  <2>6. ui.combo = IF button = "CONNECTED" THEN 1 ELSE 0
    BY <2>1, <2>5, NothingPosted DEF OneEntry, NoEntry
  <2>7. QED
    BY <2>2, <2>4, <2>6 DEF Settled
<1>2. QED
  BY <1>1, ListInvariant, PortInvariant, PTL

\* Port::handleNewSettings() never destroys an m_proxy that is started or that
\* a retry is using.
THEOREM IdleProxyReplaced == Spec => CalmReplacesIdleProxy
<1>1. IInv => \A t \in Threads : "calm" \in env /\ ReplaceProxy(t)
                  => drv = "off" /\ ~UsesProxy("timers")
  <2> SUFFICES ASSUME IInv, NEW t \in Threads, "calm" \in env, ReplaceProxy(t)
               PROVE  drv = "off" /\ ~UsesProxy("timers")
    OBVIOUS
  <2>1. TypeOK /\ Shape /\ Teardown /\ CalmAgreement
    BY DEF IInv
  <2>2. Gui = Replaces
    BY <2>1, ReplaceProxyIs DEF GuiMoves
  <2>3. has = Parts
    BY <2>1, <2>2, Apart DEF Teardown
  <2>4. drv = "off" /\ Tim \in Measuring \union {Done}
    BY <2>1, <2>2, <2>3, Apart DEF CalmAgreement, Alone, Agreement
  <2>5. Tim = Done \/ First(Tim) \in {"startMeter", "rate", "norate"}
    BY <2>4, Apart DEF Measuring
  <2>6. ~UsesProxy("timers")
    BY <2>5, AtIs DEF UsesProxy, Tim, Threads, Steps
  <2>7. QED
    BY <2>4, <2>6
<1>2. QED
  BY <1>1, PortInvariant, PTL DEF CalmReplacesIdleProxy
=============================================================================
