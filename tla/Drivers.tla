------------------------------ MODULE Drivers ------------------------------
(***************************************************************************)
(* The three drivers behind a port side by side, for the properties they   *)
(* share: a behaviour is one of the serial port, of commands or of the TCP *)
(* client, and the other drivers stay as they were constructed.            *)
(***************************************************************************)
EXTENDS SerialDriver

CONSTANTS
    MaxStarts, MaxLines, \* of commands
    Callers              \* of the TCP client

VARIABLES
    kind,  \* whose behaviour this is, never changed
    cEnv, cPc, cWpc, cState, cAsked, cDying, cExecutor, cUnread, cGot, cEvent,
    cProc, cWritten, cHeard, cTold, cWorker, cThread,
    sEnv, sState, m_sock_fd, sock, sWpc, sThread, sEvent, registered, op, sPc,
    ret, mine, taken, gone

C == INSTANCE ProcessDriver WITH
    Envs <- [prompt : BOOLEAN, lingers : BOOLEAN],
    env <- cEnv, pc <- cPc, wpc <- cWpc, m_state <- cState, asked <- cAsked,
    dying <- cDying, executor <- cExecutor, unread <- cUnread, got <- cGot,
    event <- cEvent, proc <- cProc, written <- cWritten, heard <- cHeard,
    told <- cTold, worker <- cWorker, thread <- cThread

S == INSTANCE SocketClient WITH
    Envs <- [orderly : BOOLEAN, prompt : BOOLEAN],
    env <- sEnv, m_state <- sState, wpc <- sWpc, thread <- sThread,
    event <- sEvent, pc <- sPc

ASSUME CommandsAssumption == C!ConstantsSound
ASSUME ClientAssumption == S!ConstantsSound

commands == <<cEnv, cPc, cWpc, cState, cAsked, cDying, cExecutor, cUnread, cGot,
              cEvent, cProc, cWritten, cHeard, cTold, cWorker, cThread>>
client == <<sEnv, sState, m_sock_fd, sock, sWpc, sThread, sEvent, registered, op,
            sPc, ret, mine, taken, gone>>
allVars == <<kind, vars, commands, client>>

\* The environment of a driver that is not there is of no account; it is one
\* in which nobody waits for its calls to return.
DriversInit ==
    /\ Init /\ C!Init /\ S!Init
    /\ kind \in {"serial", "commands", "client"}
    /\ kind # "serial" => ~env.prompt /\ env.orderly
    /\ kind # "commands" => ~cEnv.prompt /\ cEnv.lingers
    /\ kind # "client" => ~sEnv.prompt /\ sEnv.orderly

SerialOnly == kind = "serial" /\ UNCHANGED <<kind, commands, client>>
CommandsOnly == kind = "commands" /\ UNCHANGED <<kind, vars, client>>
ClientOnly == kind = "client" /\ UNCHANGED <<kind, vars, commands>>

DriversNext ==
    \/ Next /\ SerialOnly
    \/ C!Next /\ CommandsOnly
    \/ S!Next /\ ClientOnly

DriversSpec == DriversInit /\ [][DriversNext]_allVars

\* What runs by itself: the thread of the driver that is there, and whoever
\* called it until the call returns.
AThread ==
    \/ Thread /\ SerialOnly
    \/ C!Thread /\ CommandsOnly
    \/ S!Worker /\ ClientOnly

ACall ==
    \/ OwnerProceeds /\ SerialOnly
    \/ C!OwnerProceeds /\ CommandsOnly

DriversFairSpec ==
    /\ DriversSpec
    /\ WF_allVars(AThread) /\ WF_allVars(ACall)
    /\ \A c \in Callers : WF_allVars(S!CallerProceeds(c) /\ ClientOnly)

\* The types of the three drivers and of their workers.
TypesOK == TypeOK /\ C!TypeOK /\ S!TypeOK

\* Nothing is used that another owns, closed or destroyed, and a loss is
\* reported only of a device that went, and once.
SerialSound == OwnershipSound /\ LossesAreReal

\* The end of a command is reported once and last, and after stop() nothing is.
StoppedIsTheEnd == C!StoppedIsTheEnd
PromptStopIsQuiet == C!PromptStopIsQuiet

\* What the listeners of the TCP client hear: nothing once disconnect() can
\* return or the listener is removed, and a loss once and only if it is one.
ClientEventsSound == S!EventsSound

\* What calls of the TCP client do that do not overlap the worker's teardown:
\* no socket leaks or is served without having been asked for, and connect()
\* tells the truth.
ClientCallsSound == S!OrderlySound

\* Each driver's thread answers its device, process or server, and its owner.
ThreadsRespond == ThreadResponds /\ C!ThreadResponds /\ S!WorkerAnswers
=============================================================================
