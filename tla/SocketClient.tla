--------------------------- MODULE SocketClient ---------------------------
(***************************************************************************)
(* The TCP client driver (src/sw/Drivers/source/SocketClient.cpp): the     *)
(* threads that call connect(), disconnect() and the destructor, and the   *)
(* one worker thread that reads the socket, synchronised by m_state,       *)
(* m_mutex / m_cond_var and the plain integer m_sock_fd.                   *)
(*                                                                         *)
(* A step is one access to the shared state, or one critical section of    *)
(* m_mutex.  m_mutex itself needs no variable: it is held only inside such *)
(* a section or released by a condition wait, and the one assignment made  *)
(* without it (m_state = IDLE) is a step of its own.                       *)
(***************************************************************************)
EXTENDS Integers, FiniteSets

CONSTANTS
    Callers,    \* the threads that use the driver (GUI thread, timers thread)
    MaxFd,      \* bound: how many sockets are created in a behaviour
    Envs        \* the environments considered, see Env

None == -1      \* the value of m_sock_fd when there is no socket

Env == [orderly : BOOLEAN, \* one operation at a time, and connect() is not
                           \* called while the worker tears a socket down
        prompt  : BOOLEAN] \* no 500 ms condition wait expires

ConstantsSound ==
    /\ Callers # {}
    /\ MaxFd \in Nat \ {0}
    /\ Envs \subseteq Env

VARIABLES
    env,        \* the environment of this behaviour, never changed
    m_state,    \* std::atomic<State>
    m_sock_fd,  \* the descriptor in use, a plain int
    sock,       \* kernel: what became of each descriptor
    wpc,        \* where the worker thread is in receivingThread()
    thread,     \* m_worker's ThreadState
    event,      \* the event being delivered while wpc = "callback"
    registered, \* a listener is on m_listeners
    op, pc,     \* per caller: the operation and where it stands
    ret,        \* per caller: what the last connect() returned
    mine,       \* per caller: the descriptor its connect() created
    taken,      \* history: descriptors the worker started to serve
    gone        \* history: per descriptor, SERVER_DISCONNECTED events

vars == <<env, m_state, m_sock_fd, sock, wpc, thread, event, registered,
          op, pc, ret, mine, taken, gone>>

Fd == 1 .. MaxFd

States == {"IDLE", "CONNECTING", "CONNECTED", "DISCONNECTING", "CLOSING"}

\* What a descriptor is for the kernel: "new" before connect(2) succeeded,
\* "linked" to the server, "hungup" once the server closed its end.
SockStates == {"unused", "new", "linked", "hungup", "closed"}

WorkerSteps == {"loop", "wait", "serve", "recv", "callback", "setIdle",
                "close", "clear", "exited"}

Ops == {"none", "connect", "disconnect", "destroy"}

CallerSteps == {"idle", "socket", "setup", "request", "awaitStart",
                "discCheck", "discSet", "awaitIdle", "closing", "stop",
                "join", "return", "dead"}

Init ==
    /\ env \in Envs
    /\ m_state = "IDLE"
    /\ m_sock_fd = None
    /\ sock = [f \in Fd |-> "unused"]
    /\ wpc = "loop"
    /\ thread = "RUNNING"
    /\ event = "NONE"
    /\ registered = FALSE
    /\ op = [c \in Callers |-> "none"]
    /\ pc = [c \in Callers |-> "idle"]
    /\ ret = [c \in Callers |-> FALSE]
    /\ mine = [c \in Callers |-> None]
    /\ taken = {}
    /\ gone = [f \in Fd |-> 0]

---------------------------------------------------------------------------
(* Helpers.  The definitions named Slip... are not used by the              *)
(* specification: each is what a small mistake in the code would turn the  *)
(* helper or action after it into, and some property must reject it.       *)

SlipIsConnected == m_state = "CONNECTED"

isConnected == m_state \in {"CONNECTING", "CONNECTED"}

IsOpen(f) == f \in Fd /\ sock[f] \in {"new", "linked", "hungup"}

SlipClosed(f) == sock

\* close(2): closing None, or a descriptor twice, changes nothing.
Closed(f) == IF IsOpen(f) THEN [sock EXCEPT ![f] = "closed"] ELSE sock

SlipClearedFd == m_sock_fd

SlipZeroFd == 0

\* What m_sock_fd is set to after a close.
ClearedFd == None

SlipKeepsServing == m_state # "IDLE"

\* The condition of the receive loops.
KeepsServing == m_state = "CONNECTED"

SlipStarted == TRUE

\* What connect() waits for: any state but CONNECTING counts as success.
Started == m_state # "CONNECTING"

SlipListenersFree == TRUE

\* notifyListeners() holds m_listeners_mutex during the callback.
ListenersFree == wpc # "callback"

SlipWakesTo(s) == IF s = "CONNECTING" THEN "serve" ELSE "setIdle"

\* Where the worker goes when it wakes and finds m_state = s.
WakesTo(s) == CASE s = "CONNECTING" -> "serve"
                [] s = "CLOSING"    -> "exited"
                [] OTHER            -> "setIdle"

SlipAfterCallback == "serve"

\* SERVER_DISCONNECTED breaks out of the receive loop.
AfterCallback == IF event = "SERVER_DISCONNECTED" THEN "setIdle" ELSE "serve"

Goto(c, step) == pc' = [pc EXCEPT ![c] = step]

Alive == \A c \in Callers : op[c] # "destroy"

\* The worker is between finding that it must stop serving and m_sock_fd = -1.
TearingDown == \/ wpc \in {"setIdle", "close", "clear"}
               \/ m_state = "DISCONNECTING"

MayStart(c) ==
    /\ pc[c] = "idle"
    /\ Alive
    /\ env.orderly => \A d \in Callers : pc[d] = "idle"

callerVars == <<op, ret, mine>>
workerVars == <<wpc, thread, event, taken, gone>>

---------------------------------------------------------------------------
(* connect() *)

\* Entry and the isConnected() test; a connected client refuses.
ConnectCall(c) ==
    /\ MayStart(c)
    /\ ~isConnected /\ env.orderly => ~TearingDown
    /\ op' = [op EXCEPT ![c] = "connect"]
    /\ ret' = [ret EXCEPT ![c] = FALSE]
    /\ mine' = [mine EXCEPT ![c] = None]
    /\ Goto(c, IF isConnected THEN "return" ELSE "socket")
    /\ UNCHANGED <<env, m_state, m_sock_fd, sock, registered, workerVars>>

\* m_sock_fd = socket(...); a failure stores -1 and connect() returns false.
ConnectSocket(c) ==
    /\ pc[c] = "socket"
    /\ \/ \E f \in Fd :
            /\ sock[f] = "unused"
            /\ \A g \in Fd : g < f => sock[g] # "unused"
            /\ m_sock_fd' = f
            /\ sock' = [sock EXCEPT ![f] = "new"]
            /\ mine' = [mine EXCEPT ![c] = f]
            /\ Goto(c, "setup")
       \/ /\ m_sock_fd' = None
          /\ Goto(c, "return")
          /\ UNCHANGED <<sock, mine>>
    /\ UNCHANGED <<env, m_state, registered, op, ret, workerVars>>

\* setsockopt, inet_pton and connect(2) on m_sock_fd as it is now.
ConnectSetupOk(c) ==
    /\ pc[c] = "setup"
    /\ IsOpen(m_sock_fd)
    /\ sock[m_sock_fd] = "new"
    /\ sock' = [sock EXCEPT ![m_sock_fd] = "linked"]
    /\ Goto(c, "request")
    /\ UNCHANGED <<env, m_state, m_sock_fd, registered, callerVars, workerVars>>

\* One of the three calls fails: close(m_sock_fd); m_sock_fd = -1.
ConnectSetupFails(c) ==
    /\ pc[c] = "setup"
    /\ sock' = Closed(m_sock_fd)
    /\ m_sock_fd' = ClearedFd
    /\ Goto(c, "return")
    /\ UNCHANGED <<env, m_state, registered, callerVars, workerVars>>

\* Under m_mutex: m_state = CONNECTING and notify.
ConnectRequest(c) ==
    /\ pc[c] = "request"
    /\ m_state' = "CONNECTING"
    /\ Goto(c, "awaitStart")
    /\ UNCHANGED <<env, m_sock_fd, sock, registered, callerVars, workerVars>>

\* The 500 ms wait for the worker; connect() returns whether it saw Started.
ConnectAwait(c) ==
    /\ pc[c] = "awaitStart"
    /\ \/ /\ Started
          /\ ret' = [ret EXCEPT ![c] = TRUE]
       \/ /\ ~Started
          /\ ~env.prompt
          /\ UNCHANGED ret
    /\ Goto(c, "return")
    /\ UNCHANGED <<env, m_state, m_sock_fd, sock, registered, op, mine,
                   workerVars>>

---------------------------------------------------------------------------
(* disconnect() and the destructor, which calls it *)

DisconnectCall(c) ==
    /\ MayStart(c)
    /\ op' = [op EXCEPT ![c] = "disconnect"]
    /\ Goto(c, "discCheck")
    /\ UNCHANGED <<env, m_state, m_sock_fd, sock, registered, ret, mine,
                   workerVars>>

\* The object may be destroyed only when nobody is inside it.
DestroyCall(c) ==
    /\ MayStart(c)
    /\ \A d \in Callers : pc[d] = "idle"
    /\ op' = [op EXCEPT ![c] = "destroy"]
    /\ Goto(c, IF isConnected THEN "discCheck" ELSE "closing")
    /\ UNCHANGED <<env, m_state, m_sock_fd, sock, registered, ret, mine,
                   workerVars>>

AfterDisconnect(c) == IF op[c] = "destroy" THEN "closing" ELSE "return"

\* if (isConnected()), read before the lock is taken.
DisconnectCheck(c) ==
    /\ pc[c] = "discCheck"
    /\ Goto(c, IF isConnected THEN "discSet" ELSE AfterDisconnect(c))
    /\ UNCHANGED <<env, m_state, m_sock_fd, sock, registered, callerVars,
                   workerVars>>

SlipDisconnectSet(c) ==
    /\ pc[c] = "discSet"
    /\ m_state' = "IDLE"
    /\ Goto(c, "awaitIdle")
    /\ UNCHANGED <<env, m_sock_fd, sock, registered, callerVars, workerVars>>

DisconnectSet(c) ==
    /\ pc[c] = "discSet"
    /\ m_state' = "DISCONNECTING"
    /\ Goto(c, "awaitIdle")
    /\ UNCHANGED <<env, m_sock_fd, sock, registered, callerVars, workerVars>>

\* wait_for(..., m_state == IDLE), whose result is ignored.
DisconnectAwait(c) ==
    /\ pc[c] = "awaitIdle"
    /\ m_state = "IDLE" \/ ~env.prompt
    /\ Goto(c, AfterDisconnect(c))
    /\ UNCHANGED <<env, m_state, m_sock_fd, sock, registered, callerVars,
                   workerVars>>

DestroyClosing(c) ==
    /\ pc[c] = "closing"
    /\ m_state' = "CLOSING"
    /\ Goto(c, "stop")
    /\ UNCHANGED <<env, m_sock_fd, sock, registered, callerVars, workerVars>>

\* m_worker.stop(), by the destructor or by ~ThreadWorker.
DestroyStop(c) ==
    /\ pc[c] = "stop"
    /\ thread' = "STOPPING"
    /\ Goto(c, "join")
    /\ UNCHANGED <<env, m_state, m_sock_fd, sock, registered, callerVars,
                   wpc, event, taken, gone>>

DestroyJoin(c) ==
    /\ pc[c] = "join"
    /\ wpc = "exited"
    /\ Goto(c, "dead")
    /\ UNCHANGED <<env, m_state, m_sock_fd, sock, registered, callerVars,
                   workerVars>>

Return(c) ==
    /\ pc[c] = "return"
    /\ op' = [op EXCEPT ![c] = "none"]
    /\ Goto(c, "idle")
    /\ UNCHANGED <<env, m_state, m_sock_fd, sock, registered, ret, mine,
                   workerVars>>

\* addListener() and removeListener() take m_listeners_mutex.
ChangeListener(c) ==
    /\ MayStart(c)
    /\ ListenersFree
    /\ registered' = ~registered
    /\ UNCHANGED <<env, m_state, m_sock_fd, sock, callerVars, pc, workerVars>>

---------------------------------------------------------------------------
(* receivingThread() *)

WorkerLoop ==
    /\ wpc = "loop"
    /\ wpc' = IF thread = "RUNNING" THEN "wait" ELSE "exited"
    /\ thread' = IF thread = "RUNNING" THEN thread ELSE "STOPPED"
    /\ UNCHANGED <<env, m_state, m_sock_fd, sock, event, registered,
                   callerVars, pc, taken, gone>>

\* The critical section after wait(..., m_state != IDLE).
WorkerWake ==
    /\ wpc = "wait"
    /\ m_state # "IDLE"
    /\ m_state' = IF m_state = "CONNECTING" THEN "CONNECTED" ELSE m_state
    /\ wpc' = WakesTo(m_state)
    /\ thread' = IF wpc' = "exited" THEN "STOPPED" ELSE thread
    /\ taken' = IF m_state = "CONNECTING" THEN taken \union {m_sock_fd}
                                          ELSE taken
    /\ UNCHANGED <<env, m_sock_fd, sock, event, registered, callerVars, pc,
                   gone>>

\* The head of the receive loop.
WorkerServe ==
    /\ wpc = "serve"
    /\ wpc' = IF KeepsServing THEN "recv" ELSE "setIdle"
    /\ UNCHANGED <<env, m_state, m_sock_fd, sock, thread, event, registered,
                   callerVars, pc, taken, gone>>

\* recv(m_sock_fd): data, end of stream, or an error or receive timeout, after
\* which the loop just goes round.  Without a listener no callback runs.
WorkerRecv ==
    /\ wpc = "recv"
    /\ \/ /\ IsOpen(m_sock_fd) /\ sock[m_sock_fd] = "linked"
          /\ IF registered
             THEN event' = "SERVER_DATA_RECV" /\ wpc' = "callback"
             ELSE wpc' = "serve" /\ UNCHANGED event
          /\ UNCHANGED gone
       \/ /\ IsOpen(m_sock_fd) /\ sock[m_sock_fd] = "hungup"
          /\ IF registered
             THEN /\ event' = "SERVER_DISCONNECTED"
                  /\ wpc' = "callback"
                  /\ gone' = [gone EXCEPT ![m_sock_fd] = @ + 1]
             ELSE wpc' = "setIdle" /\ UNCHANGED <<event, gone>>
       \/ /\ IsOpen(m_sock_fd) => sock[m_sock_fd] # "hungup"
          /\ wpc' = "serve"
          /\ UNCHANGED <<event, gone>>
    /\ UNCHANGED <<env, m_state, m_sock_fd, sock, thread, registered,
                   callerVars, pc, taken>>

\* The listeners return.
WorkerCallbackReturns ==
    /\ wpc = "callback"
    /\ wpc' = AfterCallback
    /\ event' = "NONE"
    /\ UNCHANGED <<env, m_state, m_sock_fd, sock, thread, registered,
                   callerVars, pc, taken, gone>>

\* m_state = State::IDLE, outside m_mutex and whatever m_state was.
WorkerSetIdle ==
    /\ wpc = "setIdle"
    /\ m_state' = "IDLE"
    /\ wpc' = "close"
    /\ UNCHANGED <<env, m_sock_fd, sock, thread, event, registered,
                   callerVars, pc, taken, gone>>

WorkerClose ==
    /\ wpc = "close"
    /\ sock' = Closed(m_sock_fd)
    /\ wpc' = "clear"
    /\ UNCHANGED <<env, m_state, m_sock_fd, thread, event, registered,
                   callerVars, pc, taken, gone>>

\* m_sock_fd = -1, then notify_all().
WorkerClear ==
    /\ wpc = "clear"
    /\ m_sock_fd' = ClearedFd
    /\ wpc' = "loop"
    /\ UNCHANGED <<env, m_state, sock, thread, event, registered,
                   callerVars, pc, taken, gone>>

---------------------------------------------------------------------------
(* The remote server closes its end of a connection. *)
ServerCloses(f) ==
    /\ sock[f] = "linked"
    /\ sock' = [sock EXCEPT ![f] = "hungup"]
    /\ UNCHANGED <<env, m_state, m_sock_fd, registered, callerVars, pc,
                   workerVars>>

Worker ==
    \/ WorkerLoop \/ WorkerWake \/ WorkerServe \/ WorkerRecv
    \/ WorkerCallbackReturns
    \/ WorkerSetIdle \/ WorkerClose \/ WorkerClear

\* The steps of an operation that has begun.
CallerProceeds(c) ==
    \/ ConnectSocket(c) \/ ConnectSetupOk(c) \/ ConnectSetupFails(c)
    \/ ConnectRequest(c) \/ ConnectAwait(c)
    \/ DisconnectCheck(c) \/ DisconnectSet(c) \/ DisconnectAwait(c)
    \/ DestroyClosing(c) \/ DestroyStop(c) \/ DestroyJoin(c)
    \/ Return(c)

CallerStarts(c) ==
    \/ ConnectCall(c) \/ DisconnectCall(c) \/ DestroyCall(c)
    \/ ChangeListener(c)

Next ==
    \/ Worker
    \/ \E c \in Callers : CallerProceeds(c) \/ CallerStarts(c)
    \/ \E f \in Fd : ServerCloses(f)

Spec == Init /\ [][Next]_vars

\* Every thread that can run does, and a receive timeout cannot hide the end
\* of the stream for ever; nobody has to call, and the server need not close.
Fairness ==
    /\ WF_vars(Worker)
    /\ \A c \in Callers : WF_vars(CallerProceeds(c))

FairSpec == Spec /\ Fairness

---------------------------------------------------------------------------
(* Properties *)

\* Types; also that m_sock_fd is never the number of a socket that does not exist.
TypeOK ==
    /\ env \in Env
    /\ m_state \in States
    /\ m_sock_fd \in Fd \union {None}
    /\ sock \in [Fd -> SockStates]
    /\ wpc \in WorkerSteps
    /\ thread \in {"RUNNING", "STOPPING", "STOPPED"}
    /\ event \in {"NONE", "SERVER_DATA_RECV", "SERVER_DISCONNECTED"}
    /\ registered \in BOOLEAN
    /\ op \in [Callers -> Ops]
    /\ pc \in [Callers -> CallerSteps]
    /\ ret \in [Callers -> BOOLEAN]
    /\ mine \in [Callers -> Fd \union {None}]
    /\ taken \subseteq Fd \union {None}
    /\ gone \in [Fd -> Nat]

\* In every environment: once m_state is IDLE, which is what disconnect()
\* waits for, the worker neither reads the socket nor runs a callback.
IdleMeansQuiet ==
    m_state = "IDLE" => wpc \notin {"serve", "recv", "callback"}

\* In every environment: SERVER_DISCONNECTED is reported at most once per
\* socket, and only for a socket whose server did close (the break after the
\* notification, and the fact that a socket is served once).
OneDisconnectPerSocket ==
    \A f \in Fd : /\ gone[f] <= 1
                  /\ gone[f] = 1 => sock[f] \in {"hungup", "closed"}

\* removeListener() is a barrier: no callback runs on an unregistered listener.
NoCallbackAfterRemoval == wpc = "callback" => registered

\* No socket other than the one in m_sock_fd stays open.
NoLeak == \A f \in Fd : IsOpen(f) => f = m_sock_fd

\* The worker reads and delivers only from a socket it was started for and
\* that nobody closed under it.
ServesItsOwnSocket ==
    wpc \in {"recv", "callback"} => IsOpen(m_sock_fd) /\ m_sock_fd \in taken

\* connect() returned true: the worker took this very socket up.
ConnectTruth ==
    \A c \in Callers :
        pc[c] = "return" /\ op[c] = "connect" /\ ret[c] => mine[c] \in taken

\* connect() created a socket and returned false: no socket is left open and
\* the worker is not going to serve one.
ConnectFalsehood ==
    \A c \in Callers :
        pc[c] = "return" /\ op[c] = "connect" /\ ~ret[c] /\ mine[c] # None
            => m_sock_fd = None /\ m_state = "IDLE"

OrderlyNoLeak   == env.orderly => NoLeak
OrderlyOwn      == env.orderly => ServesItsOwnSocket
OrderlyTruth    == env.orderly => ConnectTruth
PromptFalsehood == env.orderly /\ env.prompt => ConnectFalsehood

\* What the listeners hear, in every environment: nothing once disconnect() can
\* return or the listener is removed, and a loss once and only if it is one.
EventsSound ==
    IdleMeansQuiet /\ OneDisconnectPerSocket /\ NoCallbackAfterRemoval

\* What calls do that do not overlap the worker's teardown: no socket leaks or
\* is served without having been asked for, and connect() tells the truth.
OrderlySound ==
    OrderlyNoLeak /\ OrderlyOwn /\ OrderlyTruth /\ PromptFalsehood

\* A request to connect or disconnect does not stay pending for ever: the
\* worker always gets back to m_state.
RequestsSettle ==
    m_state \in {"CONNECTING", "DISCONNECTING"}
        ~> m_state \notin {"CONNECTING", "DISCONNECTING"}

\* The destructor returns: the join in it does not wait for a worker that
\* missed CLOSING.
DestructorReturns ==
    \A c \in Callers :
        (env.orderly /\ env.prompt /\ op[c] = "destroy") ~> pc[c] = "dead"

\* Both: nobody waits for the worker for ever.
WorkerAnswers == RequestsSettle /\ DestructorReturns

---------------------------------------------------------------------------
(* What makes these properties inductive *)

\* What holds in every environment, strengthened until it is inductive: a
\* socket whose end was reported is on its way to being closed.
EveryEnvInv ==
    /\ IdleMeansQuiet
    /\ NoCallbackAfterRemoval
    /\ \A f \in Fd :
          gone[f] # 0 =>
            /\ gone[f] = 1
            /\ sock[f] \in {"hungup", "closed"}
            /\ m_sock_fd = f /\ sock[f] = "hungup" =>
                  \/ wpc = "callback" /\ event = "SERVER_DISCONNECTED"
                  \/ wpc \in {"setIdle", "close"}

\* Orderly calls: one caller is inside the driver, and where it stands tells
\* which operation it runs.
Serial ==
    /\ \A c, d \in Callers : pc[c] # "idle" /\ pc[d] # "idle" => c = d
    /\ \A c \in Callers :
          /\ pc[c] = "idle" => op[c] = "none"
          /\ pc[c] \in {"socket", "setup", "request", "awaitStart"}
                => op[c] = "connect" /\ ~ret[c]
          /\ pc[c] \in {"discCheck", "discSet", "awaitIdle"}
                => op[c] \in {"disconnect", "destroy"}
          /\ pc[c] \in {"closing", "stop", "join", "dead"} => op[c] = "destroy"
          /\ pc[c] = "return" => op[c] # "destroy"
          /\ op[c] = "destroy" => pc[c] # "idle"

\* CLOSING and the end of the worker come from the destructor only, after it
\* has given up on disconnecting.
Ending == {"stop", "join", "dead"}
EndsByDestroy ==
    /\ m_state = "CLOSING" \/ thread # "RUNNING" \/ wpc = "exited"
          => \E c \in Callers : pc[c] \in Ending
    /\ \A c \in Callers : pc[c] \in Ending => m_state \in {"IDLE", "CLOSING"}

\* While connect() prepares a socket the worker is parked, and the socket in
\* m_sock_fd is the one this call created.
Preparing ==
    \A c \in Callers :
        /\ pc[c] \in {"socket", "setup", "request"}
              => m_state = "IDLE" /\ wpc \in {"loop", "wait"}
        /\ pc[c] = "setup" => /\ m_sock_fd = mine[c] /\ m_sock_fd \in Fd
                              /\ sock[m_sock_fd] = "new"
        /\ pc[c] = "request" => m_sock_fd = mine[c] /\ IsOpen(m_sock_fd)
        /\ pc[c] = "awaitStart" =>
              \/ m_state = "CONNECTING" /\ m_sock_fd = mine[c]
              \/ mine[c] \in taken

\* Where the socket stands for each position of the worker.
SocketOfWorker ==
    /\ m_state = "CONNECTING" => IsOpen(m_sock_fd) /\ wpc \in {"loop", "wait"}
    /\ m_state = "CONNECTED"
          => wpc \in {"serve", "recv", "callback", "setIdle"}
    /\ wpc \in {"serve", "recv", "callback"}
          => IsOpen(m_sock_fd) /\ m_sock_fd \in taken
    /\ wpc = "clear" => ~IsOpen(m_sock_fd)
    /\ wpc \in {"loop", "wait"} /\ m_state = "IDLE"
        /\ (\A c \in Callers : pc[c] \notin {"setup", "request"})
          => m_sock_fd = None

\* With waits that do not expire, a failed connect() has undone its work.
Undone ==
    env.prompt => \A c \in Callers :
        pc[c] = "return" /\ op[c] = "connect" /\ ~ret[c] /\ mine[c] # None =>
            m_sock_fd = None /\ m_state = "IDLE" /\ wpc \in {"loop", "wait"}

OrderlyInv ==
    /\ Serial
    /\ EndsByDestroy
    /\ Preparing
    /\ SocketOfWorker
    /\ NoLeak
    /\ ConnectTruth
    /\ Undone

OrderlyIInv == env.orderly => OrderlyInv
===========================================================================
