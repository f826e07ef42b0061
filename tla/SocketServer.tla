--------------------------- MODULE SocketServer ---------------------------
(***************************************************************************)
(* The TCP server (src/sw/Drivers/source/SocketServer.cpp) with one        *)
(* ClientHandler (ClientHandler.cpp) per connection, and what its two      *)
(* users do around it: the Logger, which writes every line to it with its  *)
(* own mutex held, and an RPC server, whose listener writes replies.       *)
(*                                                                         *)
(* Every thread but the users' is a ThreadWorker; `state' is its m_state.  *)
(* A step ends where a thread takes or releases a mutex, or reads or       *)
(* writes what another thread may touch.  Lines logged by this code take   *)
(* the Logger's mutex for a moment: that is modelled (Logs) where another  *)
(* mutex is held meanwhile.  Listeners are registered throughout, and a    *)
(* send() returns.                                                         *)
(***************************************************************************)
EXTENDS Integers, Sequences

CONSTANTS
    Conns,      \* the connections clients make; also their handlers' threads
    Writers,    \* threads that write to the server
    Fd,         \* descriptors the kernel has for connections
    MaxLines,   \* bound: lines a client sends
    MaxStarts,  \* bound: calls of start()
    Envs        \* the environments considered, see Env

Env == [front  : BOOLEAN, \* the server is the Logger's socket front end
        prompt : BOOLEAN] \* a thread just started is seen running in a second

None == 0           \* no descriptor; descriptors are positive
Nobody == "nobody"  \* no thread, no connection

Threads == {"user", "listen", "work"} \union Conns \union Writers

Mutexes == {"handlers", "client", "listeners", "log"}

ASSUME ConstantsAssumption ==
    /\ {"user", "listen", "work", Nobody} \intersect (Conns \union Writers) = {}
    /\ Conns \intersect Writers = {}
    /\ Fd \subseteq Nat \ {0}
    /\ MaxLines \in Nat
    /\ MaxStarts \in Nat
    /\ Envs \subseteq Env

VARIABLES
    env,             \* the environment of this behaviour, never changed
    lock,            \* who holds each mutex
    pc,              \* where each thread is
    state,           \* ThreadWorker's m_state, per thread that has one
    m_handlers,      \* the handlers, in the order they were created
    m_client_events, \* the events of handlers the worker has not served
    m_server_fd,     \* whether the listening socket is open
    fd,              \* each handler's m_client_id
    kernel,          \* the connection each open descriptor stands for
    peer,            \* what the client did: "absent", "linked", "hungup"
    lines,           \* how many lines each client has sent
    subject,         \* the connection "listen" or "work" is dealing with
    at,              \* the loop index of closeAllClients()
    starts,          \* how often start() was called
    told             \* history: what listeners heard of each connection

net == <<fd, kernel, peer, lines>>
server == <<m_handlers, m_client_events, m_server_fd>>
vars == <<env, lock, pc, state, server, net, subject, at, starts, told>>

Workers == {"listen", "work"} \union Conns

UserSteps == {"idle", "joinListen", "joinWork", "closeAll", "closeEach",
              "joinEach", "tellEach"}
ListenSteps == {"off", "accept", "insert", "create", "await", "joinNew",
                "greet"}
WorkSteps == {"off", "wait", "tell", "reply", "send", "return",
              "closeClient", "find", "join", "erase", "tellGone"}
HandlerSteps == {"off", "born", "recv", "post", "postGone", "leave"}
WriterSteps == {"idle", "write", "send"}

Init ==
    /\ env \in Envs
    /\ lock = [m \in Mutexes |-> Nobody]
    /\ pc = [t \in Threads |-> CASE t = "work" -> "wait"
                                 [] t \in Writers \union {"user"} -> "idle"
                                 [] OTHER -> "off"]
    /\ state = [t \in Workers |-> IF t = "work" THEN "RUNNING" ELSE "STOPPED"]
    /\ m_handlers = <<>>
    /\ m_client_events = <<>>
    /\ m_server_fd = FALSE
    /\ fd = [c \in Conns |-> None]
    /\ kernel = [f \in Fd |-> Nobody]
    /\ peer = [c \in Conns |-> "absent"]
    /\ lines = [c \in Conns |-> 0]
    /\ subject = [t \in {"listen", "work"} |-> Nobody]
    /\ at = 1
    /\ starts = 0
    /\ told = [c \in Conns |-> <<>>]

---------------------------------------------------------------------------
Goto(t, s) == pc' = [pc EXCEPT ![t] = s]
GoFrom(t, r, s) == pc[t] = r /\ Goto(t, s)

Take(m, t) == lock[m] = Nobody /\ lock' = [lock EXCEPT ![m] = t]
Release(m) == lock' = [lock EXCEPT ![m] = Nobody]
ReleaseAll(t) ==
    lock' = [m \in Mutexes |-> IF lock[m] = t THEN Nobody ELSE lock[m]]

\* putLog() needs the Logger's mutex, which is recursive.
Logs(t) == lock["log"] \in {Nobody, t}

\* ThreadWorker::stop() requests the end of a thread and joins it.
RequestStop(t) == state' = [state EXCEPT ![t] = "STOPPING"]
Joined(t) == pc[t] = "off"

\* The head of a thread's loop: on to s while isRunning(), else the function
\* returns and the thread ends.
LoopOrExit(t, s) ==
    IF state[t] = "RUNNING"
    THEN Goto(t, s) /\ UNCHANGED state
    ELSE Goto(t, "off") /\ state' = [state EXCEPT ![t] = "STOPPED"]

Tell(c, ev) ==
    /\ lock["listeners"] = Nobody
    /\ told' = [told EXCEPT ![c] = Append(@, ev)]

\* The first of some numbers, if there are any.
Least(S) == {i \in S : \A j \in S : i <= j}

CloseFd(f) == kernel' = [kernel EXCEPT ![f] = Nobody]

---------------------------------------------------------------------------
(* start() and stop(), called by the owner *)

\* Without a listening thread.  socket() may fail, or a later call, which
\* leaves the new descriptor in m_server_fd for stop() to close.
StartFails ==
    /\ GoFrom("user", "idle", "idle")
    /\ Joined("listen")
    /\ starts < MaxStarts
    /\ starts' = starts + 1
    /\ m_server_fd' \in BOOLEAN
    /\ UNCHANGED <<env, lock, state, m_handlers, m_client_events, net,
                   subject, at, told>>

SlipStartSucceeds ==
    /\ pc["user"] = "idle"
    /\ Joined("listen")
    /\ starts < MaxStarts
    /\ starts' = starts + 1
    /\ m_server_fd' = TRUE
    /\ pc' = [pc EXCEPT !["listen"] = "accept",
                        !["work"] = IF Joined("work") THEN "wait" ELSE @]
    /\ state' = [state EXCEPT !["listen"] = "RUNNING", !["work"] = "RUNNING"]
    /\ UNCHANGED <<env, lock, m_handlers, m_client_events, net, subject, at,
                   told>>

StartSucceeds ==
    /\ pc["user"] = "idle"
    /\ Joined("listen")
    /\ starts < MaxStarts
    /\ starts' = starts + 1
    /\ m_server_fd' = TRUE
    /\ Goto("listen", "accept")
    /\ state' = [state EXCEPT !["listen"] = "RUNNING"]
    /\ UNCHANGED <<env, lock, m_handlers, m_client_events, net, subject, at,
                   told>>

Stop ==
    /\ GoFrom("user", "idle", "joinListen")
    /\ RequestStop("listen")
    /\ UNCHANGED <<env, lock, server, net, subject, at, starts, told>>

SlipStopWork ==
    /\ GoFrom("user", "joinListen", "closeAll")
    /\ Joined("listen")
    /\ m_server_fd' = FALSE
    /\ UNCHANGED <<env, lock, state, m_handlers, m_client_events, net,
                   subject, at, starts, told>>

StopWork ==
    /\ GoFrom("user", "joinListen", "joinWork")
    /\ Joined("listen")
    /\ RequestStop("work")
    /\ UNCHANGED <<env, lock, server, net, subject, at, starts, told>>

StopListeningSocket ==
    /\ GoFrom("user", "joinWork", "closeAll")
    /\ Joined("work")
    /\ m_server_fd' = FALSE
    /\ UNCHANGED <<env, lock, state, m_handlers, m_client_events, net,
                   subject, at, starts, told>>

\* closeAllClients() holds the handlers' mutex to its end.
CloseAll ==
    /\ GoFrom("user", "closeAll", "closeEach")
    /\ Take("handlers", "user")
    /\ at' = 1
    /\ UNCHANGED <<env, state, server, net, subject, starts, told>>

CloseEach ==
    /\ GoFrom("user", "closeEach", "joinEach")
    /\ at <= Len(m_handlers)
    /\ RequestStop(m_handlers[at])
    /\ UNCHANGED <<env, lock, server, net, subject, at, starts, told>>

JoinEach ==
    /\ GoFrom("user", "joinEach", "tellEach")
    /\ Joined(m_handlers[at])
    /\ CloseFd(fd[m_handlers[at]])
    /\ UNCHANGED <<env, lock, state, server, fd, peer, lines, subject, at,
                   starts, told>>

TellEach ==
    /\ GoFrom("user", "tellEach", "closeEach")
    /\ Tell(m_handlers[at], "gone")
    /\ at' = at + 1
    /\ UNCHANGED <<env, lock, state, server, net, subject, starts>>

CloseAllDone ==
    /\ GoFrom("user", "closeEach", "idle")
    /\ at > Len(m_handlers)
    /\ Logs("user")
    /\ m_handlers' = <<>>
    /\ Release("handlers")
    /\ UNCHANGED <<env, state, m_client_events, m_server_fd, net, subject, at,
                   starts, told>>

User == \/ StopWork \/ StopListeningSocket
        \/ CloseAll \/ CloseEach \/ JoinEach \/ TellEach \/ CloseAllDone

---------------------------------------------------------------------------
(* listening_thread() *)

Absent == {c \in Conns : peer[c] = "absent"}
FreeFds == {f \in Fd : kernel[f] = Nobody}

SlipAcceptFails ==
    /\ GoFrom("listen", "accept", "insert")
    /\ Absent # {}
    /\ LET c == CHOOSE d \in Absent : TRUE
       IN  /\ peer' = [peer EXCEPT ![c] = "linked"]
           /\ fd' = [fd EXCEPT ![c] = -1]
           /\ subject' = [subject EXCEPT !["listen"] = c]
    /\ UNCHANGED <<env, lock, state, server, kernel, lines, at, starts, told>>

\* listen() or accept() fails, the latter after half a second.
AcceptFails ==
    /\ pc["listen"] = "accept"
    /\ LoopOrExit("listen", "accept")
    /\ UNCHANGED <<env, lock, server, net, subject, at, starts, told>>

\* A client connects (who that is makes no difference before); the kernel
\* gives it the lowest descriptor that is free.
Accept ==
    /\ GoFrom("listen", "accept", "insert")
    /\ Absent # {}
    /\ \E f \in Least(FreeFds) :
          LET c == CHOOSE d \in Absent : TRUE
          IN  /\ peer' = [peer EXCEPT ![c] = "linked"]
              /\ kernel' = [kernel EXCEPT ![f] = c]
              /\ fd' = [fd EXCEPT ![c] = f]
              /\ subject' = [subject EXCEPT !["listen"] = c]
    /\ UNCHANGED <<env, lock, state, server, lines, at, starts, told>>

Insert ==
    /\ GoFrom("listen", "insert", "create")
    /\ Take("handlers", "listen")
    /\ UNCHANGED <<env, state, server, net, subject, at, starts, told>>

\* The constructor logs, and so does start() before it starts the thread.
Create ==
    /\ pc["listen"] = "create"
    /\ Logs("listen")
    /\ m_handlers' = Append(m_handlers, subject["listen"])
    /\ pc' = [pc EXCEPT !["listen"] = "await", ![subject["listen"]] = "born"]
    /\ UNCHANGED <<env, lock, state, m_client_events, m_server_fd, net,
                   subject, at, starts, told>>

HandlerReady ==
    /\ GoFrom("listen", "await", "greet")
    /\ state[subject["listen"]] = "RUNNING"
    /\ Release("handlers")
    /\ UNCHANGED <<env, state, server, net, subject, at, starts, told>>

\* A second passed before the thread ran, or it ran and ended meanwhile:
\* pop_back() destroys the handler, whose destructor stops the thread.
HandlerLate ==
    /\ GoFrom("listen", "await", "joinNew")
    /\ ~env.prompt
    /\ state[subject["listen"]] # "RUNNING"
    /\ Logs("listen")
    /\ RequestStop(subject["listen"])
    /\ UNCHANGED <<env, lock, server, net, subject, at, starts, told>>

GivenUp ==
    /\ pc["listen"] = "joinNew"
    /\ Joined(subject["listen"])
    /\ m_handlers' = SubSeq(m_handlers, 1, Len(m_handlers) - 1)
    /\ CloseFd(fd[subject["listen"]])
    /\ Release("handlers")
    /\ LoopOrExit("listen", "accept")
    /\ UNCHANGED <<env, m_client_events, m_server_fd, fd, peer, lines,
                   subject, at, starts, told>>

\* CLIENT_CONNECTED, when the handler's thread may have reported already.
Greet ==
    /\ pc["listen"] = "greet"
    /\ Tell(subject["listen"], "hello")
    /\ LoopOrExit("listen", "accept")
    /\ UNCHANGED <<env, lock, server, net, subject, at, starts>>

Listen == \/ AcceptFails \/ Accept \/ Insert \/ Create \/ HandlerReady
          \/ HandlerLate \/ GivenUp \/ Greet

---------------------------------------------------------------------------
(* worker_thread(), which holds the client mutex except while it waits *)

\* Where the worker turns to with these events left, the client mutex held.
Serve(events) ==
    /\ Goto("work", CASE events = <<>> -> "wait"
                      [] events # <<>> /\ Head(events).kind = "data" -> "tell"
                      [] OTHER -> "closeClient")
    /\ UNCHANGED state

\* Woken by an event, or the half second is over and isRunning() tells.
WorkWake ==
    /\ pc["work"] = "wait"
    /\ lock["client"] = Nobody
    /\ IF m_client_events # <<>>
       THEN Serve(m_client_events) /\ Take("client", "work")
       ELSE LoopOrExit("work", "wait") /\ UNCHANGED lock
    /\ UNCHANGED <<env, server, net, subject, at, starts, told>>

\* The event is popped.  With none left, wait_for() releases the mutex, unless
\* the thread ends; either way new events can come.
Pop(held) ==
    /\ m_client_events' = Tail(m_client_events)
    /\ IF Tail(m_client_events) # <<>>
       THEN Serve(Tail(m_client_events)) /\ lock' = held
       ELSE LoopOrExit("work", "wait")
            /\ lock' = [held EXCEPT !["client"] = Nobody]

\* Listeners are called with the listeners' mutex held.  One may write to the
\* clients, as an executor of RPCServer does.
TellData ==
    /\ \/ GoFrom("work", "tell", "return")
       \/ ~env.front /\ GoFrom("work", "tell", "reply")
    /\ Tell(Head(m_client_events).from, "data")
    /\ Take("listeners", "work")
    /\ UNCHANGED <<env, state, server, net, subject, at, starts>>

ReplyLock ==
    /\ GoFrom("work", "reply", "send")
    /\ Take("handlers", "work")
    /\ UNCHANGED <<env, state, server, net, subject, at, starts, told>>

ReplySend ==
    /\ GoFrom("work", "send", "return")
    /\ Logs("work")
    /\ Release("handlers")
    /\ UNCHANGED <<env, state, server, net, subject, at, starts, told>>

CallbackReturns ==
    /\ pc["work"] = "return"
    /\ Pop([lock EXCEPT !["listeners"] = Nobody])
    /\ UNCHANGED <<env, m_handlers, m_server_fd, net, subject, at, starts,
                   told>>

CloseClient ==
    /\ GoFrom("work", "closeClient", "find")
    /\ Take("handlers", "work")
    /\ UNCHANGED <<env, state, server, net, subject, at, starts, told>>

\* The places of handlers for the descriptor that an event names.
Found(id) == {i \in DOMAIN m_handlers : fd[m_handlers[i]] = id}
SlipFindHandler ==
    /\ GoFrom("work", "find", "join")
    /\ Logs("work")
    /\ Found(Head(m_client_events).id) # {}
    /\ LET h == m_handlers[1] IN
           RequestStop(h) /\ subject' = [subject EXCEPT !["work"] = h]
    /\ UNCHANGED <<env, lock, server, net, at, starts, told>>

FindHandler ==
    /\ GoFrom("work", "find", "join")
    /\ Logs("work")
    /\ \E it \in Least(Found(Head(m_client_events).id)) :
          /\ RequestStop(m_handlers[it])
          /\ subject' = [subject EXCEPT !["work"] = m_handlers[it]]
    /\ UNCHANGED <<env, lock, server, net, at, starts, told>>

FindNone ==
    /\ GoFrom("work", "find", "tellGone")
    /\ Logs("work")
    /\ Found(Head(m_client_events).id) = {}
    /\ Release("handlers")
    /\ UNCHANGED <<env, state, server, net, subject, at, starts, told>>

JoinHandler ==
    /\ GoFrom("work", "join", "erase")
    /\ Joined(subject["work"])
    /\ CloseFd(fd[subject["work"]])
    /\ UNCHANGED <<env, lock, state, server, fd, peer, lines, subject, at,
                   starts, told>>

EraseHandler ==
    /\ GoFrom("work", "erase", "tellGone")
    /\ \E it \in DOMAIN m_handlers :
          /\ m_handlers[it] = subject["work"]
          /\ m_handlers' = SubSeq(m_handlers, 1, it - 1)
                           \o SubSeq(m_handlers, it + 1, Len(m_handlers))
    /\ Release("handlers")
    /\ UNCHANGED <<env, state, m_client_events, m_server_fd, net, subject, at,
                   starts, told>>

TellGone ==
    /\ pc["work"] = "tellGone"
    /\ Tell(Head(m_client_events).from, "gone")
    /\ Pop(lock)
    /\ UNCHANGED <<env, m_handlers, m_server_fd, net, subject, at, starts>>

Work == \/ WorkWake \/ TellData \/ ReplyLock \/ ReplySend \/ CallbackReturns
        \/ CloseClient \/ FindHandler \/ FindNone \/ JoinHandler
        \/ EraseHandler \/ TellGone

---------------------------------------------------------------------------
(* A client and its handler's thread, ClientHandler::execute() *)

HangUp(c) ==
    /\ peer[c] = "linked"
    /\ peer' = [peer EXCEPT ![c] = "hungup"]
    /\ UNCHANGED <<env, lock, pc, state, server, fd, kernel, lines, subject,
                   at, starts, told>>

\* ThreadWorker::execute() stores RUNNING whatever was there.
HandlerBegin(c) ==
    /\ GoFrom(c, "born", "recv")
    /\ state' = [state EXCEPT ![c] = "RUNNING"]
    /\ UNCHANGED <<env, lock, server, net, subject, at, starts, told>>

Again(c) == IF state[c] = "RUNNING" THEN "recv" ELSE "leave"

\* recv() returns data of which some lines are complete, or part of a line,
\* an error or nothing within half a second, or the end of the stream.
Recv(c) ==
    /\ \/ GoFrom(c, "recv", Again(c))
       \/ lines[c] < MaxLines /\ GoFrom(c, "recv", "post")
       \/ peer[c] = "hungup" /\ GoFrom(c, "recv", "postGone")
    /\ UNCHANGED <<env, lock, state, server, net, subject, at, starts, told>>

\* onClientEvent() appends under the client mutex.
StoreEvent(c, kind) ==
    /\ lock["client"] = Nobody
    /\ m_client_events' = Append(m_client_events,
                                 [id |-> fd[c], kind |-> kind, from |-> c])

\* All complete lines are reported before the next look at isRunning().
PostLine(c) ==
    /\ StoreEvent(c, "data")
    /\ lines[c] < MaxLines
    /\ lines' = [lines EXCEPT ![c] = @ + 1]
    /\ \/ GoFrom(c, "post", Again(c))
       \/ lines'[c] < MaxLines /\ GoFrom(c, "post", "post")
    /\ UNCHANGED <<env, lock, state, m_handlers, m_server_fd, fd, kernel,
                   peer, subject, at, starts, told>>

PostGone(c) ==
    /\ StoreEvent(c, "gone")
    /\ GoFrom(c, "postGone", "leave")
    /\ UNCHANGED <<env, lock, state, m_handlers, m_server_fd, net, subject,
                   at, starts, told>>

\* The function returns; see HandlerLate for the guard.
Leave(c) ==
    /\ GoFrom(c, "leave", "off")
    /\ ~(env.prompt /\ pc["listen"] = "await" /\ subject["listen"] = c)
    /\ state' = [state EXCEPT ![c] = "STOPPED"]
    /\ UNCHANGED <<env, lock, server, net, subject, at, starts, told>>

Handler(c) == \/ HandlerBegin(c) \/ Recv(c) \/ PostLine(c) \/ PostGone(c)
              \/ Leave(c)

---------------------------------------------------------------------------
(* write(), by a thread of the application *)

\* LoggerEngine::putLog() takes its mutex and keeps it over the writing.
PutLog(w) ==
    /\ GoFrom(w, "idle", "write")
    /\ env.front
    /\ Take("log", w)
    /\ UNCHANGED <<env, state, server, net, subject, at, starts, told>>

\* RPCServer::notify() writes at once.
Notify(w) ==
    /\ GoFrom(w, "idle", "send")
    /\ ~env.front
    /\ Take("handlers", w)
    /\ UNCHANGED <<env, state, server, net, subject, at, starts, told>>

WriteLock(w) ==
    /\ GoFrom(w, "write", "send")
    /\ Take("handlers", w)
    /\ UNCHANGED <<env, state, server, net, subject, at, starts, told>>

WriteSend(w) ==
    /\ GoFrom(w, "send", "idle")
    /\ Logs(w)
    /\ ReleaseAll(w)
    /\ UNCHANGED <<env, state, server, net, subject, at, starts, told>>

Writer(w) == WriteLock(w) \/ WriteSend(w)

---------------------------------------------------------------------------
Next ==
    \/ StartFails \/ StartSucceeds \/ Stop \/ User
    \/ Listen
    \/ Work
    \/ \E c \in Conns : HangUp(c) \/ Handler(c)
    \/ \E w \in Writers : PutLog(w) \/ Notify(w) \/ Writer(w)

Spec == Init /\ [][Next]_vars

\* Threads run, and get a mutex that is free again and again.
Fairness ==
    /\ SF_vars(User) /\ SF_vars(Listen) /\ SF_vars(Work)
    /\ \A c \in Conns : SF_vars(Handler(c))
    /\ \A w \in Writers : SF_vars(Writer(w))

FairSpec == Spec /\ Fairness

---------------------------------------------------------------------------
Event == [id : Fd, kind : {"data", "gone"}, from : Conns]

\* The types of all variables.
TypeOK ==
    /\ env \in Env
    /\ lock \in [Mutexes -> Threads \union {Nobody}]
    /\ pc["user"] \in UserSteps
    /\ pc["listen"] \in ListenSteps
    /\ pc["work"] \in WorkSteps
    /\ \A c \in Conns : pc[c] \in HandlerSteps
    /\ \A w \in Writers : pc[w] \in WriterSteps
    /\ state \in [Workers -> {"STOPPED", "RUNNING", "STOPPING"}]
    /\ m_handlers \in Seq(Conns)
    /\ m_client_events \in Seq(Event)
    /\ m_server_fd \in BOOLEAN
    /\ fd \in [Conns -> Fd \union {None}]
    /\ kernel \in [Fd -> Conns \union {Nobody}]
    /\ peer \in [Conns -> {"absent", "linked", "hungup"}]
    /\ lines \in [Conns -> 0 .. MaxLines]
    /\ subject \in [{"listen", "work"} -> Conns \union {Nobody}]
    /\ at \in Nat \ {0}
    /\ starts \in 0 .. MaxStarts
    /\ told \in [Conns -> Seq({"hello", "data", "gone"})]

Listed(c) == \E i \in DOMAIN m_handlers : m_handlers[i] = c

\* A thread that reads a descriptor reads its own connection: none is closed,
\* or given to the next client, under the thread that serves it.
ReadsItsOwn == \A c \in Conns : pc[c] # "off" => kernel[fd[c]] = c

\* A lost client's event closes that client's handler, not the one of a later
\* client with the same descriptor.
ClosesItsOwn ==
    pc["work"] = "join" => subject["work"] = Head(m_client_events).from

\* Descriptors are read by the right thread, and, unless a thread just started
\* is given up, closed for the right client.
OwnDescriptors == ReadsItsOwn /\ (env.prompt => ClosesItsOwn)

Heard(c, ev) == {i \in DOMAIN told[c] : told[c][i] = ev}

Stopped == /\ pc["user"] = "idle"
           /\ \A t \in {"listen", "work"} : Joined(t)

\* Nothing is heard of a client after it was reported gone, except a late
\* CLIENT_CONNECTED, and that at most once; after stop() every client that was
\* let in has been reported once as connected and once as gone, and neither a
\* handler nor a descriptor is left.
PromptFarewell ==
    env.prompt =>
        /\ \A c \in Conns : \A i \in Heard(c, "gone") :
               \A j \in DOMAIN told[c] : j > i => told[c][j] = "hello"
        /\ Stopped =>
               /\ m_handlers = <<>>
               /\ \A f \in Fd : kernel[f] = Nobody
               /\ \A c \in Conns : peer[c] # "absent" =>
                      \E i, j \in DOMAIN told[c] :
                          Heard(c, "hello") = {i} /\ Heard(c, "gone") = {j}

\* Both: descriptors and events belong to the client they are taken for.
ClientsTrue == OwnDescriptors /\ PromptFarewell

\* The mutex a thread needs for its next step, if it needs one.
Wanted(t) ==
    CASE pc[t] \in {"closeAll", "insert", "reply", "closeClient", "write"}
                                                      -> {"handlers"}
      [] pc[t] \in {"wait", "post", "postGone"}       -> {"client"}
      [] pc[t] \in {"tell", "tellGone", "tellEach", "greet"} -> {"listeners"}
      [] pc[t] \in {"create", "find", "send"}         -> {"log"}
      [] OTHER                                        -> {}

\* The thread that a thread is joining, if it is.
Joining(t) ==
    CASE pc[t] = "joinListen" -> {"listen"}
      [] pc[t] = "joinWork"   -> {"work"}
      [] pc[t] = "joinEach"   -> {m_handlers[at]}
      [] t = "listen" /\ pc[t] = "joinNew" -> {subject["listen"]}
      [] t = "work" /\ pc[t] = "join"      -> {subject["work"]}
      [] OTHER -> {}

\* s has to do something before t can go on.
WaitsFor(t, s) ==
    \/ \E m \in Wanted(t) : lock[m] = s /\ s # t
    \/ s \in Joining(t) /\ pc[s] # "off"

\* No threads wait for each other in a circle, though handlers want the client
\* mutex, the worker holding that one the handlers' mutex, and stop() joins
\* them holding that one.  Not so with the Logger on top, whose mutex comes
\* before and after the handlers' mutex, nor when a thread that starts late
\* is joined with the handlers' mutex held.
PlainNoDeadlock ==
    env.prompt /\ ~env.front =>
        ~\E S \in (SUBSET Threads) \ {{}} :
            \A t \in S : \E s \in S : WaitsFor(t, s)

\* putLog() returns (Logger.h: it "puts data into logger").
LogReturns == \A w \in Writers : pc[w] = "write" ~> pc[w] = "idle"
===========================================================================
