--------------------------- MODULE ProcessDriver ---------------------------
(***************************************************************************)
(* The driver of a port that shows the output of a command                 *)
(* (src/sw/Drivers/source/ProcessDriver.cpp) with its ThreadWorker and the *)
(* ApplicationExecutor: an owner that constructs it, starts and stops      *)
(* commands and destroys it, the thread that reads their output, and the   *)
(* processes.  A process is the child that is forked, then runs the        *)
(* command in system() and ends with it.                                   *)
(***************************************************************************)
EXTENDS Integers, ThreadWorker

CONSTANTS
    MaxStarts,  \* bound: processes requested
    MaxLines,   \* bound: lines a process writes
    Envs        \* the environments considered, see Env

Env == [prompt  : BOOLEAN, \* no wait for the thread times out
        lingers : BOOLEAN] \* a process does not both write and end in the
                           \* instant between poll and isRunning() of the thread

None == 0
Process == 1 .. MaxStarts

ConstantsSound ==
    MaxStarts \in Nat /\ MaxLines \in Nat /\ Envs \subseteq Env

VARIABLES
    env,      \* the environment of this behaviour, never changed
    pc,       \* where the owner is
    wpc,      \* where receivingThread() is
    m_state,
    asked,    \* the process start() asked for last: m_processName
    dying,    \* the destructor was called
    executor, \* the process of the thread's executor and pipe, or None
    unread,   \* lines in the pipe
    got,      \* lines in the buffer
    event,    \* what the thread is notifying
    proc,     \* what each process is doing
    written,  \* history: lines each process wrote
    heard,    \* history: lines of each process reported
    told      \* history: PROCESS_STOPPEDs of each process

owner == <<pc, asked, dying>>
reader == <<executor, unread, got, event>>
procs == <<proc, written>>
log == <<heard, told>>
vars == <<env, owner, wpc, m_state, reader, procs, log, workerVars>>

Init ==
    /\ env \in Envs
    /\ pc = "construct" /\ asked = None /\ dying = FALSE
    /\ wpc = "off"
    /\ m_state = "STOPPED"
    /\ executor = None /\ unread = 0 /\ got = 0 /\ event = "NONE"
    /\ proc = [p \in Process |-> "none"]
    /\ written = [p \in Process |-> 0]
    /\ heard = [p \in Process |-> 0]
    /\ told = [p \in Process |-> 0]
    /\ WorkerInit

---------------------------------------------------------------------------
OwnerAt(s, t) == pc = s /\ pc' = t
ThreadAt(s, t) == wpc = s /\ wpc' = t

isStarted == m_state \in {"STARTING", "RUNNING"}

\* A process nobody has waited for exists after its end, unless SIGCHLD is
\* ignored, as main() does.
SlipAlive(p) == proc[p] # "none"
Alive(p) == proc[p] \in {"child", "command"}

---------------------------------------------------------------------------
(* The owner *)

Construct ==
    /\ OwnerAt("construct", "awaitThread")
    /\ Spawn
    /\ UNCHANGED <<env, asked, dying, wpc, m_state, reader, procs, log>>

\* The result of ThreadWorker::start() is ignored.
Constructed ==
    /\ OwnerAt("awaitThread", "idle")
    /\ Started \/ ~env.prompt
    /\ UNCHANGED <<env, asked, dying, wpc, m_state, reader, procs, log, workerVars>>

Start ==
    /\ asked < MaxStarts
    /\ OwnerAt("idle", "awaitStart")
    /\ ~isStarted
    /\ m_state' = "STARTING"
    /\ asked' = asked + 1
    /\ UNCHANGED <<env, dying, wpc, reader, procs, log, workerVars>>

\* It returns whether the process runs: not if the process is done already.
AwaitStart ==
    /\ OwnerAt("awaitStart", "idle")
    /\ m_state # "STARTING" \/ ~env.prompt
    /\ UNCHANGED <<env, asked, dying, wpc, m_state, reader, procs, log, workerVars>>

\* stop(): its condition, and what it does with the mutex.
Stop ==
    /\ OwnerAt("idle", "stopSet")
    /\ isStarted
    /\ UNCHANGED <<env, asked, dying, wpc, m_state, reader, procs, log, workerVars>>

SlipRequestStopping ==
    /\ OwnerAt("stopSet", "awaitStop")
    /\ m_state' = "STOPPED"
    /\ UNCHANGED <<env, asked, dying, wpc, reader, procs, log, workerVars>>

RequestStopping ==
    /\ OwnerAt("stopSet", "awaitStop")
    /\ m_state' = "STOPPING"
    /\ UNCHANGED <<env, asked, dying, wpc, reader, procs, log, workerVars>>

AwaitStop ==
    /\ OwnerAt("awaitStop", IF dying THEN "exiting" ELSE "idle")
    /\ m_state = "STOPPED" \/ ~env.prompt
    /\ UNCHANGED <<env, asked, dying, wpc, m_state, reader, procs, log, workerVars>>

Destroy ==
    /\ OwnerAt("idle", IF isStarted THEN "stopSet" ELSE "exiting")
    /\ dying' = TRUE
    /\ UNCHANGED <<env, asked, wpc, m_state, reader, procs, log, workerVars>>

DestroyExiting ==
    /\ OwnerAt("exiting", "worker")
    /\ m_state' = "EXITING"
    /\ UNCHANGED <<env, asked, dying, wpc, reader, procs, log, workerVars>>

\* if (m_worker.isRunning()) m_worker.stop(): then the members are destroyed,
\* m_worker after all those declared behind it.
DestroyStop ==
    /\ pc = "worker"
    /\ IF isRunning THEN pc' = "join" /\ RequestStop
       ELSE pc' = "lateStop" /\ UNCHANGED workerVars
    /\ UNCHANGED <<env, asked, dying, wpc, m_state, reader, procs, log>>

DestroyJoin ==
    /\ \/ OwnerAt("join", "lateStop") \/ OwnerAt("lateJoin", "destroyed")
    /\ Join
    /\ UNCHANGED <<env, asked, dying, wpc, m_state, reader, procs, log>>

\* ~ThreadWorker()
DestroyWorker ==
    /\ OwnerAt("lateStop", IF First THEN "lateJoin" ELSE "destroyed")
    /\ RequestStop
    /\ UNCHANGED <<env, asked, dying, wpc, m_state, reader, procs, log>>

---------------------------------------------------------------------------
(* The thread *)

ThreadEnters ==
    /\ ThreadAt("off", "loop")
    /\ Enter
    /\ UNCHANGED <<env, owner, m_state, reader, procs, log>>

\* A child is sent SIGTERM when the thread that forked it ends; the command it
\* was waiting for goes on.
Orphaned == [p \in Process |-> IF Alive(p) THEN "dead" ELSE proc[p]]

ThreadLoops ==
    /\ wpc = "loop"
    /\ IF isRunning THEN wpc' = "wait" /\ UNCHANGED <<workerVars, proc>>
       ELSE wpc' = "off" /\ Leave /\ proc' = Orphaned
    /\ UNCHANGED <<env, owner, m_state, reader, written, log>>

\* The wait for a request to start: the pipe is made and a child forked, or
\* one of them fails.
ThreadStarts ==
    /\ ThreadAt("wait", "serve")
    /\ m_state = "STARTING"
    /\ \/ /\ m_state' = "RUNNING"
          /\ executor' = asked
          /\ proc' = [proc EXCEPT ![asked] = "child"]
          /\ unread' = 0
       \/ UNCHANGED <<m_state, executor, proc, unread>>
    /\ UNCHANGED <<env, owner, got, event, written, log, workerVars>>

ThreadStops ==
    /\ ThreadAt("wait", "serve")
    /\ m_state = "STOPPING"
    /\ UNCHANGED <<env, owner, m_state, reader, procs, log, workerVars>>

ThreadExits ==
    /\ ThreadAt("wait", "off")
    /\ m_state = "EXITING"
    /\ Leave
    /\ proc' = Orphaned
    /\ UNCHANGED <<env, owner, m_state, reader, written, log>>

Notify(ev) == event' = ev /\ wpc' = "callback"

\* startProcessOutputReading() is called, and announces the process.
ThreadServes ==
    /\ wpc = "serve"
    /\ IF m_state = "RUNNING" THEN Notify("PROCESS_STARTED")
       ELSE wpc' = "setStopped" /\ UNCHANGED event
    /\ UNCHANGED <<env, owner, m_state, executor, unread, got, procs, log, workerVars>>

\* The condition of the reading loop.
ThreadChecks ==
    /\ wpc = "check"
    /\ wpc' = IF m_state = "RUNNING" THEN "poll" ELSE "setStopped"
    /\ UNCHANGED <<env, owner, m_state, reader, procs, log, workerVars>>

\* epoll_wait(): there is output, or none in 500 ms.
ThreadReads ==
    /\ wpc = "poll"
    /\ \E n \in 1 .. unread :
           /\ got' = n
           /\ unread' = unread - n
           /\ Notify("DATA_RECEIVED")
    /\ UNCHANGED <<env, owner, m_state, executor, procs, log, workerVars>>

SlipSilent == TRUE
Silent == unread = 0

ThreadFindsNothing ==
    /\ ThreadAt("poll", "alive")
    /\ Silent
    /\ UNCHANGED <<env, owner, m_state, reader, procs, log, workerVars>>

\* isRunning() of the executor.
ThreadLooksAlive ==
    /\ wpc = "alive"
    /\ IF Alive(executor) THEN wpc' = "check" /\ UNCHANGED <<event, told>>
       ELSE Notify("PROCESS_STOPPED") /\ told' = [told EXCEPT ![executor] = @ + 1]
    /\ UNCHANGED <<env, owner, m_state, executor, unread, got, procs, heard, workerVars>>

After ==
    IF got > 1 THEN "callback"
    ELSE IF event = "PROCESS_STOPPED" THEN "setStopped" ELSE "check"

\* The listeners return; the next line, or the loop goes on, or is broken.
ThreadNotified ==
    /\ wpc = "callback"
    /\ wpc' = After
    /\ event' = IF got > 1 THEN event ELSE "NONE"
    /\ IF got > 0
       THEN got' = got - 1 /\ heard' = [heard EXCEPT ![executor] = @ + 1]
       ELSE UNCHANGED <<got, heard>>
    /\ UNCHANGED <<env, owner, m_state, executor, unread, procs, told, workerVars>>

\* Without the mutex.
ThreadSetsStopped ==
    /\ ThreadAt("setStopped", "kill")
    /\ m_state' = "STOPPED"
    /\ UNCHANGED <<env, owner, reader, procs, log, workerVars>>

\* SIGINT ends a child that is not yet in system(), which ignores it.
Interrupted ==
    IF executor # None /\ proc[executor] = "child"
    THEN [proc EXCEPT ![executor] = "dead"] ELSE proc

ThreadKills ==
    /\ ThreadAt("kill", "close")
    /\ proc' = Interrupted
    /\ UNCHANGED <<env, owner, m_state, reader, written, log, workerVars>>

\* The pipe is closed; the executor is destroyed, and signals once more.
ThreadCloses ==
    /\ ThreadAt("close", "loop")
    /\ proc' = Interrupted
    /\ executor' = None
    /\ unread' = 0
    /\ UNCHANGED <<env, owner, m_state, got, event, written, log, workerVars>>

---------------------------------------------------------------------------
(* The processes *)

ProcessRuns ==
    \E p \in Process :
        /\ proc[p] = "child"
        /\ proc' = [proc EXCEPT ![p] = "command"]
        /\ UNCHANGED <<env, owner, wpc, m_state, reader, written, log, workerVars>>

\* A line into a pipe that is read; others nobody reads.
ProcessWrites ==
    \E p \in Process :
        /\ proc[p] = "command" /\ p = executor
        /\ written[p] < MaxLines
        /\ written' = [written EXCEPT ![p] = @ + 1]
        /\ unread' = unread + 1
        /\ UNCHANGED <<env, owner, wpc, m_state, executor, got, event, proc, log, workerVars>>

ProcessEnds ==
    \E p \in Process :
        /\ Alive(p)
        /\ env.lingers => ~(p = executor /\ wpc = "alive" /\ unread > 0)
        /\ proc' = [proc EXCEPT ![p] = "dead"]
        /\ UNCHANGED <<env, owner, wpc, m_state, reader, written, log, workerVars>>

---------------------------------------------------------------------------
Thread ==
    \/ ThreadEnters \/ ThreadLoops \/ ThreadStarts \/ ThreadStops \/ ThreadExits
    \/ ThreadServes \/ ThreadChecks \/ ThreadReads \/ ThreadFindsNothing
    \/ ThreadLooksAlive \/ ThreadNotified
    \/ ThreadSetsStopped \/ ThreadKills \/ ThreadCloses

\* The rest of a call that was begun.
OwnerProceeds ==
    \/ Construct \/ Constructed \/ AwaitStart \/ RequestStopping \/ AwaitStop
    \/ DestroyExiting \/ DestroyStop \/ DestroyJoin \/ DestroyWorker

Next ==
    \/ Thread \/ OwnerProceeds \/ Start \/ Stop \/ Destroy
    \/ ProcessRuns \/ ProcessWrites \/ ProcessEnds

Spec == Init /\ [][Next]_vars

\* Threads run; nobody has to call, and a process need not do anything.
FairSpec == Spec /\ WF_vars(Thread) /\ WF_vars(OwnerProceeds)

---------------------------------------------------------------------------
(* Properties *)

\* Types; also that the thread has a process and its pipe just while it serves
\* a request, and that lines are buffered just while they are reported.
TypeOK ==
    /\ env \in Env
    /\ pc \in {"construct", "awaitThread", "idle", "awaitStart", "stopSet", "awaitStop",
               "exiting", "worker", "join", "lateStop", "lateJoin", "destroyed"}
    /\ wpc \in {"off", "loop", "wait", "serve", "check", "poll", "alive",
                "callback", "setStopped", "kill", "close"}
    /\ m_state \in {"STOPPED", "STARTING", "RUNNING", "STOPPING", "EXITING"}
    /\ asked \in Process \union {None}
    /\ dying \in BOOLEAN
    /\ executor \in Process \union {None}
    /\ wpc \in {"off", "loop", "wait"} => executor = None
    /\ wpc \in {"check", "poll", "alive", "callback"} => executor # None
    /\ unread \in Nat /\ got \in Nat
    /\ event \in {"NONE", "PROCESS_STARTED", "DATA_RECEIVED", "PROCESS_STOPPED"}
    /\ got > 0 <=> event = "DATA_RECEIVED"
    /\ proc \in [Process -> {"none", "child", "command", "dead"}]
    /\ written \in [Process -> Nat]
    /\ heard \in [Process -> Nat]
    /\ told \in [Process -> Nat]
    /\ WorkerTypeOK

\* PROCESS_STOPPED is reported once, of a process that is dead; and if no
\* output hides in the gap before the check, after all that the process wrote.
StoppedIsTheEnd ==
    \A p \in Process :
        /\ told[p] <= 1
        /\ told[p] = 1 => proc[p] = "dead"
        /\ told[p] = 1 /\ env.lingers => heard[p] = written[p]

\* As long as no wait times out, nothing is reported after stop(), which returns
\* in STOPPED, or beside a destructor; and the thread reads only the process
\* asked for last: the listener never gets the lines of another command.
PromptStopIsQuiet ==
    env.prompt =>
        /\ m_state \in {"STOPPED", "EXITING"} =>
               wpc \in {"off", "loop", "wait", "kill", "close"}
        /\ event # "NONE" => executor = asked

\* A process that ends is reported, or its output is no longer read, in every
\* environment.
DeathIsNoticed ==
    \A p \in Process :
        (m_state = "RUNNING" /\ executor = p /\ proc[p] = "dead")
            ~> (told[p] = 1 \/ m_state # "RUNNING")

\* Every call returns, the destructor with the thread joined, as long as no
\* wait times out.
CallsReturn ==
    env.prompt /\ pc \notin {"idle", "destroyed"} ~> pc \in {"idle", "destroyed"}

\* Both: the driver's thread answers its process and its owner.
ThreadResponds == DeathIsNoticed /\ CallsReturn

---------------------------------------------------------------------------
(* What makes these properties inductive *)

\* A process that start() has not asked for, or that is only asked for, is
\* nothing yet; the thread of a running command has its process.
ServingInv ==
    /\ \A p \in Process : p > asked \/ (m_state = "STARTING" /\ p = asked) =>
           proc[p] = "none"
    /\ \A p \in Process : proc[p] = "none" =>
           written[p] = 0 /\ heard[p] = 0 /\ told[p] = 0 /\ executor # p
    /\ m_state = "STARTING" => asked # None
    /\ m_state = "RUNNING" => executor # None /\ wpc \in {"serve", "check", "poll",
                                        "alive", "callback", "setStopped"}
    /\ event # "NONE" <=> wpc = "callback"

\* No line is lost between the process and its listeners; the thread that has
\* reported the end of its process lets go of it.
AccountInv ==
    /\ StoppedIsTheEnd
    /\ \A p \in Process :
        /\ executor = p => heard[p] + got + unread = written[p]
        /\ told[p] = 1 /\ executor = p =>
               \/ wpc = "callback" /\ event = "PROCESS_STOPPED"
               \/ wpc \in {"setStopped", "kill", "close"}
        /\ env.lingers /\ wpc = "alive" /\ executor = p /\ ~Alive(p) => unread = 0

\* Without timeouts the state tells where the owner is, and where the thread.
PromptInv ==
    env.prompt =>
        /\ pc \in {"construct", "awaitThread", "exiting"} => m_state = "STOPPED"
        /\ pc \in {"idle", "stopSet"} => m_state \in {"STOPPED", "RUNNING"}
        /\ pc = "awaitStart" => m_state \in {"STARTING", "RUNNING", "STOPPED"}
        /\ pc = "awaitStop" => m_state \in {"STOPPING", "STOPPED"}
        /\ pc \in {"worker", "join", "lateStop", "lateJoin", "destroyed"} =>
               m_state = "EXITING"
        /\ m_state \in {"STOPPED", "EXITING"} =>
               wpc \in {"off", "loop", "wait", "kill", "close"}
        /\ m_state = "STARTING" =>
               wpc \in {"off", "loop", "wait", "kill", "close", "serve", "setStopped"}
        /\ m_state = "RUNNING" \/ wpc \in {"check", "poll", "alive", "callback"} =>
               executor = asked
=============================================================================
