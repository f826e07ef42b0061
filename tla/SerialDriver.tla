---------------------------- MODULE SerialDriver ----------------------------
(***************************************************************************)
(* The serial port driver (src/sw/Drivers/source/SerialDriver.cpp) with    *)
(* its ThreadWorker: an owner that constructs it, opens and closes the     *)
(* port and destroys it, the thread that reads the port, and a device that *)
(* may be unplugged and plugged in again at any moment.                    *)
(*                                                                         *)
(* m_mutex needs no variable: it is held only inside a step, or released   *)
(* by a wait.  What the thread does without it is a step of its own.       *)
(***************************************************************************)
EXTENDS Integers, ThreadWorker

CONSTANTS
    MaxFd,  \* bound: descriptors opened in a behaviour
    Envs    \* the environments considered, see Env

Env == [orderly : BOOLEAN, \* the owner opens or destroys only a driver whose
                           \* thread is back at its wait
        prompt  : BOOLEAN] \* no wait for the thread times out

None == -1
Fd == 1 .. MaxFd

ASSUME ConstantsAssumption == MaxFd \in Nat /\ Envs \subseteq Env

VARIABLES
    env,      \* the environment of this behaviour, never changed
    pc,       \* where the owner is
    wpc,      \* where receivingThread() is
    m_state,
    m_fd,
    tty,      \* kernel: each descriptor's state
    plugged,  \* the device is there
    dying,    \* the destructor was called
    event,    \* what the thread is notifying
    served,   \* history: the descriptors the thread was started for
    errors    \* history: COMMUNICATION_ERRORs per descriptor

driver == <<m_state, m_fd, tty>>
vars == <<env, pc, wpc, driver, plugged, dying, event, served, errors, workerVars>>

OwnerSteps == {"construct", "awaitThread", "idle", "setup", "awaitOpen",
               "opened", "failed", "closeSet", "awaitClose", "closing",
               "stop", "join", "lateStop", "lateJoin", "destroyed"}
ThreadSteps == {"off", "loop", "wait", "serve", "read", "callback",
                "setIdle", "close", "clear"}

Init ==
    /\ env \in Envs
    /\ pc = "construct"
    /\ wpc = "off"
    /\ m_state = "IDLE"
    /\ m_fd = None
    /\ tty = [f \in Fd |-> "unused"]
    /\ plugged = TRUE
    /\ dying = FALSE
    /\ event = "NONE"
    /\ served = {}
    /\ errors = [f \in Fd |-> 0]
    /\ WorkerInit

---------------------------------------------------------------------------
OwnerAt(s, t) == pc = s /\ pc' = t
ThreadAt(s, t) == wpc = s /\ wpc' = t

isOpened == m_state \in {"CONNECTING", "CONNECTED"}

IsOpen(f) == f \in Fd /\ tty[f] \in {"live", "dead"}
IsLive(f) == f \in Fd /\ tty[f] = "live"

SlipClosed == tty
Closed == IF IsOpen(m_fd) THEN [tty EXCEPT ![m_fd] = "closed"] ELSE tty

Resting == wpc \in {"off", "loop", "wait"} /\ m_state = "IDLE"
MayCall == pc \in {"idle", "opened", "failed"}
MayOpen == MayCall /\ ~isOpened /\ (env.orderly => Resting)

---------------------------------------------------------------------------
(* The owner *)

Construct ==
    /\ OwnerAt("construct", "awaitThread")
    /\ Spawn
    /\ UNCHANGED <<env, wpc, driver, plugged, dying, event, served, errors>>

\* The result of start() is ignored.
Constructed ==
    /\ OwnerAt("awaitThread", "idle")
    /\ Started \/ ~env.prompt
    /\ UNCHANGED <<env, wpc, driver, plugged, dying, event, served, errors, workerVars>>

\* open(): the device is opened, or cannot be.
OpenDevice ==
    /\ MayOpen
    /\ \/ /\ plugged
          /\ m_fd' \in Fd
          /\ tty[m_fd'] = "unused"
          /\ \A f \in Fd : f < m_fd' => tty[f] # "unused"
          /\ tty' = [tty EXCEPT ![m_fd'] = "live"]
          /\ pc' = "setup"
       \/ /\ m_fd' = None
          /\ pc' = "failed"
          /\ UNCHANGED tty
    /\ UNCHANGED <<env, wpc, m_state, plugged, dying, event, served, errors, workerVars>>

\* One of the calls that set the attributes fails.
SetupFails ==
    /\ OwnerAt("setup", "failed")
    /\ tty' = Closed
    /\ m_fd' = None
    /\ UNCHANGED <<env, wpc, m_state, plugged, dying, event, served, errors, workerVars>>

RequestOpen ==
    /\ OwnerAt("setup", "awaitOpen")
    /\ m_state' = "CONNECTING"
    /\ UNCHANGED <<env, wpc, m_fd, tty, plugged, dying, event, served, errors, workerVars>>

\* The wait of open(), which returns whether it saw the state change.
AwaitOpen ==
    /\ pc = "awaitOpen"
    /\ \/ m_state # "CONNECTING" /\ pc' = "opened"
       \/ m_state = "CONNECTING" /\ ~env.prompt /\ pc' = "failed"
    /\ UNCHANGED <<env, wpc, driver, plugged, dying, event, served, errors, workerVars>>

\* close() of an opened port; otherwise it does nothing.
Close ==
    /\ MayCall /\ isOpened
    /\ pc' = "closeSet"
    /\ UNCHANGED <<env, wpc, driver, plugged, dying, event, served, errors, workerVars>>

RequestClose ==
    /\ OwnerAt("closeSet", "awaitClose")
    /\ m_state' = "DISCONNECTING"
    /\ UNCHANGED <<env, wpc, m_fd, tty, plugged, dying, event, served, errors, workerVars>>

AwaitClose ==
    /\ pc = "awaitClose"
    /\ m_state = "IDLE" \/ ~env.prompt
    /\ pc' = IF dying THEN "closing" ELSE "idle"
    /\ UNCHANGED <<env, wpc, driver, plugged, dying, event, served, errors, workerVars>>

Destroy ==
    /\ MayCall
    /\ env.orderly => isOpened \/ Resting
    /\ dying' = TRUE
    /\ pc' = IF isOpened THEN "closeSet" ELSE "closing"
    /\ UNCHANGED <<env, wpc, driver, plugged, event, served, errors, workerVars>>

DestroyClosing ==
    /\ OwnerAt("closing", "stop")
    /\ m_state' = "CLOSING"
    /\ UNCHANGED <<env, wpc, m_fd, tty, plugged, dying, event, served, errors, workerVars>>

\* if (m_worker.isRunning()) m_worker.stop(): then the members are destroyed,
\* m_worker after all others.
DestroyStop ==
    /\ pc = "stop"
    /\ IF isRunning THEN pc' = "join" /\ RequestStop
       ELSE pc' = "lateStop" /\ UNCHANGED workerVars
    /\ UNCHANGED <<env, wpc, driver, plugged, dying, event, served, errors>>

DestroyJoin ==
    /\ \/ OwnerAt("join", "lateStop") \/ OwnerAt("lateJoin", "destroyed")
    /\ Join
    /\ UNCHANGED <<env, wpc, driver, plugged, dying, event, served, errors>>

\* ~ThreadWorker()
DestroyWorker ==
    /\ pc = "lateStop"
    /\ pc' = IF First THEN "lateJoin" ELSE "destroyed"
    /\ RequestStop
    /\ UNCHANGED <<env, wpc, driver, plugged, dying, event, served, errors>>

---------------------------------------------------------------------------
(* The thread *)

ThreadEnters ==
    /\ ThreadAt("off", "loop")
    /\ Enter
    /\ UNCHANGED <<env, pc, driver, plugged, dying, event, served, errors>>

ThreadLoops ==
    /\ wpc = "loop"
    /\ IF isRunning THEN wpc' = "wait" /\ UNCHANGED workerVars
       ELSE wpc' = "off" /\ Leave
    /\ UNCHANGED <<env, pc, driver, plugged, dying, event, served, errors>>

SlipExits == FALSE
Exits == m_state = "CLOSING"

\* The wait for a request.
ThreadWakes ==
    /\ wpc = "wait" /\ m_state # "IDLE"
    /\ IF Exits THEN wpc' = "off" /\ Leave
       ELSE wpc' = "serve" /\ UNCHANGED workerVars
    /\ m_state' = IF m_state = "CONNECTING" THEN "CONNECTED" ELSE m_state
    /\ served' = IF m_state = "CONNECTING" THEN served \union {m_fd} ELSE served
    /\ UNCHANGED <<env, pc, m_fd, tty, plugged, dying, event, errors>>

\* The condition of startReadingLoop(), and the one before it is called.
ThreadServes ==
    /\ wpc = "serve"
    /\ wpc' = IF m_state = "CONNECTED" THEN "read" ELSE "setIdle"
    /\ UNCHANGED <<env, pc, driver, plugged, dying, event, served, errors, workerVars>>

Notify(ev) == event' = ev /\ wpc' = "callback"

SlipNoticed == FALSE
Noticed == ~IsLive(m_fd)

\* read() returns lines; or nothing, or an error, and the device is gone; or
\* nothing from a device that still answers.
ThreadReads ==
    /\ wpc = "read"
    /\ \/ IsLive(m_fd) /\ Notify("DATA_RECV") /\ UNCHANGED errors
       \/ /\ Noticed
          /\ Notify("COMMUNICATION_ERROR")
          /\ errors' = [f \in Fd |-> errors[f] + IF f = m_fd THEN 1 ELSE 0]
       \/ ~Noticed /\ wpc' = "serve" /\ UNCHANGED <<event, errors>>
    /\ UNCHANGED <<env, pc, driver, plugged, dying, served, workerVars>>

After(ev) == IF ev = "DATA_RECV" THEN "serve" ELSE "setIdle"

\* The listener returns; an error breaks the reading loop.
ThreadNotified ==
    /\ wpc = "callback"
    /\ wpc' = After(event)
    /\ event' = "NONE"
    /\ UNCHANGED <<env, pc, driver, plugged, dying, served, errors, workerVars>>

\* m_state = IDLE and closeDescriptor(), without the mutex.
ThreadSetsIdle ==
    /\ ThreadAt("setIdle", "close")
    /\ m_state' = "IDLE"
    /\ UNCHANGED <<env, pc, m_fd, tty, plugged, dying, event, served, errors, workerVars>>

ThreadCloses ==
    /\ ThreadAt("close", "clear")
    /\ tty' = Closed
    /\ UNCHANGED <<env, pc, m_state, m_fd, plugged, dying, event, served, errors, workerVars>>

ThreadClears ==
    /\ ThreadAt("clear", "loop")
    /\ m_fd' = None
    /\ UNCHANGED <<env, pc, m_state, tty, plugged, dying, event, served, errors, workerVars>>

---------------------------------------------------------------------------
\* The device goes, for all its descriptors for good, or comes back.
Plug ==
    /\ plugged' = ~plugged
    /\ tty' = [f \in Fd |-> IF tty[f] = "live" THEN "dead" ELSE tty[f]]
    /\ UNCHANGED <<env, pc, wpc, m_state, m_fd, dying, event, served, errors, workerVars>>

Thread ==
    \/ ThreadEnters \/ ThreadLoops \/ ThreadWakes \/ ThreadServes \/ ThreadReads
    \/ ThreadNotified \/ ThreadSetsIdle \/ ThreadCloses \/ ThreadClears

\* The rest of a call that was begun.
OwnerProceeds ==
    \/ Construct \/ Constructed \/ SetupFails \/ RequestOpen \/ AwaitOpen
    \/ RequestClose \/ AwaitClose
    \/ DestroyClosing \/ DestroyStop \/ DestroyJoin \/ DestroyWorker

Next == Thread \/ OwnerProceeds \/ OpenDevice \/ Close \/ Destroy \/ Plug

Spec == Init /\ [][Next]_vars

\* Threads run; nobody has to call, and the device may stay as it is.
FairSpec == Spec /\ WF_vars(Thread) /\ WF_vars(OwnerProceeds)

---------------------------------------------------------------------------
(* Properties *)

\* Types; also that an event is set just in a callback, and that the thread is
\* in its function just while the worker has one that runs.
TypeOK ==
    /\ env \in Env
    /\ pc \in OwnerSteps
    /\ wpc \in ThreadSteps
    /\ m_state \in {"IDLE", "CONNECTING", "CONNECTED", "DISCONNECTING", "CLOSING"}
    /\ m_fd \in Fd \union {None}
    /\ tty \in [Fd -> {"unused", "live", "dead", "closed"}]
    /\ plugged \in BOOLEAN
    /\ dying \in BOOLEAN
    /\ event \in {"NONE", "DATA_RECV", "COMMUNICATION_ERROR"}
    /\ served \subseteq Fd \union {None}
    /\ errors \in [Fd -> Nat]
    /\ WorkerTypeOK
    /\ wpc = "callback" <=> event # "NONE"
    /\ wpc # "off" <=> thread = "running"

\* Calls that wait for the thread's teardown never leave a descriptor behind,
\* the thread reads only what it was started for and nobody closed, and open()
\* succeeds only if the thread took up the descriptor it opened.
OrderlySound ==
    env.orderly =>
        /\ \A f \in Fd : IsOpen(f) => f = m_fd
        /\ wpc \in {"read", "callback"} => IsOpen(m_fd) /\ m_fd \in served
        /\ pc = "opened" /\ m_state = "CONNECTED" => m_fd \in served

\* A loss is reported at most once per opening, and never of a device that is
\* there: the port would reconnect twice, or for nothing.
LossesAreReal ==
    \A f \in Fd :
        /\ errors[f] <= 1
        /\ errors[f] = 1 => tty[f] \in {"dead", "closed"}

\* The members outlive the thread, as long as no wait for it times out: a
\* thread that starts late would use a destroyed mutex.
PromptMembersOutlive ==
    env.prompt /\ pc \in {"lateStop", "lateJoin", "destroyed"} =>
        wpc = "off" /\ thread # "born"

\* Both: nothing is used that another already owns, closed or destroyed.
OwnershipSound == OrderlySound /\ PromptMembersOutlive

\* A device that goes while its port is open is reported, or the port is
\* closed, in every environment.
LossIsNoticed ==
    \A f \in Fd :
        (m_state = "CONNECTED" /\ m_fd = f /\ tty[f] = "dead")
            ~> (errors[f] = 1 \/ m_state # "CONNECTED")

\* The destructor joins the thread.
DestructorReturns ==
    env.orderly /\ env.prompt /\ dying ~> pc = "destroyed"

\* Both: the driver's thread is there when it is needed, and only then.
ThreadResponds == LossIsNoticed /\ DestructorReturns

---------------------------------------------------------------------------
(* What makes these properties inductive *)

\* The descriptor in m_fd was opened, and one whose loss was reported stays
\* there just until the thread clears it.
LossesInv ==
    /\ LossesAreReal
    /\ m_fd \in Fd => tty[m_fd] # "unused"
    /\ \A f \in Fd : errors[f] = 1 /\ m_fd = f =>
           \/ wpc = "callback" /\ event = "COMMUNICATION_ERROR"
           \/ wpc \in {"setIdle", "close", "clear"}

\* A call of the owner never meets the thread between two requests: open()
\* works on a driver at rest, and a driver at rest has no open descriptor.
OrderlyInv ==
    env.orderly =>
        /\ \A f \in Fd : IsOpen(f) => f = m_fd
        /\ wpc \in {"read", "callback"} => IsOpen(m_fd) /\ m_fd \in served
        /\ m_state = "CONNECTED" =>
               /\ wpc \in {"serve", "read", "callback", "setIdle"}
               /\ IsOpen(m_fd) /\ m_fd \in served
        /\ m_state = "CONNECTING" => wpc \in {"off", "loop", "wait"} /\ IsOpen(m_fd)
        /\ pc = "setup" => Resting /\ IsOpen(m_fd)
        /\ Resting /\ pc # "setup" => ~IsOpen(m_fd)
        /\ wpc = "clear" => ~IsOpen(m_fd)

\* Once start() has seen the thread running it is never about to start, and
\* the worker says so until the destructor stops it.
PromptInv ==
    env.prompt =>
        /\ pc = "construct" => thread = "none"
        /\ pc \notin {"construct", "awaitThread"} => thread # "born"
        /\ pc \notin {"join", "lateStop", "lateJoin", "destroyed"} =>
               (thread = "running" <=> isRunning)
        /\ pc \in {"lateStop", "lateJoin", "destroyed"} => thread \in {"none", "over"}
=============================================================================
