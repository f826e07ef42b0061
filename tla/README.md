# UltimateTerminal in TLA+

UltimateTerminal is a Qt terminal for serial ports, TCP connections and child
processes. Nearly all of its own code is glue between threads: a GUI thread, a
timers thread, one thread per driver, one per running user button, all working
on plain or atomic members with few locks. That is what a unit test hardly
reaches and what these modules are about. They are translated from the C++ under
`src/sw`; comments name the functions, `PROJECT.json` the lines.

## The system

| part (files) | state it keeps | operations | talks to | modelled in |
|---|---|---|---|---|
| ThreadWorker (`Utilities`) | `m_state` STOPPED / RUNNING / STOPPING, the thread | start, stop (joins), isRunning | every driver, Timers | **ThreadWorker**, extended by SerialDriver and ProcessDriver; in parts inside SocketClient, Timers, SocketServer |
| Timers (`Utilities/TimersImpl`) | list of timers behind one recursive mutex | create, remove, setTimeout, three startTimer, stopTimer, the 1 ms scan | calls `onTimeout()` with the mutex held | **Timers**, promise: **TimerService** |
| SocketClient (`Drivers`) | `m_state`, `m_sock_fd`, listeners, buffers | connect, disconnect, write, listeners, receiving thread | Port, through DriversProxy | **SocketClient**; bytes and write(): **Framing** |
| SocketServer, ClientHandler (`Drivers`) | handlers, event queue, three mutexes; two threads and one per client | start, stop, write, closeClient | Logger's socket front end, RPC | **SocketServer**; bytes and write(): **Framing** |
| SerialDriver (`Drivers`) | `m_state`, `m_fd` | open, close, write, reading thread | Port | **SerialDriver** |
| ProcessDriver (`Drivers`), ApplicationExecutor (`Utilities`) | `m_state`, `m_processName`; a child process and its pipe | start, stop, reading thread | Port | **ProcessDriver** |
| Qt drivers | Qt sockets and ports | as above | Port, elsewhere than on UNIX | no |
| DriversProxy, Port (`MainApplication`) | `m_buttonState`, the proxy, two timers | click, settings, retry, throughput window, lost endpoint, destructor | Timers, drivers, GUI, MainApplication | **Port** |
| GUIController (`GUIController`) | `m_command_mutex`, `m_current_command`; widgets | requests (any thread) and their slot (GUI thread); forwarding signals | all threads | **GuiRequest**; the ports combo box in Port, the two views and their counters in Terminal |
| UserButton, ButtonCommandsExecutor (`MainApplication`) | `m_isRunning`, `m_threadRunning`, the parsed list and its iterator | click, abort, settings, a detached thread | GUIController, Port | **ButtonCommandsExecutor** |
| ButtonCommandsParser (`MainApplication`) | none but the list | parseCommands | the executor | **ButtonCommandsParser** |
| MainApplication, TraceFilter, FileLogger | ports, filters and their expressions, the log file, `m_ports_mutex`, command history | start, shutdown, onPortEvent, addToTerminal, markers, logging, sendToPort, history | everything | **Terminal**; sendToPort in ButtonCommandsExecutor, history, start and the saving shutdown in Persistence |
| Persistence (`Utilities`) | `g_jsonFile`, listeners, a file | load, restore, save | MainApplication, ports, buttons, settings | **Persistence** |
| Logger | `m_mutex`, front ends | putLog | every thread; SocketServer | its mutex in SocketServer |
| Settings, Dialogs, ThroughputCalculator | a table; forms; counters | get/set, show, count | MainApplication | no (what of them matters to Port and Persistence is there) |
| RPC, TestFramework, TestStubs, tools, ext_libs | | | tests | no |

Hard behaviours: the socket driver's state machine is shared by three threads
and changed under a lock in some places only; Port has no lock of its own and is
entered by three threads; a callback of the timers holds the timers' mutex and
may block on a driver; a GUI request from another thread waits for a GUI thread
that may be waiting for that thread; a user button's thread is detached and a
second one can overlap the first. Signals emitted by the GUI thread run at once,
those of other threads are posted and run later, in order. TCP cuts what is sent
wherever it likes. A driver gives up waiting for its thread after 500 ms and goes
on. The one file that outlives a run is written in place when the application is
closed. What is lost or late is a timeout (500 ms for drivers and requests, 5 s
for retries), an endpoint, a device or a process that goes away, or a crash.
`PROJECT.json` lists these hazards at their lines.

## How the modules are written

* A step of a thread is one access to state that another thread may touch, or
  one critical section. Handlers of Port are sequences of such steps (`todo[t]`),
  the other modules have a program counter per thread.
* What is assumed of the environment is a variable set once in `Init` (`env`,
  `settled`, `plain`). The same run therefore checks the code under the weakest
  environment, where few promises hold, and under stronger ones, where more do;
  the property's name says which (`Orderly...`, `Stable...`, `Settled...`), and a
  property without such a prefix holds in every environment. A constant gives the
  set of environments, so that nothing is fixed for the proofs.
* `Slip...` operators are small mistakes. No specification uses them; replacing
  the definition after one by it must make a property fail (`mutants` in
  `PROJECT.json`), which shows that the property depends on that line of code.
  A property that sums up several promises has several of them.
* `MC<module>.tla` gives the constants of the model-checked instances.

### SocketClient

`m_state` and `m_sock_fd` are as in the code. `sock` is the kernel's view of each
descriptor, `wpc` the place of the worker in `receivingThread()`, `pc`/`op` that
of each caller. The worker leaves a connection in three unlocked steps (`IDLE`,
`close`, `-1`: lines 236-238), and those are three actions. Environments:
`orderly` (one operation at a time, no connect() during the teardown) and
`prompt` (no 500 ms wait expires).

`EventsSound`, in every environment (`ClientEventsSound` of Drivers): once the state is IDLE the worker is quiet,
a loss is reported once and only if true, a removed listener is not called.
`OrderlySound` (`ClientCallsSound`): no descriptor leaks, the worker reads its own socket, connect()
tells the truth. `WorkerAnswers`: a request does not stay pending, the
destructor's join ends. `orderly` is needed: a connect() that comes between
lines 236 and 237 is told true for a socket that the worker then closes
(it finds its own new descriptor in `m_sock_fd`). Port can do that, see "doomed" there.

### Framing

One direction of a connection, in bytes: write() on one side, the receiving loop
of the other, for SocketClient and ClientHandler, which share everything but what
they keep over a reconnect. send() and recv() may take fewer bytes than asked
for, the wait for a payload may time out, either side may hang up. `rx`, `heard`
and `done` are histories. `LinesHeard` compares with a definition of the lines of
a stream (`LinesOf`), `HeadersInStep` with the messages written, `WriteTruth`
with the bytes that left. The loop over the delimiters is a recursive function
(`Scan`, a `Scanned` for each byte), the buffer any size a uint16_t may have. The environment says what they need, and each of these
is a flaw of the code:

* `sends`: after the second cut in one write() the count of what is left is wrong
  (SocketClient.cpp:202, ClientHandler.cpp:87): bytes are never sent and write()
  returns true. A write() cut once is right.
* `recvs`: a payload is read with one recv(); what arrives in two pieces, or
  500 ms after its header, is dropped and the next bytes are taken for a header.
  Nobody checks the size it seems to give: SocketClient makes its buffer that
  large, ClientHandler reads that many bytes into one of fixed size (line 163).
  The history `overrun` records such a recv(); `PayloadsFit` says that there is
  none if messages arrive whole and no write() is cut twice, and there is one
  without either.
* `ends`: a client keeps the head of an unfinished line when the connection ends,
  and puts it before the first line of the next one.
* The -1 of a recv() that timed out, as a uint32_t, equals a size of FFFFFFFF, and
  a message is reported then (`IsError`). Only a header out of step has that size:
  no instance here has such bytes, the proofs cover them.
* A line longer than the buffer loses the buffers it has filled; `FittingTail` in
  the reference says so.

### ThreadWorker, SerialDriver, ProcessDriver

ThreadWorker is an open component: the thread, `m_state`, and the critical
sections of start(), stop(), isRunning() and execute(). A driver's module extends
it and says when its owner and its thread take these steps; the destructor goes
through stop() twice, as the code does (`~SerialDriver` and `~ThreadWorker`).

SerialDriver: an owner (`pc`) opens, closes and destroys; the device can be
unplugged and plugged in (`tty`, `plugged`); `wpc` is the thread. As in
SocketClient the thread leaves a port in three unlocked steps. `OwnershipSound`
says whose the descriptors are and that no thread is left when the driver is
gone; `LossesAreReal` that COMMUNICATION_ERROR comes at most once for a port, and
only for one that is gone (together `SerialSound`); its `ThreadResponds` that a
loss is noticed and the destructor returns.

ProcessDriver: `proc` is each child process with the command it runs in
system(). `StoppedIsTheEnd`: no output of a command is reported after its
PROCESS_STOPPED, which comes once; `PromptStopIsQuiet`: nothing of a command is
reported after stop() returned, nor taken for that of the next command. What the
model had to allow for, from the code:

* system() ignores SIGINT, so the signal of stopApplication() does not end a
  command; PDEATHSIG ends only the child that waits for it. A stopped command
  goes on as an orphan until it finds the pipe closed, or blocks on it.
* stop() waits 500 ms, exactly one epoll_wait() of the thread. If that runs out
  and the driver is destroyed, line 135 overwrites EXITING with STOPPED and the
  destructor joins a thread that waits for ever (`prompt` excludes it).
* What a command writes between the end of epoll_wait() and isRunning() is lost
  if it has ended by then (`lingers`).
* main() ignores SIGCHLD, therefore a child that has ended is not found by
  kill(pid, 0), which the driver relies on.

Drivers composes SerialDriver, ProcessDriver and SocketClient: a behaviour is one
of the serial port, of commands or of the TCP client, and the other drivers are
never used. A program has many drivers of each kind; they share nothing but the
kernel, so what one of them does beside the others is what it does alone.

### Timers and TimerService

Timers is the list, the recursive mutex and the scan of TimersImpl; clients call
from other threads when the mutex is free, or from a callback. Time is `Tick`;
`elapsed` counts it up to the longest timeout, beyond which nothing changes.
TimerService is what `ITimers.h` promises: modes, time left, one callback at a
time; no thread, no mutex, no scan. The refinement maps each timer to its `View`;
`call` is a history variable that makes each client call map to the same call of
the service, so that a start cannot pass for a stop. `KeepsPromise` says that
Timers implements TimerService if it is used plainly (`UsedPlainly`): a timer
started periodic is not started otherwise later, and one started with a timeout
of its own is not started otherwise before it has expired. All uses in this
program are plain. Without the assumption the promise is not kept: a timeout that
is "used only once" is used again by the next startTimer() (TimersImpl.cpp:126).
`DueIsServed` is the liveness of the scan. stop() may come at any time, also twice.

### Port

`button` is `m_buttonState`, `drv` the driver behind the proxy as SocketClient
and SerialDriver show it ("doomed" is the connect() during a teardown described
there), `retry` and `meter` the two timers, `ui` the widgets,
`posted` the queue of signals, `has` what the destructor has not yet taken down.
While `todo["timers"]` is not empty that thread holds the timers' mutex.
Environments, each on top of the one before: `{}`, `prompt`, `stable` (an
endpoint is lost only while nothing runs), `calm` (handlers do not overlap).

`ThroughputTrue`, in every environment: an open port is measured and no rate is
left on screen. `StableRetries`: a port left CONNECTING has its retry pending, an
abort is final although it may race a retry; and, in every environment, when the
proxy is destroyed no timer is left and no other thread is in a handler of the
port (the mutant destroys the proxy first). `CalmAgrees`: state, driver, timers
and widgets agree; `CalmReplacesIdleProxy`: settings never replace a proxy in
use. `PortGoesOn`: no handler, the destructor included, blocks for ever, in spite
of the timers' mutex held over a wait for the driver, and retries go on.

`stable` is needed: an endpoint lost during the click that opened it arms the
retry timer, which that click then stops (Port.cpp:307): CONNECTING for ever.
Closing during the driver's report leaves the retry armed (line 266), and the
closed port opens itself. `calm` is needed: aborting during a retry that
succeeds leaves DISCONNECTED with the driver on. Not modelled: data and write(),
which only pass through; write() on a port of type COMMAND uses a socket client
that does not exist (see the end of this file).

**PortRests** gives a name to what is left of each handler at each of its steps
(`CloseWaits` is closePort() without its first step) and tells by these names
where the threads are: the invariants of the proofs are in it.

### GuiRequest

executeGUIRequest() and its slot. A request is named by its thread, since each
has at most one. Environments: `patient` (500 ms run out only when the GUI thread
waits for the mutex) and `apart` (the GUI thread asks only while no worker does).
In every environment `m_current_command` is the mutex holder's request, and an
answer reported as good is fresh, though late signals execute later requests
early. Apart: the slot's assertion holds and all are answered (`RequestsSound` is
all of this, `RequestsReturn` the liveness). `apart` is needed: if the GUI thread
asks while a worker does, a signal is left that finds no request, and the
assertion at GUIController.cpp:653 stops the program.

### ButtonCommandsExecutor

`execute()`, `abort()`, the command loop, `sendToPort()`. A list is a sequence of
"wait" and "send"; to send, the thread asks the GUI thread for the line ending,
which the GUI thread cannot give while it polls in `abort()`. `settled`: the user
acts only when no thread is just starting or winding down. In every environment
the flags are down when no thread is left, so the button never gets stuck.
Settled: the parser is not changed under its thread, the button shows what goes
on, texts go out in order and once, an abort is final, executions end, and only
the text an abort cuts off lacks its ending (README.md of the program promises it
to all). After a fault of the parser (undefined behaviour in the code) the model
stops.

The lists are those that **ButtonCommandsParser** makes of texts. Its lines are
records of what the code tells apart; `findRepeatEnd` and `processStrings` are as
in the code (with RECURSIVE operators, so no theorem mentions it). The reference
is a tree of statements: `ListIsMeant` says that for every program considered
(all with up to two levels of loops and two statements in each) what
is executed, and when, is what the tree means, and that the list in the
button is one of those. A text in which "__repeat_end" occurs in the middle of a
line closes a loop there and is not sent; the programs considered have none.

### Persistence

Runs of the application one after another: the constructor loads the file,
registers the modules one by one (SETTINGS restores itself while it
registers, the others all together), clears what was loaded; the destructor
empties the file, asks every module, writes. A crash may come at any step. The
command history belongs to it: two senders, the GUI thread and a button's thread,
change it in two unlocked steps each. `SettingsSurvive`: unless the application
dies while it saves, the file is what the last save collected, and what it holds
is what a run that comes up starts with (`PlainRoundTrip`). `plain`: a
command that contains ':' comes back as several.

Not every start comes up. Without `gentle` the file is left empty, and parse()
throws. And a module may throw at what it has saved itself, without a crash
(`Unreadable`): a trace filter compiles the text it saved as it was typed
(TraceFilter.cpp:119, 177), SETTINGS reads with stoi a number that the dialog took
as a uint32_t (SettingsHandler.cpp:157). Nobody catches either, and `failed` records
it. `read` is a user who enters nothing of the kind. `ReadStarts`, a part of
`SettingsSurvive`: if `gentle` and `read`, every start succeeds; after one that did
not, none does until the file is deleted, for the file stays as it is.

`PlainHistory`: no duplicates and always less than the limit, if the senders do
not overlap (`apart`).

### Terminal

The way of a line from a driver's thread to the views, the log file and the trace
filters, a step for each access to something shared, with `m_ports_mutex`
(`owner`) around it. A marker takes the same way in the GUI thread, without the
mutex; what the GUI thread emits runs at once (`Slot`), what others emit is
`posted`. The user starts and stops the log, switches filters and clears views;
at last the destructor drops the filters, then the ports. `clash` records that a
stream, an expression or the list of filters was changed while another thread
was using it: what follows in the code is undefined, and the model only notes it.
Environments: `steady` (log, filters and markers are clicked, and the application
ends, only while no line is on its way) and `prompt` (the GUI thread has caught
up when a line begins).

In every environment the mutex is held exactly by the driver whose line is on its
way (`TypeOK`). Steady: nothing clashes, and the log file holds what the terminal
was sent, but for the line in hand (`LogTrue`). Steady and prompt: the terminal
never exceeds its limit, the trace view does by one line's matches at most (all
filters add, line 258 looks once), and the limit never clears a view that is not
full (`LimitsKept`). Both assumptions are needed, and each failure is a flaw of
the code:

* Without `steady`, the file is closed during a write, an expression is compiled
  anew during a search, a marker writes beside a driver, and the destructor clears
  the filters under a driver's loop (MainApplication.cpp:178, before the ports).
* Without `prompt`, the counters lag behind what is posted
  (MainApplication.cpp:252): a burst outgrows the limit, and at the limit every
  line of a burst posts a clear of its own, which takes the lines before it.

Not modelled: the text of a line, colours, scrolling, an expression that
std::regex refuses (it throws in the click), the log file's name. Events other
than data post one signal each and are in Port.

### SocketServer

The listening thread, the worker, a handler's thread per client, the owner who
calls start() and stop(), and threads that write. `lock` says who holds each of
the server's mutexes and the Logger's; `kernel` which connection a descriptor
stands for, since the server knows clients by descriptor only and the kernel
uses the lowest free one again. An event carries the connection it came from
(`from`) for the properties; the code sees the descriptor. Two reads of isRunning() and what
follows them at once are one step. Environments: `front` (the Logger's socket
front end: writers hold the Logger's mutex, nobody listens) or else an RPC
server, whose listener replies from the callback; `prompt` (a thread that was
started is seen running within a second).

`ClientsTrue` is two promises. `OwnDescriptors`: no descriptor is closed or passed on under its reader, and an
event closes the handler it came from. `PromptFarewell`: after a client was
reported gone nothing but a late CLIENT_CONNECTED is heard of it, and stop()
leaves nothing behind. It holds across a second start() only because the worker
is never started again: the events left in the queue would be delivered late
(the mutant of `StartSucceeds`); the price is that after a second start() no
event is delivered at all. `PlainNoDeadlock` looks for circles of threads that
wait for a mutex's holder or for a thread they join. With the Logger on top
there is one, and run `logger_deadlock` shows it: putLog() waits for the handlers' mutex,
whose holder logs. There is another one without `prompt`: the handler that is given
up is joined with the handlers' mutex held.

Not modelled: listeners coming and going, the bytes (Framing), a send() that blocks,
and the lines logged with no mutex held or none that a front end wants
(SocketServer.cpp:98-113, 159, 170): each takes the Logger's mutex for a moment and
gives it back, so it adds no circle and hides none; with them the steps that lead to
the deadlock of `logger_deadlock` come in a stricter order, and lead to the same one.

## Runs

| run | instance | states | asks |
|---|---|---|---|
| `framing` | 4 payloads, buffer of 6 bytes, 2 connections, all environments | 2.4 x 10^6 | `LinesHeard`, `HeadersInStep`, `PayloadsFit`, `WriteTruth` |
| `drivers` | 2 descriptors; 2 commands of 2 lines; 1 caller and 2 sockets; all environments | 2.2 x 10^5 | `SerialSound`, `StoppedIsTheEnd`, `PromptStopIsQuiet`, `ClientEventsSound`, `ClientCallsSound`, `ThreadsRespond` |
| `timers` | 2 timers, timeouts 0..2 ticks, plain use | 3.7 x 10^4 | `KeepsPromise`, `DueIsServed` |
| `port` | ETHERNET and SERIAL, all environments | 1.7 x 10^6 | the safety properties of Port |
| `port_liveness` | ETHERNET, prompt, and prompt and stable | 1.5 x 10^5 | `PortGoesOn` |
| `gui_request` | 2 workers and the GUI thread, 2 edits, all environments | 2.3 x 10^4 | `RequestsSound`, `RequestsReturn` |
| `button_executor` | 2 threads, lists of up to 3 commands, both environments; 9119 programs for the parser | 5.9 x 10^4 | `ButtonSound`, `SettledInOrder`, `SettledAbortIsFinal`, `RunsEnd`, `ListIsMeant` |
| `persistence` | 3 modules, 3 values, 4 commands, history of 3, all environments with `read`, two without | 6.3 x 10^6 | `SettingsSurvive`, `PlainHistory` |
| `terminal` | 2 drivers, 2 filters, limit of 2 lines, 4 lines, 2 clicks, all environments | 6.5 x 10^6 | `LogTrue`, `LimitsKept` |
| `socket_server` | 2 clients, 2 descriptors, 1 writer, 2 starts, all environments | 1.5 x 10^6 | `ClientsTrue`, `PlainNoDeadlock` |
| `logger_deadlock` | 1 client, 1 writer, front | | `LogReturns`: violated |

Every passing run checks the types of its modules too (`TypeOK`, `TypesOK`), except
`port_liveness`.

Why the bounds suffice. Two sockets: what goes wrong does so between a
connection and its successor. Two timers: the one called back and the one after
it in the scan; two ticks tell "due", "waiting" and "started anew" apart. Two
workers: the owner of the mutex and one that waits, with the GUI thread as third;
`MaxPosted = 3` leaves a late signal of each. Two threads of a button: one winding
down and its successor; three commands have a text, a wait and a text, where an
abort can come before, in and after each. Two clients of the server: one being
closed and its successor on the same descriptor, or two handlers of which one
is joined and one reports; a second start() shows what a stop() left. In Port `MaxPosted = 0` keeps a new
handler from starting while more than its own signals are waiting; `MaxEntries`
counts combo box entries just far enough to see a double or a missing one, and
is 0 for liveness, where widgets do not matter. No symmetry is used where
liveness is checked. In Framing a buffer of 6 bytes stands for 8192: one payload
fits, one line is written in two writes and does not fit, one frame is too long
for a write(); every cut of every send() and recv() is tried, and a second
connection shows what the first left. Two openings of the serial port
are one that is left and its successor; two commands are one being stopped and
its successor, two lines of each one in the buffer and one in the pipe. Of
three values of a setting one is the default, one cannot be read back; who sends what
has nothing to do with that, so the latter is entered in two of the environments only. A
history limit of 3 keeps two commands, so that a third pushes the first out. In
Terminal two drivers compete for the mutex while the GUI thread acts; with a
limit of two, the third of four lines meets a full view and the fourth the view
after its clear; two clicks switch a filter on and off, or open and close the
file. Two levels of
loops with up to two statements in each have neighbouring and nested loops,
empty ones, and waits of 500 ms, more and less than none.

`CHECK_DEADLOCK FALSE` stands where the system really stops: the destructor was
called, the bytes are used up, the process is gone after a fault, or the server has deadlocked under
the Logger.

Fairness. Threads run: each thread's own steps are weakly fair (the operating
system's scheduler). Strong fairness stands in two places. A thread waiting for a
mutex gets it when it is free again and again (`Lock` in GuiRequest; the waits
for the timers' mutex in Port, whose thread sleeps a millisecond between scans);
and a timed wait ends, since the timeout is certain. A timer that expired is
served by the next scan, which `Timers!DueIsServed` shows and Port assumes.
Nothing is assumed of the user, the server or the endpoint: they may do nothing.
In SerialDriver and ProcessDriver the thread is weakly fair, and so are the calls
the owner has begun, while the user may never begin one; a device may stay as it
is, a command may run for ever. In Timers the thread is weakly fair as a whole: the mutex is not held between
scans, and callbacks return.

## Proofs

Checked by tlapm for all values of the constants under the named assumptions
(`ConstantsAssumption` and its like), in modules of their own; UtilitiesProofs holds
those of Timers and of Persistence, DriversProofs those of the three drivers.

* The TCP client, in `DriversProofs`. `EveryEnvInv` is inductive and carries what
  holds without assumptions: who may have set `m_state`, where the worker can be in
  each state, that the event belongs to a socket in service. `ClientEventsSound`
  follows from it (`ClientEventsAreSound`). `OrderlyIInv` adds, for one operation at a
  time, which place of the caller goes with which place of the worker and who owns the
  open descriptor; it gives `ClientCallsSound` (`ClientCallsAreSound`). None of those
  promises is inductive: they speak of the descriptor, and it takes the program
  counters to know that nobody else is about to close it. Any number of callers
  and sockets.
* `GuiRequestProofs`. `CommandIsHolders` and `AnswersAreFresh` need the types and
  each other only. `ApartInv` says that a posted signal, a waiting worker and the
  mutex always belong together; `ApartNoFault` and `ApartAnswered` follow, and
  `RequestsAreSound` is all four. Any number of workers.
* `ButtonCommandsExecutorProofs`. `FlagsFollowThreads` needs to know which steps
  of a thread lie before the two stores that clear the flags; `SettledInv` adds
  that at most one thread is in its loop and what abort() let go of; `OrderInv` says
  which commands the one thread has taken when it is at each place of its loop, and
  gives `SettledInOrder`; `ButtonIsSound` is the sum. Any number of threads and
  any lists.
* `TerminalProofs`. `Alone`: in a steady environment one thread at most has a line
  on its way, between drivers by the mutex (hence its equivalence in `TypeOK`),
  between them and the GUI thread by `steady`. With the types it makes `LogTrue`
  inductive: nobody else writes, opens or closes between the two halves of
  putLog(). `LimitsHold`: what a view will hold once the signals already posted have
  run, and the next clear among them, is counted over the queue (`Queue`, `Posts`,
  `Room`); `LimitsInv` says how much of it the line in hand may still add, so that a
  clear is posted exactly when the view was full. Any number of drivers, filters,
  lines and any limit.
* `UtilitiesProofs`, Timers. `TypeCorrect`, and `PromiseKept`: Timers implements
  TimerService. The lemmas `ViewOf...` say how each operation on one timer looks
  through the refinement mapping; `ServiceStep` goes through the actions and names
  the step of the service each is. The types are all the invariant needed.
* `DriversProofs`. The types include that a thread is in its function just while
  its worker runs it. `LossesInv` ties a loss already reported to the descriptor
  the thread still has in its hands, `OrderlyInv` an owner's call to a thread at
  rest, and SerialDriver's `PromptInv` the worker's state to the thread: together
  they give `SerialSound`. For commands, `AccountInv` counts the lines of a process
  (what was written is heard, in the buffer or in the pipe), `ServingInv` says which
  processes there can be, and ProcessDriver's `PromptInv` which place of the owner
  goes with which state and which place of the thread; `StoppedIsTheEnd` and
  `PromptStopIsQuiet` follow. A step of one driver leaves the others as they are.
  Any number of descriptors, commands and lines.
* `PortProofs`. `Shape`: each thread is always at one of the rests named in
  PortRests, and the lemmas `...Is` say from which rest to which each step leads.
  On these the invariants are stated: `Teardown` (what the destructor has taken
  down and who may still run), `Metered` and `Cleared` (a connected port is metered
  or somebody is about to start the meter; a rate on screen has its end posted
  behind it), `Trials` (what a trial under way allows the GUI thread to do), and for
  handlers that do not overlap `CalmAgreement`, `CalmColoured`, `CalmListed` (how far
  each handler has brought state, driver, widgets and what is posted to agree).
  The properties speak of a quiet port only, hence none is inductive.
  `AloneTheyAgree` needs `MaxEntries > 0`: at 0 the model does not count the entries
  of the combo box. Any bound on what is posted.
* `FramingProofs`. Any payloads, any buffer of up to 65535 bytes, any cuts and
  reconnects. `Types` says what a write() in progress has left to send and that what
  is buffered fits and has no delimiter in it. `Truth` (what `WriteTruth` says of
  finished calls, and for the one in progress that its counters add up to the frame
  until a cut has been taken off) gives `WriteTruth`. `InStep` gives `HeadersInStep`: what was
  read is the messages reported and the header pending, and with what is on
  the wire it is the messages accepted and the beginning of the next one; that a
  header is never misread comes from `Ahead`, the cases of what the reader can have
  before it, and from `DecodeIs`: decoding a header gives the length it
  was made of. `PayloadsFit` follows from it and `AcceptedFit` (what write() accepted
  fits its buffer, header and all), as `SizesFit`; any reader. `Following` gives `LinesHeard`: what is buffered is the unfinished line less a number of full
  buffers, which is how `FittingTail` of the reference loses the same bytes.
  The functions that recur over a sequence (`Scan`, `Accepted`, `FlattenSeq`) are
  reasoned about with `UpTo`, induction over a set of indices (the least index
  outside the set cannot be), `Recursion` (such a function exists) and
  `SameRecursion` (there is one only).
* `SocketServerProofs`. One inductive invariant for the three theorems, since each
  part needs others: where threads can be together (`PlacesInv`: start() and stop()
  end the threads in an order), who holds which mutex (`LocksInv`), that a listed
  handler has an open descriptor of its own until it was joined (`HandlersInv`,
  `NewInv`), that an event in the queue carries its sender's descriptor and a "gone"
  is its sender's last (`QueueInv`), that the worker is at the handler its event came
  from (`ServedInv`, `PromptInv`), and that a listener has been told of each client
  what happened to it, once and in order (`TruthInv`). A lemma per action,
  `<Action>Keeps`, shows that it keeps all of them. `ClientsHold` is `ClientsTrue`.
  `NoCircle` is `PlainNoDeadlock`: the worker wants only what is free or what the
  listening thread holds, which goes on, and a handler that is joined has nothing
  left to wait for. Any number of clients, writers, descriptors, lines and starts.
* `UtilitiesProofs`, Persistence. `FilesInv` says what the file and `g_jsonFile` can
  hold at each place of a run, `BeginInv` that a run begins with an empty history and
  that nothing is being added before something was touched, `PlainInv` and `TidyInv`
  that what holds of the history holds of every copy of it, in `g_jsonFile` and in the
  file, and `ReadInv` the same of settings that can be read. `SettingsSurvive` and `PlainHistory` follow, across runs and crashes
  (`SettingsDoSurvive`, `HistoryStaysPlain`). The history is split and cleared of
  duplicates by `FlattenSeq`: `FlattenIn` is induction over its index, stated with a
  family of sets, and gives `Splits` and `Removes`. Any modules, values, commands and
  any limit.

Only model-checked:

* Every liveness property (`RequestsReturn`, `RunsEnd`, `DueIsServed`,
  `ThreadsRespond`, `PortGoesOn`): under fairness, out of the prover's reach.
* `ListIsMeant`: the parser is written with RECURSIVE operators, and what it returns
  for every program is an induction over data.

The run that is violated is a counterexample and needs no proof.

## Plan

1. (done) SocketClient, Timers, GuiRequest, ButtonCommandsExecutor: model, runs,
   proofs. SocketServer with ClientHandler and the Logger's mutex, Port: model, runs.
2. (done) Framing, ThreadWorker with SerialDriver and ProcessDriver, Persistence
   with the command history, the parser of buttons, the destructor of Port,
   Terminal with TraceFilter, FileLogger and its proofs.
3. (done) Proofs of the drivers (SerialDriver, ProcessDriver and SocketClient, in
   DriversProofs), of Port (PortProofs) and of Framing (FramingProofs).
4. (done) Proofs of SocketServer (SocketServerProofs), of Persistence
   (UtilitiesProofs), of `LimitsKept` and of `SettledInOrder`: every safety property
   of a run but the parser's is proved.

## What is not modelled, and why

* Widgets other than those named, dialogs, formatting and colours have no state a
  property could be about. Settings is a table behind one mutex without
  listeners. Throughput is floating-point arithmetic.
* The Qt drivers (QtSocketServer also has a ThreadWorker) are built elsewhere than
  on UNIX only; they are the same state machines over Qt's sockets and ports.
* Two plain mistakes met on the way have no interleaving a property could be
  about. write() to a port of type COMMAND goes through a socket client that does
  not exist (DriversProxy.hpp:119). Settings accepted while a button is running
  are shown and saved but never parsed (UserButton.cpp:57).
* RPC, the test framework, its stubs and cases and `tools` are not part of the
  program. `ext_libs` is third-party, and holds nine tenths of the lines of the
  repository.
* Known consequences of data races on plain members are modelled as interleavings
  of whole accesses; weaker memory orders are not. A detached thread of a button
  that outlives the button (ButtonCommandsExecutor.hpp:43) is not modelled: any
  step of it after that is undefined.
* tty attributes, the regular expressions that recognise a line of a button, and
  levels and headings of the log are left out.
