------------------------------ MODULE Terminal ------------------------------
(***************************************************************************)
(* The way of a received line (src/sw/MainApplication/source/              *)
(* MainApplication.cpp: onPortEvent, addToTerminal and the buttons around  *)
(* them, with FileLogger.cpp, TraceFilter.cpp and the views of             *)
(* GUIController.cpp): threads of drivers that bring lines, and the GUI    *)
(* thread, which delivers what they posted, sets markers, starts and stops *)
(* the log file, switches filters and at last destroys the application.    *)
(*                                                                         *)
(* A line is its number, in the order in which addToTerminal() was         *)
(* entered.  Views are counted, as GUIController counts them.              *)
(***************************************************************************)
EXTENDS Integers, Sequences

CONSTANTS
    Drivers,   \* threads of drivers
    GUI,       \* the GUI thread
    Filters,   \* how many trace filters there are
    Limit,       \* MainApplication_maxTerminalTraces
    MaxLines,  \* bound: lines and markers
    MaxClicks, \* bound: clicks that change the log or a filter, or clear a view
    Envs       \* the environments considered, see Env

Env == [steady : BOOLEAN, \* log, filters and markers are clicked, and the
                          \* application ends, only while no line is on its way
        prompt : BOOLEAN] \* the GUI thread has caught up when a line begins

NoOne == "no one"

ASSUME ConstantsAssumption ==
    /\ GUI \notin Drivers /\ NoOne \notin Drivers
    /\ Filters \in Nat /\ Limit \in Nat \ {0}
    /\ MaxLines \in Nat /\ MaxClicks \in Nat
    /\ Envs \subseteq Env

Thread == Drivers \union {GUI}
ViewSignal == {"clear", "clearTrace", "add", "trace"}

VARIABLES
    env,     \* the environment of this behaviour, never changed
    pc,      \* where each thread is
    line,    \* the line each thread is adding
    at,      \* the trace filter each thread has reached
    owner,   \* of m_ports_mutex
    phase,   \* "up", then what the destructor has cleared
    posted,  \* signals in the queue of the GUI thread
    shown,   \* m_terminal_view_status.item_count
    traced,  \* m_trace_view_status.item_count
    open,    \* the stream of the log file is open
    filters, \* size of m_trace_filters
    active,  \* m_is_active of each filter
    lines,   \* history: lines and markers so far
    clicks,  \* history: clicks so far
    order,   \* history: lines sent to the terminal since the file was opened
    log,     \* history: lines in the log file
    early,   \* history: the limit cleared a view that was not full
    clash    \* history: a stream, regex or filter was changed during its use

place == <<pc, line, at, owner>>
views == <<posted, shown, traced, early>>
file == <<open, order, log>>
filter == <<filters, active>>
vars == <<env, place, phase, views, file, filter, lines, clicks, clash>>

Init ==
    /\ env \in Envs
    /\ pc = [t \in Thread |-> "idle"]
    /\ line = [t \in Thread |-> 0]
    /\ at = [t \in Thread |-> 0]
    /\ owner = NoOne
    /\ phase = "up"
    /\ posted = <<>> /\ shown = 0 /\ traced = 0 /\ early = FALSE
    /\ open = FALSE /\ order = <<>> /\ log = <<>>
    /\ filters = Filters
    /\ active = [f \in 1 .. Filters |-> FALSE]
    /\ lines = 0 /\ clicks = 0 /\ clash = FALSE

---------------------------------------------------------------------------
Clashes(condition) == clash' = IF condition THEN TRUE ELSE clash

At(t, s, next) == pc[t] = s /\ pc' = [pc EXCEPT ![t] = next]

Quiet == \A t \in Thread : pc[t] = "idle"
CaughtUp == env.prompt => posted = <<>>

\* The event loop calls a handler.
Handles == pc[GUI] = "idle" /\ phase = "up"
MayHandle == Handles /\ (env.steady => Quiet)

\* The slots of GUIController.
Slot(s) ==
    /\ shown' = IF s = "clear" THEN 0 ELSE shown + (IF s = "add" THEN 1 ELSE 0)
    /\ traced' = IF s = "clearTrace" THEN 0 ELSE traced + (IF s = "trace" THEN 1 ELSE 0)

\* A signal of the GUI thread is a call of its slot, others are posted.
Signal(t, s) ==
    /\ UNCHANGED early
    /\ IF t = GUI
       THEN Slot(s) /\ UNCHANGED posted
       ELSE posted' = Append(posted, s) /\ UNCHANGED <<shown, traced>>

---------------------------------------------------------------------------
(* A line *)

SlipFree == TRUE
Free == owner = NoOne

\* onPortEvent() with NEW_DATA.
PortEvent(d) ==
    /\ CaughtUp /\ (env.steady => pc[GUI] = "idle")
    /\ phase # "gone" /\ lines < MaxLines
    /\ Free
    /\ At(d, "idle", "count")
    /\ owner' = d
    /\ lines' = lines + 1
    /\ line' = [line EXCEPT ![d] = lines']
    /\ UNCHANGED <<env, at, phase, views, file, filter, clicks, clash>>

\* onMarkerButtonClicked(), without the mutex.
Marker ==
    /\ MayHandle /\ CaughtUp /\ lines < MaxLines
    /\ At(GUI, "idle", "count")
    /\ lines' = lines + 1
    /\ line' = [line EXCEPT ![GUI] = lines']
    /\ UNCHANGED <<env, at, owner, phase, views, file, filter, clicks, clash>>

SlipFull(count) == count > Limit
Full(count) == count >= Limit

CountTerminal(t) ==
    /\ At(t, "count", "countTrace")
    /\ IF Full(shown) THEN Signal(t, "clear") ELSE UNCHANGED views
    /\ UNCHANGED <<env, line, at, owner, phase, file, filter, lines, clicks, clash>>

CountTrace(t) ==
    /\ At(t, "countTrace", "add")
    /\ IF Full(traced) THEN Signal(t, "clearTrace") ELSE UNCHANGED views
    /\ UNCHANGED <<env, line, at, owner, phase, file, filter, lines, clicks, clash>>

AddToTerminalView(t) ==
    /\ At(t, "add", "putLog")
    /\ Signal(t, "add")
    /\ order' = IF open THEN Append(order, line[t]) ELSE order
    /\ UNCHANGED <<env, line, at, owner, phase, open, log, filter, lines, clicks, clash>>

\* putLog(): the question whether the file is open, then the write.
PutLog(t) ==
    /\ At(t, "putLog", IF open THEN "write" ELSE "filter")
    /\ at' = [at EXCEPT ![t] = 1]
    /\ UNCHANGED <<env, line, owner, phase, views, file, filter, lines, clicks, clash>>

Writing(t) == pc[t] = "write"

Write(t) ==
    /\ At(t, "write", "filter")
    /\ log' = IF open THEN Append(log, line[t]) ELSE log
    /\ Clashes(\E u \in Thread \ {t} : Writing(u))
    /\ UNCHANGED <<env, line, at, owner, phase, views, open, order, filter, lines, clicks>>

Searching(f) == \E t \in Thread : pc[t] = "search" /\ at[t] = f
Matching(t) == pc[t] \in {"filter", "search"}

\* tryMatch() of the next filter, which may be off; or the loop is over.
TryMatch(t) ==
    /\ pc[t] = "filter" /\ at[t] <= filters
    /\ IF active[at[t]]
       THEN pc' = [pc EXCEPT ![t] = "search"] /\ UNCHANGED at
       ELSE at' = [at EXCEPT ![t] = @ + 1] /\ UNCHANGED pc
    /\ UNCHANGED <<env, line, owner, phase, views, file, filter, lines, clicks, clash>>

\* regex_search() finds something in the line or nothing.
Search(t) ==
    /\ At(t, "search", "filter")
    /\ at' = [at EXCEPT ![t] = @ + 1]
    /\ Signal(t, "trace") \/ UNCHANGED views
    /\ UNCHANGED <<env, line, owner, phase, file, filter, lines, clicks, clash>>

SlipReleased(t) == NoOne
Released(t) == IF owner = t THEN NoOne ELSE owner

LineAdded(t) ==
    /\ At(t, "filter", "idle")
    /\ at[t] > filters
    /\ owner' = Released(t)
    /\ line' = [line EXCEPT ![t] = 0]
    /\ at' = [at EXCEPT ![t] = 0]
    /\ UNCHANGED <<env, phase, views, file, filter, lines, clicks, clash>>

---------------------------------------------------------------------------
(* The GUI thread *)

\* The next signal's slot.  What is cleared because of the limit should be full.
Deliver ==
    /\ Handles /\ posted # <<>>
    /\ posted' = Tail(posted)
    /\ Slot(Head(posted))
    /\ early' = (early \/ (Head(posted) = "clear" /\ shown \in 1 .. Limit - 1)
                       \/ (Head(posted) = "clearTrace" /\ traced \in 1 .. Limit - 1))
    /\ UNCHANGED <<env, place, phase, file, filter, lines, clicks, clash>>

Click ==
    /\ Handles
    /\ clicks < MaxClicks /\ clicks' = clicks + 1
    /\ UNCHANGED <<env, place, phase, posted, early, lines>>

\* onLoggingButtonClicked(): a new file each time; it may be impossible to open.
Logging ==
    /\ MayHandle /\ Click
    /\ open' \in (IF open THEN {FALSE} ELSE BOOLEAN)
    /\ IF open' THEN order' = <<>> /\ log' = <<>> ELSE UNCHANGED <<order, log>>
    /\ Clashes(\E t \in Thread : Writing(t))
    /\ UNCHANGED <<shown, traced, filter>>

\* TraceFilter::onButtonClicked(): to switch it on compiles its expression.
FilterClicked(f) ==
    /\ MayHandle /\ Click /\ f <= filters
    /\ active' = [active EXCEPT ![f] = ~@]
    /\ Clashes(~active[f] /\ Searching(f))
    /\ UNCHANGED <<shown, traced, file, filters>>

\* handleNewSettings(), only while the filter is off: the same for the regex.
FilterChanged(f) ==
    /\ MayHandle /\ Click /\ f <= filters /\ ~active[f]
    /\ Clashes(Searching(f))
    /\ UNCHANGED <<shown, traced, file, filter>>

ClearTerminal == Click /\ shown' = 0 /\ UNCHANGED <<traced, file, filter, clash>>
ClearTrace == Click /\ traced' = 0 /\ UNCHANGED <<shown, file, filter, clash>>

\* The destructor: the filters go, then the ports with their threads.
DropFilters ==
    /\ MayHandle
    /\ phase' = "dropped"
    /\ filters' = 0
    /\ Clashes(\E d \in Drivers : Matching(d))
    /\ UNCHANGED <<env, place, views, file, active, lines, clicks>>

DropPorts ==
    /\ phase = "dropped"
    /\ \A d \in Drivers : pc[d] = "idle"
    /\ phase' = "gone"
    /\ UNCHANGED <<env, place, views, file, filter, lines, clicks, clash>>

---------------------------------------------------------------------------
AddLine(t) ==
    \/ CountTerminal(t) \/ CountTrace(t) \/ AddToTerminalView(t)
    \/ PutLog(t) \/ Write(t) \/ TryMatch(t) \/ Search(t) \/ LineAdded(t)

Next ==
    \/ \E d \in Drivers : PortEvent(d)
    \/ \E t \in Thread : AddLine(t)
    \/ \E f \in 1 .. Filters : FilterClicked(f) \/ FilterChanged(f)
    \/ Marker \/ Deliver \/ Logging \/ ClearTerminal \/ ClearTrace
    \/ DropFilters \/ DropPorts

Spec == Init /\ [][Next]_vars

---------------------------------------------------------------------------
(* Properties *)

Flags ==
    /\ open \in BOOLEAN /\ early \in BOOLEAN /\ clash \in BOOLEAN
    /\ active \in [1 .. Filters -> BOOLEAN]

\* Types; a thread is at a filter just after the question for the log, and the
\* mutex is held just by the driver whose line is on its way, also when a marker
\* overtakes it.
TypeOK ==
    /\ env \in Env
    /\ pc \in [Thread -> {"idle", "count", "countTrace", "add", "putLog",
                          "write", "filter", "search"}]
    /\ line \in [Thread -> 0 .. MaxLines]
    /\ at \in [Thread -> 0 .. Filters + 1]
    /\ owner \in Drivers \union {NoOne}
    /\ phase \in {"up", "dropped", "gone"}
    /\ posted \in Seq(ViewSignal)
    /\ shown \in Nat /\ traced \in Nat
    /\ Flags
    /\ filters \in 0 .. Filters
    /\ lines \in 0 .. MaxLines /\ clicks \in 0 .. MaxClicks
    /\ \A t \in Thread :
           /\ (pc[t] \in {"write", "filter", "search"}) <=> at[t] > 0
           /\ pc[t] = "search" => at[t] <= Filters
    /\ \A d \in Drivers : pc[d] # "idle" <=> owner = d

InHand(t) == pc[t] \in {"putLog", "write"}

\* If the user keeps out of the way of lines, nothing is used while another
\* thread changes it, and the log file holds what the terminal was sent since it
\* was opened, in that order, but for the line that is just to be written.
LogTrue ==
    env.steady =>
        /\ ~clash
        /\ open =>
               /\ \A t \in Thread : InHand(t) => order = Append(log, line[t])
               /\ (\A t \in Thread : ~InHand(t)) => order = log

\* If also the GUI thread has caught up whenever a line begins, the terminal
\* never holds more lines than the limit, the trace view no more than one line's
\* matches beyond it, and the limit costs nobody a view that is not full.
LimitsKept ==
    env.steady /\ env.prompt =>
        /\ shown <= Limit
        /\ traced <= Limit - 1 + Filters
        /\ ~early
=============================================================================
