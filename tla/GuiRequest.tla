----------------------------- MODULE GuiRequest -----------------------------
(***************************************************************************)
(* How any thread reads a widget (src/sw/GUIController): executeGUIRequest *)
(* puts a request object of the calling thread's stack in                  *)
(* m_current_command, emits guiRequestSignal and waits up to 500 ms; the   *)
(* slot executes whatever m_current_command points to.  Emitted by the GUI *)
(* thread the signal runs the slot at once, emitted by another thread it   *)
(* is posted to the GUI thread's event loop.                               *)
(*                                                                         *)
(* A request is named by the thread that made it.  The callers are the     *)
(* threads of the user buttons and, for the Send button, the trace filters *)
(* and saving, the GUI thread itself.                                      *)
(***************************************************************************)
EXTENDS Integers

CONSTANTS
    Workers,    \* the threads other than the GUI thread
    GUI,        \* the GUI thread
    NONE,       \* nullptr, and nobody
    MaxEdits,   \* bound: how often the widget's text changes
    MaxPosted,  \* bound: no request begins with so many signals posted
    Envs        \* the environments considered, see Env

\* What is assumed of the environment, the second on top of the first:
\*   patient  500 ms pass only if the GUI thread waits for m_command_mutex,
\*   apart    the GUI thread makes a request only while no worker makes one.
Env == {{}, {"patient"}, {"patient", "apart"}}

ASSUME ConstantsAssumption ==
    /\ GUI \notin Workers
    /\ NONE \notin Workers \union {GUI}
    /\ {MaxEdits, MaxPosted} \subseteq Nat
    /\ Envs \subseteq Env

Threads == Workers \union {GUI}

VARIABLES
    env,        \* the environment of this behaviour, never changed
    m_command_mutex,    \* who holds it
    m_current_command,  \* the request the slot would execute
    posted,     \* guiRequestSignals in the GUI thread's event queue
    slot,       \* onGuiRequestSignal(): not running, or the request it checked
    pc,         \* per thread: where it is in executeGUIRequest()
    ready,      \* per thread: CommandExecutor::ready of its request
    edits,      \* the widget's text, as the number of changes made to it
    asked,      \* history, per thread: edits when it made its last request
    answer,     \* per thread: the text in its request
    result,     \* per thread: what its last waitReady() returned
    fault       \* the process is gone: a failed assertion, a bad pointer

vars == <<env, m_command_mutex, m_current_command, posted, slot, pc, ready,
          edits, asked, answer, result, fault>>
requests == <<ready, asked, answer, result>>

Steps == {"idle", "lock", "emit", "wait", "clear"}

Init ==
    /\ env \in Envs
    /\ m_command_mutex = NONE
    /\ m_current_command = NONE
    /\ posted = 0
    /\ slot = NONE
    /\ pc = [t \in Threads |-> "idle"]
    /\ ready = [t \in Threads |-> FALSE]
    /\ edits = 0
    /\ asked = [t \in Threads |-> 0]
    /\ answer = [t \in Threads |-> 0]
    /\ result = [t \in Threads |-> FALSE]
    /\ fault = "none"

---------------------------------------------------------------------------
(* A definition Slip... is what a small mistake would turn the one after it *)
(* into; nothing else uses it.                                             *)

Running == fault = "none"

Goto(t, step) == pc' = [pc EXCEPT ![t] = step]

\* The GUI thread is in its event loop.
GuiFree == pc[GUI] = "idle" /\ slot = NONE

\* A request object exists from the call to the return.
Exists(t) == pc[t] # "idle"

SlipReadyAtFirst(t) == ready[t]

\* A new request object is not ready.
ReadyAtFirst(t) == FALSE

Request(t) ==
    /\ Running
    /\ pc[t] = "idle"
    /\ posted < MaxPosted
    /\ t = GUI => GuiFree
    /\ "apart" \in env =>
        IF t = GUI THEN \A w \in Workers : pc[w] = "idle" ELSE pc[GUI] = "idle"
    /\ ready' = [ready EXCEPT ![t] = ReadyAtFirst(t)]
    /\ asked' = [asked EXCEPT ![t] = edits]
    /\ Goto(t, "lock")
    /\ UNCHANGED <<env, m_command_mutex, m_current_command, posted, slot, edits,
                   answer, result, fault>>

MutexFree == m_command_mutex = NONE

\* lock_guard; m_current_command = request
Lock(t) ==
    /\ Running
    /\ pc[t] = "lock"
    /\ MutexFree
    /\ m_command_mutex' = t
    /\ m_current_command' = t
    /\ Goto(t, "emit")
    /\ UNCHANGED <<env, posted, slot, edits, requests, fault>>

\* Request r is executed: the text is copied, and r is ready.
Execute(r) ==
    /\ answer' = [answer EXCEPT ![r] = edits]
    /\ ready' = [ready EXCEPT ![r] = TRUE]

SlipPostedBy(t) == 1

SlipPosted(t) == IF t = GUI THEN -1 ELSE 1

\* A direct signal leaves nothing behind.
PostedBy(t) == IF t = GUI THEN 0 ELSE 1

\* emit guiRequestSignal()
Emit(t) ==
    /\ Running
    /\ pc[t] = "emit"
    /\ posted' = posted + PostedBy(t)
    /\ IF t = GUI THEN Execute(t) ELSE UNCHANGED <<ready, answer>>
    /\ Goto(t, "wait")
    /\ UNCHANGED <<env, m_command_mutex, m_current_command, slot, edits, asked,
                   result, fault>>

SlipAtOnce == TRUE

SlipExpires == "patient" \notin env

\* The 500 ms pass before the request is ready.
Expires == "patient" \notin env \/ pc[GUI] = "lock"

\* waitReady(500) returns whether the request is ready, and resets it.
Wait(t) ==
    /\ Running
    /\ pc[t] = "wait"
    /\ ready[t] \/ Expires
    /\ result' = [result EXCEPT ![t] = ready[t]]
    /\ ready' = [ready EXCEPT ![t] = FALSE]
    /\ Goto(t, "clear")
    /\ UNCHANGED <<env, m_command_mutex, m_current_command, posted, slot, edits,
                   asked, answer, fault>>

SlipNoCommand == m_current_command

\* What m_current_command is reset to.
NoCommand == NONE

\* m_current_command = nullptr; the mutex is released, the caller returns and
\* the request object dies.
Return(t) ==
    /\ Running
    /\ pc[t] = "clear"
    /\ m_current_command' = NoCommand
    /\ m_command_mutex' = NONE
    /\ Goto(t, "idle")
    /\ asked' = [asked EXCEPT ![t] = 0]
    /\ answer' = [answer EXCEPT ![t] = 0]
    /\ result' = [result EXCEPT ![t] = FALSE]
    /\ UNCHANGED <<env, posted, slot, ready, edits, fault>>

---------------------------------------------------------------------------
(* The GUI thread's event loop *)

\* onGuiRequestSignal() begins; UT_Assert(m_current_command) aborts.
SlotBegins ==
    /\ Running
    /\ GuiFree
    /\ posted > 0
    /\ posted' = posted - 1
    /\ slot' = m_current_command
    /\ fault' = IF m_current_command = NONE THEN "assertion" ELSE fault
    /\ UNCHANGED <<env, m_command_mutex, m_current_command, pc, edits, requests>>

\* m_current_command->execute(ui): the pointer may be read again or not, and
\* without a lock, so it may be null by now or its request may be gone.
SlotExecutes ==
    /\ Running
    /\ slot # NONE
    /\ slot' = NONE
    /\ \E r \in {slot, m_current_command} :
        IF r # NONE /\ Exists(r)
        THEN Execute(r) /\ UNCHANGED fault
        ELSE fault' = "pointer" /\ UNCHANGED <<answer, ready>>
    /\ UNCHANGED <<env, m_command_mutex, m_current_command, posted, pc, edits,
                   asked, result>>

\* The user types.
Edit ==
    /\ Running
    /\ GuiFree
    /\ edits < MaxEdits
    /\ edits' = edits + 1
    /\ UNCHANGED <<env, m_command_mutex, m_current_command, posted, slot, pc,
                   requests, fault>>

Proceed(t) == Lock(t) \/ Emit(t) \/ Wait(t) \/ Return(t)

Next ==
    \/ \E t \in Threads : Request(t) \/ Proceed(t)
    \/ SlotBegins \/ SlotExecutes \/ Edit

Spec == Init /\ [][Next]_vars

\* Threads run, the event loop goes round, and a thread that waits for the
\* mutex gets it if it is free again and again.
Fairness ==
    /\ WF_vars(SlotBegins) /\ WF_vars(SlotExecutes)
    /\ \A t \in Threads : WF_vars(Proceed(t)) /\ SF_vars(Lock(t))

FairSpec == Spec /\ Fairness

---------------------------------------------------------------------------
(* Properties *)

\* Types; also that no more signals are delivered than were posted.
TypeOK ==
    /\ env \in Env
    /\ m_command_mutex \in Threads \union {NONE}
    /\ m_current_command \in Threads \union {NONE}
    /\ posted \in Nat
    /\ slot \in Threads \union {NONE}
    /\ pc \in [Threads -> Steps]
    /\ ready \in [Threads -> BOOLEAN]
    /\ edits \in Nat
    /\ asked \in [Threads -> Nat]
    /\ answer \in [Threads -> Nat]
    /\ result \in [Threads -> BOOLEAN]
    /\ fault \in {"none", "assertion", "pointer"}

\* In every environment: m_current_command never dangles, it is the request of
\* the one thread that is between taking and releasing m_command_mutex.
CommandIsHolders ==
    /\ m_current_command = m_command_mutex
    /\ \A t \in Threads : pc[t] \in {"emit", "wait", "clear"} <=> m_command_mutex = t

\* In every environment: a request that reports success returns a text the
\* widget had after the request was made, though signals of requests that
\* timed out may execute later ones early.
AnswersAreFresh ==
    \A t \in Threads :
        pc[t] = "clear" /\ result[t] => answer[t] \in asked[t] .. edits

\* The assertion of onGuiRequestSignal() holds, and the request it executes
\* exists.
NoFault == fault = "none"

\* It holds as long as workers do not time out and the GUI thread does not ask
\* while they do...
ApartNoFault == "apart" \in env => NoFault

\* ... and then every request is answered.
ApartAnswered == "apart" \in env => \A t \in Threads : pc[t] = "clear" => result[t]

\* All of it: whose request is executed, and what its answer is worth.
RequestsSound ==
    CommandIsHolders /\ AnswersAreFresh /\ ApartNoFault /\ ApartAnswered

\* Requests return, also the GUI thread's own that waits for the mutex of a
\* worker whose request only the GUI thread could execute.
RequestsReturn ==
    \A t \in Threads : Exists(t) ~> (~Exists(t) \/ ~Running)
=============================================================================
