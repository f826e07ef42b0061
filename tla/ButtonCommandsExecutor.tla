----------------------- MODULE ButtonCommandsExecutor -----------------------
(***************************************************************************)
(* A user button (src/sw/MainApplication): a click starts a detached       *)
(* thread that sends the button's list of commands one after another, a    *)
(* click while it runs aborts it and polls, in the GUI thread, for its     *)
(* end.  The two sides share m_isRunning, m_threadRunning and the parser   *)
(* with its iterator, without a lock.                                      *)
(*                                                                         *)
(* A command is a __wait or a text to send; to send one the thread reads   *)
(* the line ending from the GUI thread (GuiRequest), waiting up to 500 ms, *)
(* and writes to the port.  That the GUI thread may itself be polling in   *)
(* abort() at that time is what this module is about.                      *)
(***************************************************************************)
EXTENDS Integers, Sequences

CONSTANTS
    Threads,    \* bound: so many threads of the button live at a time
    Lists,      \* the lists of commands considered
    MaxPosted,  \* bound: no execution begins with more signals posted
    Settled     \* the environments considered, see settled

ASSUME ConstantsAssumption ==
    /\ Lists \subseteq Seq({"send", "wait"})
    /\ Lists # {}
    /\ MaxPosted \in Nat
    /\ Settled \subseteq BOOLEAN

VARIABLES
    settled,         \* the environment of this behaviour, see UserMayAct
    m_commands,      \* of the parser: the list
    m_current_command,  \* of the parser: how many commands were taken
    m_isRunning,     \* std::atomic<bool>
    m_threadRunning, \* bool, read by the GUI thread while a thread writes it
    gui,             \* the GUI thread: free, or a place in abort()
    checked,         \* the button's checked state
    posted,          \* setButtonChecked(false) in the GUI thread's queue
    pc,              \* per thread: where it is in threadLoop()
    taken,           \* per thread: the command it took
    sent,            \* history, if settled: what was sent since the last start
    aborted,         \* history, if settled: abort() took effect since then
    fault            \* the parser was changed under a thread that uses it

vars == <<settled, m_commands, m_current_command, m_isRunning, m_threadRunning,
          gui, checked, posted, pc, taken, sent, aborted, fault>>
parser == <<m_commands, m_current_command>>
flags == <<m_isRunning, m_threadRunning>>
history == <<sent, aborted>>

\* Where a thread is between two commands, in its loop, and uses the parser.
Between == {"test", "take", "advance"}
Looping == Between \union {"wait", "ask", "write", "writeBare"}
UsesParser == Looping \union {"reset", "report"}
Steps == UsesParser \union {"none", "begin", "clearThread", "clearRunning"}

Alive(t) == pc[t] # "none"

Init ==
    /\ settled \in Settled
    /\ m_commands \in Lists
    /\ m_current_command = 0
    /\ m_isRunning = FALSE
    /\ m_threadRunning = FALSE
    /\ gui = "free"
    /\ checked = FALSE
    /\ posted = 0
    /\ pc = [t \in Threads |-> "none"]
    /\ taken = [t \in Threads |-> 0]
    /\ sent = <<>>
    /\ aborted = FALSE
    /\ fault = FALSE

---------------------------------------------------------------------------
(* The GUI thread.  A definition Slip... is what a small mistake would turn *)
(* the one after it into; nothing else uses it.                            *)

\* The user acts when the GUI thread is in its event loop; in a settled
\* environment not within the milliseconds in which a thread comes up, ends
\* by itself, or winds down after an abort.
UserMayAct ==
    /\ ~fault
    /\ gui = "free"
    /\ settled =>
        /\ posted = 0
        /\ \A t \in Threads : Alive(t) => pc[t] \in Looping /\ m_isRunning

\* onUserButtonClicked(), not executing: execute() spawns a thread.
Start(t) ==
    /\ UserMayAct
    /\ ~m_isRunning
    /\ ~Alive(t)
    /\ posted <= MaxPosted
    /\ m_isRunning' = TRUE
    /\ checked' = TRUE
    /\ pc' = [pc EXCEPT ![t] = "begin"]
    /\ sent' = <<>>
    /\ aborted' = FALSE
    /\ UNCHANGED <<settled, parser, m_threadRunning, gui, posted, taken, fault>>

\* onUserButtonClicked(), executing; Qt has toggled the checkable button.
ClickRunning ==
    /\ UserMayAct
    /\ m_isRunning
    /\ gui' = "abort"
    /\ checked' = ~checked
    /\ UNCHANGED <<settled, parser, flags, posted, pc, taken, history, fault>>

\* abort() acts only on a thread that has come up.
Aborts == m_isRunning /\ m_threadRunning

Abort ==
    /\ gui = "abort"
    /\ IF Aborts
       THEN m_isRunning' = FALSE /\ gui' = "poll" /\ aborted' = settled
       ELSE gui' = "free" /\ UNCHANGED <<m_isRunning, aborted>>
    /\ UNCHANGED <<settled, parser, m_threadRunning, checked, posted, pc, taken,
                   sent, fault>>

\* The 500 ms of abort() run out: in a settled environment only while the
\* thread is held up in a command, or has just been.
GivesUp == settled => \A t \in Threads : pc[t] \notin Between \union {"begin", "reset"}

Poll ==
    /\ gui = "poll"
    /\ ~m_threadRunning \/ GivesUp
    /\ gui' = "free"
    /\ UNCHANGED <<settled, parser, flags, checked, posted, pc, taken, history,
                   fault>>

SlipRefuses == FALSE

\* parseCommands() does nothing while an execution is under way.
Refuses == m_isRunning

SlipParsed == m_current_command

\* Where the iterator stands after parsing.
Parsed == 0

\* The settings dialog is accepted, or the settings are loaded.
Parse(list) ==
    /\ UserMayAct
    /\ ~Refuses
    /\ m_commands' = list
    /\ m_current_command' = Parsed
    /\ fault' = \E t \in Threads : pc[t] \in UsesParser
    /\ UNCHANGED <<settled, flags, gui, checked, posted, pc, taken, history>>

\* A posted setButtonChecked(false) is executed.
RunSlot ==
    /\ gui = "free"
    /\ posted > 0
    /\ posted' = posted - 1
    /\ checked' = FALSE
    /\ UNCHANGED <<settled, parser, flags, gui, pc, taken, history, fault>>

---------------------------------------------------------------------------
(* threadLoop() *)

From(t, steps) == ~fault /\ pc[t] \in steps
Goto(t, step) == pc' = [pc EXCEPT ![t] = step]

Begin(t) ==
    /\ From(t, {"begin"})
    /\ m_threadRunning' = TRUE
    /\ Goto(t, "reset")
    /\ UNCHANGED <<settled, parser, m_isRunning, gui, checked, posted, taken,
                   history, fault>>

SlipFirst == m_current_command

\* Where an execution starts.
First == 0

Reset(t) ==
    /\ From(t, {"reset"})
    /\ m_current_command' = First
    /\ Goto(t, "test")
    /\ UNCHANGED <<settled, m_commands, flags, gui, checked, posted, taken,
                   history, fault>>

SlipGoesOn == m_current_command # Len(m_commands)

\* The condition of the loop.
GoesOn == m_current_command # Len(m_commands) /\ m_isRunning

Test(t) ==
    /\ From(t, {"test"})
    /\ Goto(t, IF GoesOn THEN "take" ELSE "report")
    /\ UNCHANGED <<settled, parser, flags, gui, checked, posted, taken, history,
                   fault>>

\* runNext() reads m_current_command, which may have reached the end since...
Take(t) ==
    /\ From(t, {"take"})
    /\ IF m_current_command = Len(m_commands)
       THEN Goto(t, "report") /\ UNCHANGED taken
       ELSE /\ taken' = [taken EXCEPT ![t] = m_current_command + 1]
            /\ Goto(t, "advance")
    /\ UNCHANGED <<settled, parser, flags, gui, checked, posted, history, fault>>

SlipAfter(t) == m_current_command

\* ... advances it...
After(t) == taken[t]

\* ... and executes the command.
Advance(t) ==
    /\ From(t, {"advance"})
    /\ m_current_command' = After(t)
    /\ Goto(t, IF m_commands[taken[t]] = "wait" THEN "wait" ELSE "ask")
    /\ UNCHANGED <<settled, m_commands, flags, gui, checked, posted, taken,
                   history, fault>>

\* A __wait, of which the parser has made pieces of at most 500 ms.
Sleep(t) ==
    /\ From(t, {"wait"})
    /\ Goto(t, "test")
    /\ UNCHANGED <<settled, parser, flags, gui, checked, posted, taken, history,
                   fault>>

SlipIgnored == TRUE

\* getCurrentLineEnding() gives up and returns an empty text: in a settled
\* environment only if the GUI thread is in abort().
Ignored == settled => gui = "poll"

Ask(t) ==
    /\ From(t, {"ask"})
    /\ \/ gui = "free" /\ Goto(t, "write")
       \/ Ignored /\ Goto(t, "writeBare")
    /\ UNCHANGED <<settled, parser, flags, gui, checked, posted, taken, history,
                   fault>>

\* The port sends it, or not, and then the execution ends.
Write(t) ==
    /\ From(t, {"write", "writeBare"})
    /\ \/ /\ sent' = IF settled
                      THEN Append(sent, [command |-> taken[t], bare |-> pc[t] = "writeBare"])
                      ELSE <<>>
          /\ Goto(t, "test")
       \/ Goto(t, "report") /\ UNCHANGED sent
    /\ UNCHANGED <<settled, parser, flags, gui, checked, posted, taken, aborted,
                   fault>>

SlipReported == posted

\* m_callback posts setButtonChecked(false).
Reported == posted + 1

Report(t) ==
    /\ From(t, {"report"})
    /\ posted' = Reported
    /\ Goto(t, "clearThread")
    /\ UNCHANGED <<settled, parser, flags, gui, checked, taken, history, fault>>

ClearThread(t) ==
    /\ From(t, {"clearThread"})
    /\ m_threadRunning' = FALSE
    /\ Goto(t, "clearRunning")
    /\ UNCHANGED <<settled, parser, m_isRunning, gui, checked, posted, taken,
                   history, fault>>

SlipLeft == m_isRunning

\* What the last statement of the thread leaves in m_isRunning.
Left == FALSE

ClearRunning(t) ==
    /\ From(t, {"clearRunning"})
    /\ m_isRunning' = Left
    /\ Goto(t, "none")
    /\ taken' = [taken EXCEPT ![t] = 0]
    /\ UNCHANGED <<settled, parser, m_threadRunning, gui, checked, posted,
                   history, fault>>

Proceed(t) ==
    \/ Begin(t) \/ Reset(t) \/ Test(t) \/ Take(t) \/ Advance(t)
    \/ Sleep(t) \/ Ask(t) \/ Write(t) \/ Report(t) \/ ClearThread(t) \/ ClearRunning(t)

Next ==
    \/ ClickRunning \/ Abort \/ Poll \/ RunSlot
    \/ \E list \in Lists : Parse(list)
    \/ \E t \in Threads : Start(t) \/ Proceed(t)

Spec == Init /\ [][Next]_vars

\* Threads run and the GUI thread's loops go round; the user need do nothing.
Fairness ==
    /\ WF_vars(Abort) /\ WF_vars(Poll) /\ WF_vars(RunSlot)
    /\ \A t \in Threads : WF_vars(Proceed(t))

FairSpec == Spec /\ Fairness

---------------------------------------------------------------------------
(* Properties *)

\* Types; also that the iterator stays in the list it iterates over.
TypeOK ==
    /\ settled \in BOOLEAN
    /\ m_commands \in Lists
    /\ m_current_command \in 0 .. Len(m_commands)
    /\ m_isRunning \in BOOLEAN
    /\ m_threadRunning \in BOOLEAN
    /\ gui \in {"free", "abort", "poll"}
    /\ checked \in BOOLEAN
    /\ posted \in Nat
    /\ pc \in [Threads -> Steps]
    /\ taken \in [Threads -> Nat]
    /\ ~fault => \A t \in Threads :
                    pc[t] = "advance" => taken[t] \in 1 .. Len(m_commands)
    /\ sent \in Seq([command : Nat, bare : BOOLEAN])
    /\ aborted \in BOOLEAN
    /\ fault \in BOOLEAN

\* However clicks, aborts that gave up and ending threads overlap, the button
\* never gets stuck: with no thread left both flags are down, so that the next
\* click starts one.
FlagsFollowThreads ==
    (\A t \in Threads : ~Alive(t)) => ~m_isRunning /\ ~m_threadRunning

\* In a settled environment the parser never changes under a thread.
SettledParser == settled => ~fault

\* In a settled environment the button is checked exactly while an execution
\* is under way that was not aborted.
SettledChecked ==
    settled /\ gui = "free" /\ posted = 0 =>
        (checked <=> ~aborted /\ \E t \in Threads : pc[t] \in Steps \ {"none", "clearThread", "clearRunning"})

\* In a settled environment no command is started once abort() has returned,
\* whether it saw the thread end or gave up.
SettledAbortIsFinal ==
    [][settled /\ aborted /\ gui = "free"
        => ~\E t \in Threads : Take(t) /\ pc'[t] = "advance"]_vars

\* The texts among the first n commands, by their places.
Texts(n) == {i \in 1 .. n : m_commands[i] = "send"}

\* In a settled environment an execution sends its texts in order, each once,
\* and leaves none out except the one it took last.
SettledInOrder ==
    settled /\ (\E t \in Threads : pc[t] \in Looping) =>
        LET told == {sent[i].command : i \in DOMAIN sent}
            due == Texts(m_current_command)
        IN  /\ \A i, j \in DOMAIN sent : i < j => sent[i].command < sent[j].command
            /\ told \subseteq due /\ due \ told \subseteq {m_current_command}

\* In a settled environment every text is sent with the line ending, except one
\* that an abort cuts off.
SettledEnding ==
    settled => \A i \in DOMAIN sent : sent[i].bare => aborted /\ i = Len(sent)

\* The button and its thread agree: it is never stuck, and if the user acts when
\* the threads have settled, its parser, its look and what it sends are right.
ButtonSound ==
    FlagsFollowThreads /\ SettledParser /\ SettledChecked /\ SettledEnding

\* In a settled environment every execution ends, also one that asks the GUI
\* thread for the line ending while that polls for the execution's end.
RunsEnd == \A t \in Threads : settled /\ Alive(t) ~> ~Alive(t)
=============================================================================
