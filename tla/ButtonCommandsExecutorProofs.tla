-------------------- MODULE ButtonCommandsExecutorProofs --------------------
(***************************************************************************)
(* Proofs about ButtonCommandsExecutor for any number of threads and any   *)
(* lists of commands: type correctness, that the flags follow the threads  *)
(* in every environment, and what holds in settled environments.           *)
(***************************************************************************)
EXTENDS ButtonCommandsExecutor, TLAPS

\* FlagsFollowThreads, strengthened until it is inductive: each flag that is
\* up has a thread that will take it down.
FlagsInv ==
    /\ m_isRunning => \E t \in Threads : Alive(t)
    /\ m_threadRunning
        => \E t \in Threads : pc[t] \in UsesParser \union {"clearThread"}

\* From the click to the report.
Executing == UsesParser \union {"begin"}

\* Settled: threads of the button do not overlap, and m_isRunning is up until
\* the one that is alive ends, or abort() takes effect.
OneThread ==
    /\ ~fault
    /\ \A t, u \in Threads : Alive(t) /\ Alive(u) => t = u
    /\ \A t \in Threads :
        /\ Alive(t) => (aborted <=> ~m_isRunning)
        /\ pc[t] \in UsesParser => m_threadRunning
        /\ pc[t] \in {"begin", "reset"} => gui = "free" /\ ~aborted

\* Settled: abort() lets go of a thread only where it takes no more commands.
LetGo ==
    /\ gui = "poll" => aborted
    /\ gui = "abort" => ~aborted
    /\ aborted /\ gui = "free" => \A t \in Threads : pc[t] \notin {"take", "advance"}

\* Settled: the button is checked until the report of the execution, or the
\* click that aborts it, unchecks it.
CheckedInv ==
    /\ \A t \in Threads : pc[t] \in Executing =>
        /\ posted = 0
        /\ checked <=> gui = "free" /\ ~aborted
    /\ (\A t \in Threads : pc[t] \notin Executing) /\ posted = 0 => ~checked

\* Settled: a text without line ending is sent while abort() polls, and the
\* thread that sent it sends nothing more.
BareInv ==
    /\ \A t \in Threads : pc[t] = "writeBare" => aborted
    /\ \A i \in DOMAIN sent : sent[i].bare =>
        /\ aborted
        /\ i = Len(sent)
        /\ \A t \in Threads : pc[t] \in Looping => pc[t] = "test"

\* Settled: what was sent are the texts before the place the thread has reached;
\* the text at that place it is about to send, and has not sent yet.
Sending == {"ask", "write", "writeBare"}
SentSoFar(t) ==
    /\ \A i, j \in DOMAIN sent : i < j => sent[i].command < sent[j].command
    /\ \A i \in DOMAIN sent : sent[i].command \in Texts(m_current_command)
    /\ \A k \in Texts(m_current_command) :
          \/ \E i \in DOMAIN sent : sent[i].command = k
          \/ k = m_current_command /\ pc[t] \in Sending
AtHand(t) ==
    /\ taken[t] = m_current_command
    /\ m_current_command \in Texts(m_current_command)
    /\ \A i \in DOMAIN sent : sent[i].command < m_current_command
InOrder(t) ==
    /\ pc[t] \in {"begin", "reset"} => sent = <<>>
    /\ pc[t] \in Looping => SentSoFar(t)
    /\ pc[t] = "advance" => taken[t] = m_current_command + 1
    /\ pc[t] \in Sending => AtHand(t)
OrderInv == settled => \A t \in Threads : InOrder(t)

SettledInv == settled => OneThread /\ LetGo /\ CheckedInv /\ BareInv

-----------------------------------------------------------------------------
\* The definitions every proof expands: helpers and tuples of variables.
USE DEF vars, parser, flags, history, Between, Looping, UsesParser, Steps,
        Alive, From, Goto

\* TypeOK is inductive; in particular the iterator of the parser never leaves
\* the list, whichever list is parsed in between.
THEOREM TypeCorrect == Spec => []TypeOK
<1>1. Init => TypeOK
  <2> SUFFICES ASSUME Init
               PROVE  TypeOK
    OBVIOUS
  <2>1. m_commands \in Seq({"send", "wait"})
    BY ConstantsAssumption DEF Init
  <2>2. m_current_command \in 0 .. Len(m_commands)
    BY <2>1 DEF Init
  <2>3. sent \in Seq([command : Nat, bare : BOOLEAN])
    BY DEF Init
  <2>4. settled \in BOOLEAN
    BY ConstantsAssumption DEF Init
  <2>5. QED
    BY <2>2, <2>3, <2>4 DEF Init, TypeOK
<1>2. TypeOK /\ [Next]_vars => TypeOK'
  <2> SUFFICES ASSUME TypeOK, [Next]_vars
               PROVE  TypeOK'
    OBVIOUS
  <2>0. m_commands \in Seq({"send", "wait"})
    BY ConstantsAssumption DEF TypeOK
  <2> USE DEF TypeOK
  <2>1. CASE ClickRunning
    BY <2>1 DEF ClickRunning
  <2>2. CASE Abort
    BY <2>2 DEF Abort
  <2>3. CASE Poll
    BY <2>3 DEF Poll
  <2>4. CASE RunSlot
    <3>1. posted' \in Nat
      BY <2>4 DEF RunSlot
    <3>2. checked' \in BOOLEAN
      BY <2>4 DEF RunSlot
    <3>3. QED
      BY <2>4, <3>1, <3>2 DEF RunSlot
  <2>5. ASSUME NEW list \in Lists, Parse(list)
        PROVE  TypeOK'
    <3>1. list \in Seq({"send", "wait"})
      BY ConstantsAssumption
    <3>2. 0 \in 0 .. Len(list)
      BY <3>1
    <3>3. QED
      BY <2>5, <3>2 DEF Parse, Parsed
  <2>6. ASSUME NEW t \in Threads, Start(t)
        PROVE  TypeOK'
    <3>1. sent' \in Seq([command : Nat, bare : BOOLEAN])
      BY <2>6 DEF Start
    <3>2. QED
      BY <2>6, <3>1 DEF Start
  <2>7. ASSUME NEW t \in Threads, Proceed(t)
        PROVE  TypeOK'
    <3>1. CASE Begin(t)
      BY <3>1 DEF Begin
    <3>2. CASE Reset(t)
      BY <2>0, <3>2 DEF Reset, First
    <3>3. CASE Test(t)
      BY <3>3 DEF Test
    <3>4. CASE Take(t)
      BY SMTT(30), <3>4 DEF Take
    <3>5. CASE Advance(t)
      <4>1. m_current_command' = taken[t] /\ pc[t] = "advance" /\ ~fault
        BY <3>5 DEF Advance, After
      <4>2. m_current_command' \in 0 .. Len(m_commands)
        BY <4>1
      <4>3. pc' \in [Threads -> Steps] /\ \A u \in Threads : pc'[u] = "advance" => pc[u] = "advance"
        BY <3>5 DEF Advance
      <4>4. UNCHANGED <<settled, m_commands, flags, gui, checked, posted, taken, history, fault>>
        BY <3>5 DEF Advance
      <4>5. QED
        BY <4>2, <4>3, <4>4
    <3>6. CASE Sleep(t)
      BY <3>6 DEF Sleep
    <3>7. CASE Ask(t)
      BY <3>7 DEF Ask
    <3>8. CASE Write(t)
      <4> DEFINE text == [command |-> taken[t], bare |-> pc[t] = "writeBare"]
      <4>1. text \in [command : Nat, bare : BOOLEAN]
        OBVIOUS
      <4>2. sent' = Append(sent, text) \/ sent' = <<>> \/ sent' = sent
        BY <3>8 DEF Write
      <4> HIDE DEF text
      <4>3. Append(sent, text) \in Seq([command : Nat, bare : BOOLEAN])
        BY <4>1
      <4>4. <<>> \in Seq([command : Nat, bare : BOOLEAN])
        OBVIOUS
      <4>5. sent' \in Seq([command : Nat, bare : BOOLEAN])
        BY <4>2, <4>3, <4>4
      <4>6. pc' \in [Threads -> Steps]
        BY <3>8 DEF Write
      <4>7. QED
        BY <3>8, <4>5, <4>6 DEF Write
    <3>9. CASE Report(t)
      BY <3>9 DEF Report, Reported
    <3>10. CASE ClearThread(t)
      BY <3>10 DEF ClearThread
    <3>11. CASE ClearRunning(t)
      BY <3>11 DEF ClearRunning, Left
    <3>12. QED
      BY <2>7, <3>1, <3>2, <3>3, <3>4, <3>5, <3>6, <3>7, <3>8, <3>9, <3>10, <3>11 DEF Proceed
  <2>8. CASE UNCHANGED vars
    BY <2>8
  <2>9. QED
    BY <2>1, <2>2, <2>3, <2>4, <2>5, <2>6, <2>7, <2>8 DEF Next
<1>3. QED
  BY <1>1, <1>2, PTL DEF Spec

\* In every environment: with no thread left both flags are down.
THEOREM ButtonNeverStuck == Spec => []FlagsFollowThreads
<1>1. Init => FlagsInv
  BY DEF Init, FlagsInv
<1>2. TypeOK /\ FlagsInv /\ [Next]_vars => FlagsInv'
  <2> SUFFICES ASSUME TypeOK, FlagsInv, [Next]_vars
               PROVE  FlagsInv'
    OBVIOUS
  <2> USE DEF TypeOK, FlagsInv
  <2>1. CASE ClickRunning
    BY <2>1 DEF ClickRunning, UserMayAct
  <2>2. CASE Abort
    BY <2>2 DEF Abort, Aborts
  <2>3. CASE Poll
    BY <2>3 DEF Poll, GivesUp
  <2>4. CASE RunSlot
    BY <2>4 DEF RunSlot
  <2>5. ASSUME NEW list \in Lists, Parse(list)
        PROVE  FlagsInv'
    BY <2>5 DEF Parse, UserMayAct, Refuses, Parsed
  <2>6. ASSUME NEW t \in Threads, Start(t)
        PROVE  FlagsInv'
    BY <2>6 DEF Start, UserMayAct
  <2>7. ASSUME NEW t \in Threads, Proceed(t)
        PROVE  FlagsInv'
    <3>1. CASE Begin(t)
      BY <3>1 DEF Begin
    <3>2. CASE Reset(t)
      BY <3>2 DEF Reset, First
    <3>3. CASE Test(t)
      BY <3>3 DEF Test, GoesOn
    <3>4. CASE Take(t)
      BY <3>4 DEF Take
    <3>5. CASE Advance(t)
      BY <3>5 DEF Advance, After
    <3>6. CASE Sleep(t)
      BY <3>6 DEF Sleep
    <3>7. CASE Ask(t)
      BY <3>7 DEF Ask, Ignored
    <3>8. CASE Write(t)
      BY <3>8 DEF Write
    <3>9. CASE Report(t)
      BY <3>9 DEF Report, Reported
    <3>10. CASE ClearThread(t)
      BY <3>10 DEF ClearThread
    <3>11. CASE ClearRunning(t)
      BY <3>11 DEF ClearRunning, Left
    <3>12. QED
      BY <2>7, <3>1, <3>2, <3>3, <3>4, <3>5, <3>6, <3>7, <3>8, <3>9, <3>10, <3>11 DEF Proceed
  <2>8. CASE UNCHANGED vars
    BY <2>8
  <2>9. QED
    BY <2>1, <2>2, <2>3, <2>4, <2>5, <2>6, <2>7, <2>8 DEF Next
<1>3. FlagsInv => FlagsFollowThreads
  BY DEF FlagsInv, FlagsFollowThreads
<1>4. QED
  BY <1>1, <1>2, <1>3, TypeCorrect, PTL DEF Spec

-----------------------------------------------------------------------------
\* SettledInv is inductive: executions follow one another, abort() lets go of
\* a thread only at a safe place, and the button shows it all.
THEOREM SettledCorrect == Spec => []SettledInv
<1>1. Init => SettledInv
  BY DEF Init, SettledInv, OneThread, LetGo, CheckedInv, BareInv, Executing
<1>2. TypeOK /\ FlagsFollowThreads /\ SettledInv /\ [Next]_vars => SettledInv'
  <2> SUFFICES ASSUME TypeOK, FlagsFollowThreads, SettledInv, [Next]_vars,
                      settled'
               PROVE  SettledInv'
    BY DEF SettledInv
  <2> USE DEF TypeOK, SettledInv, OneThread, LetGo, CheckedInv, BareInv, Executing
  <2>1. CASE ClickRunning
    <3>1. PICK t \in Threads : Alive(t) /\ pc[t] \in Looping
      BY <2>1 DEF ClickRunning, UserMayAct, FlagsFollowThreads
    <3>2. ~aborted /\ posted = 0 /\ checked
      BY <2>1, <3>1 DEF ClickRunning, UserMayAct
    <3>3. OneThread' /\ LetGo' /\ BareInv'
      BY <2>1, <3>1, <3>2 DEF ClickRunning, UserMayAct
    <3>4. CheckedInv'
      BY <2>1, <3>1, <3>2 DEF ClickRunning
    <3>5. QED
      BY <3>3, <3>4 DEF SettledInv
  <2>2. CASE Abort
    BY <2>2 DEF Abort, Aborts
  <2>3. CASE Poll
    BY <2>3 DEF Poll, GivesUp
  <2>4. CASE RunSlot
    BY <2>4 DEF RunSlot
  <2>5. ASSUME NEW list \in Lists, Parse(list)
        PROVE  SettledInv'
    BY <2>5 DEF Parse, UserMayAct, Refuses, Parsed
  <2>6. ASSUME NEW t \in Threads, Start(t)
        PROVE  SettledInv'
    BY <2>6 DEF Start, UserMayAct
  <2>7. ASSUME NEW t \in Threads, Proceed(t)
        PROVE  SettledInv'
    <3>1. CASE Begin(t)
      BY <3>1 DEF Begin
    <3>2. CASE Reset(t)
      BY <3>2 DEF Reset, First
    <3>3. CASE Test(t)
      BY <3>3 DEF Test, GoesOn
    <3>4. CASE Take(t)
      BY <3>4 DEF Take
    <3>5. CASE Advance(t)
      BY <3>5 DEF Advance, After
    <3>6. CASE Sleep(t)
      BY <3>6 DEF Sleep
    <3>7. CASE Ask(t)
      BY <3>7 DEF Ask, Ignored
    <3>8. CASE Write(t)
      <4>1. OneThread' /\ LetGo' /\ CheckedInv'
        BY <3>8 DEF Write
      <4>2. \A u \in Threads : pc[u] \in Looping => u = t
        BY <3>8 DEF Write
      <4>3. \A i \in DOMAIN sent : ~sent[i].bare
        BY <3>8 DEF Write
      <4>4. CASE pc'[t] = "report"
        BY <3>8, <4>2, <4>3, <4>4 DEF Write
      <4>5. CASE pc'[t] = "test"
        <5>1. settled /\ sent' = Append(sent, [command |-> taken[t], bare |-> pc[t] = "writeBare"])
          BY <3>8, <4>5 DEF Write
        <5>2. \A i \in DOMAIN sent' :
                sent'[i].bare => i = Len(sent') /\ pc[t] = "writeBare"
          BY <4>3, <5>1
        <5>3. \A u \in Threads : pc'[u] \in Looping => pc'[u] = "test"
          BY <3>8, <4>2, <4>5 DEF Write
        <5>4. (\A u \in Threads : pc'[u] # "writeBare") /\ aborted' = aborted
          BY <3>8, <4>2, <4>5 DEF Write
        <5>5. pc[t] = "writeBare" => aborted'
          BY <5>1, <5>4
        <5>6. \A i \in DOMAIN sent' : sent'[i].bare => aborted' /\ i = Len(sent')
          BY <5>2, <5>5
        <5> HIDE DEF TypeOK, OneThread, LetGo, CheckedInv, SettledInv
        <5>7. BareInv'
          BY <5>3, <5>4, <5>6
        <5>8. QED
          BY <4>1, <5>7 DEF SettledInv
      <4>6. QED
        BY <3>8, <4>4, <4>5 DEF Write
    <3>9. CASE Report(t)
      BY <3>9 DEF Report, Reported
    <3>10. CASE ClearThread(t)
      BY <3>10 DEF ClearThread
    <3>11. CASE ClearRunning(t)
      BY <3>11 DEF ClearRunning, Left
    <3>12. QED
      BY <2>7, <3>1, <3>2, <3>3, <3>4, <3>5, <3>6, <3>7, <3>8, <3>9, <3>10, <3>11 DEF Proceed
  <2>8. CASE UNCHANGED vars
    BY <2>8
  <2>9. QED
    BY <2>1, <2>2, <2>3, <2>4, <2>5, <2>6, <2>7, <2>8 DEF Next
<1>3. QED
  BY <1>1, <1>2, TypeCorrect, ButtonNeverStuck, PTL DEF Spec

\* Settled: no list is parsed under a thread that uses the parser.
THEOREM SettledParserIsSafe == Spec => []SettledParser
<1>1. SettledInv => SettledParser
  BY DEF SettledInv, OneThread, SettledParser
<1>2. QED
  BY <1>1, SettledCorrect, PTL

\* Settled: the button is checked exactly while an execution is under way.
THEOREM SettledButtonIsTrue == Spec => []SettledChecked
<1>1. TypeOK /\ SettledInv => SettledChecked
  BY DEF TypeOK, SettledInv, CheckedInv, Executing, SettledChecked
<1>2. QED
  BY <1>1, TypeCorrect, SettledCorrect, PTL

\* Settled: once abort() has returned no command is started.
THEOREM SettledAbortHolds == Spec => SettledAbortIsFinal
<1>1. SettledInv /\ [Next]_vars
        => [settled /\ aborted /\ gui = "free"
              => ~\E t \in Threads : Take(t) /\ pc'[t] = "advance"]_vars
  BY DEF SettledInv, LetGo, Take
<1>2. QED
  BY <1>1, SettledCorrect, PTL DEF Spec, SettledAbortIsFinal

\* Settled: only the text an abort cuts off is sent without its line ending.
THEOREM SettledEndingHolds == Spec => []SettledEnding
<1>1. SettledInv => SettledEnding
  BY DEF SettledInv, BareInv, SettledEnding
<1>2. QED
  BY <1>1, SettledCorrect, PTL

-----------------------------------------------------------------------------
\* A step of another thread, or of none, that leaves the parser and what was
\* sent alone.
LEMMA OrderKept ==
    ASSUME NEW t \in Threads, InOrder(t),
           UNCHANGED <<parser, sent>>, pc'[t] = pc[t], taken'[t] = taken[t]
    PROVE  InOrder(t)'
BY DEF InOrder, SentSoFar, AtHand, Sending, Texts

\* OrderInv is inductive.
THEOREM OrderCorrect == Spec => []OrderInv
<1>1. Init => OrderInv
  BY DEF Init, OrderInv, InOrder, Sending
<1>2. TypeOK /\ SettledInv /\ OrderInv /\ [Next]_vars => OrderInv'
  <2> SUFFICES ASSUME TypeOK, SettledInv, OrderInv, [Next]_vars, settled',
                      NEW u \in Threads
               PROVE  InOrder(u)'
    BY DEF OrderInv
  <2>0. settled /\ ~fault /\ \A t \in Threads : Alive(t) /\ Alive(u) => t = u
    BY DEF Next, ClickRunning, Abort, Poll, RunSlot, Parse, Start, Proceed, Begin, Reset, Test,
       Take, Advance, Sleep, Ask, Write, Report, ClearThread, ClearRunning, SettledInv, OneThread
  <2>a. InOrder(u)
    BY <2>0 DEF OrderInv
  <2>1. CASE ClickRunning \/ Abort \/ Poll \/ RunSlot \/ UNCHANGED vars
    <3>1. UNCHANGED <<parser, sent, pc, taken>>
      BY <2>1 DEF ClickRunning, Abort, Poll, RunSlot
    <3>2. QED
      BY <2>a, <3>1, OrderKept
  <2>2. ASSUME NEW list \in Lists, Parse(list) PROVE InOrder(u)'
    <3>1. pc'[u] = "none"
      BY <2>0, <2>2 DEF Parse, UserMayAct, Refuses
    <3>2. QED
      BY <3>1 DEF InOrder, Sending
  <2>3. ASSUME NEW t \in Threads, Start(t) PROVE InOrder(u)'
    <3>1. sent' = <<>> /\ pc'[u] \in {"none", "begin"}
      BY <2>0, <2>3 DEF Start, UserMayAct, TypeOK
    <3>2. QED
      BY <3>1 DEF InOrder, Sending
  <2>4. ASSUME NEW t \in Threads, Proceed(t) PROVE InOrder(u)'
    <3>1. CASE u # t
      <4>1. pc[u] = "none" /\ pc'[u] = "none"
        BY <2>0, <2>4, <3>1 DEF TypeOK, Proceed, Begin, Reset, Test, Take, Advance, Sleep, Ask, Write,
           Report, ClearThread, ClearRunning
      <4>2. QED
        BY <4>1 DEF InOrder, Sending
    <3>2. CASE u = t
      <4> USE DEF TypeOK
      <4>1. CASE Begin(u)
        <5>1. pc[u] = "begin" /\ pc'[u] = "reset" /\ sent' = sent
          BY <4>1 DEF Begin
        <5>2. QED
          BY <2>a, <5>1 DEF InOrder, Sending
      <4>2. CASE Reset(u)
        <5>1. pc[u] = "reset" /\ pc'[u] = "test" /\ sent' = sent /\ m_current_command' = 0
          BY <4>2 DEF Reset, First
        <5>2. sent' = <<>>
          BY <2>a, <5>1 DEF InOrder
        <5>3. QED
          BY <5>1, <5>2 DEF InOrder, SentSoFar, Sending, Texts
      <4>3. CASE Test(u) \/ Sleep(u)
        <5>1. /\ pc[u] \in Looping \ Sending /\ pc'[u] \in {"test", "take", "report"}
              /\ UNCHANGED <<parser, sent>>
          BY <4>3 DEF Test, Sleep, Sending
        <5>2. QED
          BY <2>a, <5>1 DEF InOrder, SentSoFar, Sending, Texts
      <4>4. CASE Take(u)
        <5>1. /\ pc[u] = "take" /\ UNCHANGED <<parser, sent>>
              /\ \/ pc'[u] = "report"
                 \/ pc'[u] = "advance" /\ taken'[u] = m_current_command + 1
          BY <4>4 DEF Take
        <5>2. QED
          BY <2>a, <5>1 DEF InOrder, SentSoFar, Sending, Texts
      <4>5. CASE Advance(u)
        <5> DEFINE n == m_current_command
        <5>1. /\ pc[u] = "advance" /\ taken[u] = n + 1 /\ n \in Nat
              /\ UNCHANGED <<m_commands, sent, taken>> /\ m_current_command' = n + 1
          BY <2>a, <4>5 DEF Advance, After, InOrder
        <5>2. pc'[u] = IF m_commands[n + 1] = "wait" THEN "wait" ELSE "ask"
          BY <4>5, <5>1 DEF Advance
        <5>3. m_commands[n + 1] \in {"send", "wait"}
          <6>1. m_commands \in Seq({"send", "wait"}) /\ n + 1 \in 1 .. Len(m_commands)
            BY <2>0, <5>1, ConstantsAssumption
          <6>2. QED
            BY <6>1
        <5>4. \A i \in DOMAIN sent : sent[i].command \in Texts(n)
          BY <2>a, <5>1 DEF InOrder, SentSoFar
        <5>5. SentSoFar(u)'
          <6>1. Texts(m_current_command)' = Texts(n) \union
                    (IF m_commands[n + 1] = "send" THEN {n + 1} ELSE {})
            BY <5>1 DEF Texts
          <6>2. \A k \in Texts(n) : \E i \in DOMAIN sent : sent[i].command = k
            BY <2>a, <5>1 DEF InOrder, SentSoFar, Sending
          <6>3. \A i, j \in DOMAIN sent : i < j => sent[i].command < sent[j].command
            BY <2>a, <5>1 DEF InOrder, SentSoFar
          <6>4. m_commands[n + 1] = "send" => pc'[u] \in Sending
            BY <5>2 DEF Sending
          <6> HIDE DEF TypeOK, n
          <6>5. QED
            BY <5>1, <5>4, <6>1, <6>2, <6>3, <6>4 DEF SentSoFar, n
        <5>6. pc'[u] \in Sending => AtHand(u)'
          <6>1. \A k \in Texts(n) : k < n + 1
            BY <5>1 DEF Texts
          <6>2. pc'[u] \in Sending => n + 1 \in Texts(n + 1)
            BY <5>1, <5>2, <5>3 DEF Texts, Sending
          <6>3. QED
            BY <5>1, <5>4, <6>1, <6>2 DEF AtHand, Texts
        <5>7. pc'[u] \notin {"begin", "reset", "advance"}
          BY <5>2
        <5>8. QED
          BY <5>5, <5>6, <5>7 DEF InOrder
      <4>6. CASE Ask(u)
        <5>1. pc[u] \in Sending /\ pc'[u] \in Sending /\ UNCHANGED <<parser, sent, taken>>
          BY <4>6 DEF Ask, Sending
        <5>2. SentSoFar(u)' /\ AtHand(u)'
          BY <2>a, <5>1 DEF InOrder, SentSoFar, AtHand, Sending, Texts
        <5>3. QED
          BY <5>1, <5>2 DEF InOrder, Sending
      <4>7. CASE Write(u)
        <5> DEFINE text == [command |-> taken[u], bare |-> pc[u] = "writeBare"]
                   n == m_current_command
        <5>1. pc[u] \in Sending /\ UNCHANGED <<parser, taken>>
          BY <4>7 DEF Write, Sending
        <5>2. CASE pc'[u] = "report"
          BY <5>2 DEF InOrder, Sending
        <5>3. CASE pc'[u] = "test"
          <6>1. sent' = Append(sent, text)
            BY <2>0, <4>7, <5>3 DEF Write
          <6>2. AtHand(u) /\ SentSoFar(u) /\ text.command = n
            BY <2>a, <5>1 DEF InOrder, Sending, AtHand
          <6> HIDE DEF text, n
          <6>3. /\ Len(sent') = Len(sent) + 1 /\ DOMAIN sent = 1 .. Len(sent) /\ Len(sent) \in Nat
                /\ DOMAIN sent' = 1 .. Len(sent) + 1
                /\ \A i \in DOMAIN sent : sent'[i] = sent[i]
                /\ sent'[Len(sent) + 1] = text
            BY <6>1
          <6>4. /\ \A i \in DOMAIN sent : sent'[i].command = sent[i].command /\ sent'[i].command < n
                /\ sent'[Len(sent) + 1].command = n
            BY <6>2, <6>3 DEF AtHand, n
          <6>5. \A i, j \in DOMAIN sent' : i < j => sent'[i].command < sent'[j].command
            BY <6>2, <6>3, <6>4 DEF SentSoFar
          <6>6. \A i \in DOMAIN sent' : sent'[i].command \in Texts(n)
            BY <6>2, <6>3, <6>4 DEF SentSoFar, AtHand, n
          <6>7. \A k \in Texts(n) : \E i \in DOMAIN sent' : sent'[i].command = k
            <7>1. \A k \in Texts(n) : k = n \/ \E i \in DOMAIN sent : sent[i].command = k
              BY <6>2 DEF SentSoFar, n
            <7>2. DOMAIN sent \subseteq DOMAIN sent' /\ Len(sent) + 1 \in DOMAIN sent'
              BY <6>3
            <7>3. QED
              BY <6>4, <7>1, <7>2, Zenon
          <6>8. Texts(m_current_command)' = Texts(n)
            BY <5>1 DEF Texts, n
          <6>9. SentSoFar(u)'
            BY <6>5, <6>6, <6>7, <6>8 DEF SentSoFar
          <6>10. QED
            BY <5>3, <6>9 DEF InOrder, Sending
        <5>4. QED
          BY <4>7, <5>2, <5>3 DEF Write
      <4>8. CASE Report(u) \/ ClearThread(u) \/ ClearRunning(u)
        <5>1. pc'[u] \in {"clearThread", "clearRunning", "none"}
          BY <4>8 DEF Report, ClearThread, ClearRunning
        <5>2. QED
          BY <5>1 DEF InOrder, Sending
      <4>9. QED
        BY <2>4, <3>2, <4>1, <4>2, <4>3, <4>4, <4>5, <4>6, <4>7, <4>8 DEF Proceed
    <3>3. QED
      BY <3>1, <3>2
  <2>5. QED
    BY <2>1, <2>2, <2>3, <2>4 DEF Next
<1>3. QED
  BY <1>1, <1>2, TypeCorrect, SettledCorrect, PTL DEF Spec

\* Settled: an execution sends its texts in order, each once, and leaves none
\* out but the one it took last.
THEOREM SettledOrderHolds == Spec => []SettledInOrder
<1>1. OrderInv => SettledInOrder
  <2> SUFFICES ASSUME OrderInv, settled, NEW t \in Threads, pc[t] \in Looping
               PROVE  /\ \A i, j \in DOMAIN sent : i < j => sent[i].command < sent[j].command
                      /\ \A i \in DOMAIN sent : sent[i].command \in Texts(m_current_command)
                      /\ \A k \in Texts(m_current_command) :
                            k = m_current_command \/ \E i \in DOMAIN sent : sent[i].command = k
    BY DEF SettledInOrder
  <2>1. SentSoFar(t)
    BY DEF OrderInv, InOrder
  <2>2. QED
    BY <2>1 DEF SentSoFar
<1>2. QED
  BY <1>1, OrderCorrect, PTL

\* The button and its thread agree.
THEOREM ButtonIsSound == Spec => []ButtonSound
<1>1. FlagsFollowThreads /\ SettledParser /\ SettledChecked /\ SettledEnding => ButtonSound
  BY DEF ButtonSound
<1>2. QED
  BY <1>1, ButtonNeverStuck, SettledParserIsSafe, SettledButtonIsTrue,
     SettledEndingHolds, PTL

=============================================================================
