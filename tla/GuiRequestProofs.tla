-------------------------- MODULE GuiRequestProofs --------------------------
(***************************************************************************)
(* Proofs about GuiRequest for any set of worker threads: type             *)
(* correctness, what holds in every environment, and what holds when the   *)
(* GUI thread and the workers keep their requests apart.                   *)
(***************************************************************************)
EXTENDS GuiRequest, TLAPS

\* AnswersAreFresh, strengthened until it is inductive: a request that is
\* ready, or was when its thread left waitReady(), holds a text the widget
\* had since the thread asked.
FreshInv ==
    \A t \in Threads :
        /\ asked[t] <= edits
        /\ ready[t] \/ result[t] => answer[t] \in asked[t] .. edits
        /\ result[t] => pc[t] = "clear"

\* Where the one request under way is while its thread waits: its signal is
\* in the queue, the slot has begun, or it is answered.
UnderWay(t) ==
    \/ posted = 1 /\ slot = NONE /\ ~ready[t] /\ t # GUI
    \/ posted = 0 /\ slot = t /\ ~ready[t] /\ t # GUI
    \/ posted = 0 /\ slot = NONE /\ ready[t]

\* Requests kept apart: a signal or a slot belongs to a thread that waits, so
\* that without one there is none.
ApartInv ==
    "apart" \in env =>
        /\ fault = "none"
        /\ pc[GUI] # "idle" => \A w \in Workers : pc[w] = "idle"
        /\ m_command_mutex = NONE => posted = 0 /\ slot = NONE
        /\ \A t \in Threads :
            /\ pc[t] = "lock" => ~ready[t]
            /\ pc[t] = "emit" => posted = 0 /\ slot = NONE /\ ~ready[t]
            /\ pc[t] = "wait" => UnderWay(t)
            /\ pc[t] = "clear" => posted = 0 /\ slot = NONE /\ result[t]

-----------------------------------------------------------------------------
\* The definitions every proof expands: helpers and tuples of variables.
USE DEF vars, requests, Threads, Steps, Goto, Running, GuiFree, Exists

\* TypeOK is inductive: no step of a thread, of the slot or of the user takes
\* a variable out of its type.
THEOREM TypeCorrect == Spec => []TypeOK
<1>1. Init => TypeOK
  BY ConstantsAssumption DEF Init, TypeOK
<1>2. TypeOK /\ [Next]_vars => TypeOK'
  <2> SUFFICES ASSUME TypeOK, [Next]_vars
               PROVE  TypeOK'
    OBVIOUS
  <2> USE DEF TypeOK
  <2>1. ASSUME NEW t \in Threads, Request(t)
        PROVE  TypeOK'
    BY <2>1 DEF Request, ReadyAtFirst
  <2>2. ASSUME NEW t \in Threads, Proceed(t)
        PROVE  TypeOK'
    <3>1. CASE Lock(t)
      BY <3>1 DEF Lock
    <3>2. CASE Emit(t)
      <4>1. PostedBy(t) \in Nat /\ posted' \in Nat
        BY <3>2 DEF Emit, PostedBy
      <4>2. answer' \in [Threads -> Nat] /\ ready' \in [Threads -> BOOLEAN]
        BY <3>2 DEF Emit, Execute
      <4>3. QED
        BY <3>2, <4>1, <4>2 DEF Emit
    <3>3. CASE Wait(t)
      BY <3>3 DEF Wait
    <3>4. CASE Return(t)
      BY <3>4 DEF Return, NoCommand
    <3>5. QED
      BY <2>2, <3>1, <3>2, <3>3, <3>4 DEF Proceed
  <2>3. CASE SlotBegins
    BY <2>3 DEF SlotBegins
  <2>4. CASE SlotExecutes
    BY <2>4 DEF SlotExecutes, Execute
  <2>5. CASE Edit
    BY <2>5 DEF Edit
  <2>6. CASE UNCHANGED vars
    BY <2>6
  <2>7. QED
    BY <2>1, <2>2, <2>3, <2>4, <2>5, <2>6 DEF Next
<1>3. QED
  BY <1>1, <1>2, PTL DEF Spec

\* In every environment m_current_command is the request of the thread that
\* holds m_command_mutex: it never dangles.
THEOREM CommandNeverDangles == Spec => []CommandIsHolders
<1>1. Init => CommandIsHolders
  BY ConstantsAssumption DEF Init, CommandIsHolders
<1>2. TypeOK /\ CommandIsHolders /\ [Next]_vars => CommandIsHolders'
  <2> SUFFICES ASSUME TypeOK, CommandIsHolders, [Next]_vars
               PROVE  CommandIsHolders'
    OBVIOUS
  <2> USE ConstantsAssumption DEF TypeOK, CommandIsHolders
  <2>1. ASSUME NEW t \in Threads, Request(t)
        PROVE  CommandIsHolders'
    BY <2>1 DEF Request
  <2>2. ASSUME NEW t \in Threads, Proceed(t)
        PROVE  CommandIsHolders'
    <3>1. CASE Lock(t)
      BY <3>1 DEF Lock, MutexFree
    <3>2. CASE Emit(t)
      BY <3>2 DEF Emit
    <3>3. CASE Wait(t)
      BY <3>3 DEF Wait
    <3>4. CASE Return(t)
      BY <3>4 DEF Return, NoCommand
    <3>5. QED
      BY <2>2, <3>1, <3>2, <3>3, <3>4 DEF Proceed
  <2>3. CASE SlotBegins
    BY <2>3 DEF SlotBegins
  <2>4. CASE SlotExecutes
    BY <2>4 DEF SlotExecutes
  <2>5. CASE Edit
    BY <2>5 DEF Edit
  <2>6. CASE UNCHANGED vars
    BY <2>6
  <2>7. QED
    BY <2>1, <2>2, <2>3, <2>4, <2>5, <2>6 DEF Next
<1>3. QED
  BY <1>1, <1>2, TypeCorrect, PTL DEF Spec

\* In every environment a request that reports success holds a text the
\* widget had after the request was made.
THEOREM AnswersNeverStale == Spec => []AnswersAreFresh
<1>1. Init => FreshInv
  BY DEF Init, FreshInv
<1>2. TypeOK /\ FreshInv /\ [Next]_vars => FreshInv'
  <2> SUFFICES ASSUME TypeOK, FreshInv, [Next]_vars
               PROVE  FreshInv'
    OBVIOUS
  <2> USE DEF TypeOK, FreshInv
  <2>1. ASSUME NEW t \in Threads, Request(t)
        PROVE  FreshInv'
    BY <2>1 DEF Request, ReadyAtFirst
  <2>2. ASSUME NEW t \in Threads, Proceed(t)
        PROVE  FreshInv'
    <3>1. CASE Lock(t)
      BY <3>1 DEF Lock
    <3>2. CASE Emit(t)
      BY <3>2 DEF Emit, Execute
    <3>3. CASE Wait(t)
      BY <3>3 DEF Wait
    <3>4. CASE Return(t)
      BY <3>4 DEF Return
    <3>5. QED
      BY <2>2, <3>1, <3>2, <3>3, <3>4 DEF Proceed
  <2>3. CASE SlotBegins
    BY <2>3 DEF SlotBegins
  <2>4. CASE SlotExecutes
    BY <2>4 DEF SlotExecutes, Execute
  <2>5. CASE Edit
    BY <2>5 DEF Edit
  <2>6. CASE UNCHANGED vars
    BY <2>6
  <2>7. QED
    BY <2>1, <2>2, <2>3, <2>4, <2>5, <2>6 DEF Next
<1>3. FreshInv => AnswersAreFresh
  BY DEF FreshInv, AnswersAreFresh
<1>4. QED
  BY <1>1, <1>2, <1>3, TypeCorrect, PTL DEF Spec

-----------------------------------------------------------------------------
\* ApartInv is inductive: the GUI thread and the workers never find each
\* other's signals, and no wait expires.
THEOREM Apart == Spec => []ApartInv
<1>1. Init => ApartInv
  BY ConstantsAssumption DEF Init, ApartInv
<1>2. TypeOK /\ CommandIsHolders /\ ApartInv /\ [Next]_vars => ApartInv'
  <2> SUFFICES ASSUME TypeOK, CommandIsHolders, ApartInv, [Next]_vars,
                      "apart" \in env'
               PROVE  ApartInv'
    BY DEF ApartInv
  <2> USE ConstantsAssumption DEF TypeOK, CommandIsHolders, ApartInv, UnderWay
  <2>1. ASSUME NEW t \in Threads, Request(t)
        PROVE  ApartInv'
    BY <2>1 DEF Request, ReadyAtFirst
  <2>2. ASSUME NEW t \in Threads, Proceed(t)
        PROVE  ApartInv'
    <3>1. CASE Lock(t)
      BY <3>1 DEF Lock, MutexFree
    <3>2. CASE Emit(t)
      BY <3>2 DEF Emit, Execute, PostedBy
    <3>3. CASE Wait(t)
      <4>1. ready[t]
        BY <3>3 DEF Wait, Expires, Env
      <4>2. QED
        BY <3>3, <4>1 DEF Wait
    <3>4. CASE Return(t)
      BY <3>4 DEF Return, NoCommand
    <3>5. QED
      BY <2>2, <3>1, <3>2, <3>3, <3>4 DEF Proceed
  <2>3. CASE SlotBegins
    BY <2>3 DEF SlotBegins
  <2>4. CASE SlotExecutes
    BY <2>4 DEF SlotExecutes, Execute
  <2>5. CASE Edit
    BY <2>5 DEF Edit
  <2>6. CASE UNCHANGED vars
    BY <2>6
  <2>7. QED
    BY <2>1, <2>2, <2>3, <2>4, <2>5, <2>6 DEF Next
<1>3. QED
  BY <1>1, <1>2, TypeCorrect, CommandNeverDangles, PTL DEF Spec

\* Requests kept apart: the slot's assertion holds and it never executes a
\* request that is gone.
THEOREM ApartIsSafe == Spec => []ApartNoFault
<1>1. ApartInv => ApartNoFault
  BY DEF ApartInv, ApartNoFault, NoFault
<1>2. QED
  BY <1>1, Apart, PTL

\* Requests kept apart: every request that returns was answered.
THEOREM ApartIsAnswered == Spec => []ApartAnswered
<1>1. ApartInv => ApartAnswered
  BY DEF ApartInv, ApartAnswered
<1>2. QED
  BY <1>1, Apart, PTL

\* Requests are executed for their owners, and answered truthfully.
THEOREM RequestsAreSound == Spec => []RequestsSound
<1>1. CommandIsHolders /\ AnswersAreFresh /\ ApartNoFault /\ ApartAnswered => RequestsSound
  BY DEF RequestsSound
<1>2. QED
  BY <1>1, CommandNeverDangles, AnswersNeverStale, ApartIsSafe, ApartIsAnswered, PTL

=============================================================================
