--------------------------- MODULE TerminalProofs ---------------------------
(***************************************************************************)
(* Proofs about Terminal: its types, and that the log file holds what was  *)
(* shown as long as the user keeps out of the way of lines.                *)
(***************************************************************************)
EXTENDS Terminal, TLAPS

\* One line at a time: the mutex between drivers, the user between them and
\* the GUI thread.
Alone ==
    env.steady =>
        \A t, u \in Thread : pc[t] # "idle" /\ pc[u] # "idle" => t = u

IInv == TypeOK /\ Alone /\ LogTrue

USE ConstantsAssumption

---------------------------------------------------------------------------
\* What a slot does to the counters keeps them numbers.
LEMMA SlotTypes ==
    ASSUME TypeOK, NEW s \in ViewSignal, Slot(s)
    PROVE  shown' \in Nat /\ traced' \in Nat
BY DEF TypeOK, Slot

LEMMA SignalTypes ==
    ASSUME TypeOK, NEW t \in Thread, NEW s \in ViewSignal, Signal(t, s)
    PROVE  /\ posted' \in Seq(ViewSignal)
           /\ shown' \in Nat /\ traced' \in Nat
<1>1. CASE t = GUI
  <2>1. Slot(s) /\ posted' = posted
    BY <1>1, Zenon DEF Signal
  <2>2. shown' \in Nat /\ traced' \in Nat
    BY <2>1, SlotTypes
  <2> QED BY <2>1, <2>2 DEF TypeOK
<1>2. CASE t # GUI
  <2>1. posted' = Append(posted, s) /\ shown' = shown /\ traced' = traced
    BY <1>2, Zenon DEF Signal
  <2>2. Append(posted, s) \in Seq(ViewSignal)
    BY DEF TypeOK
  <2> QED BY <2>1, <2>2 DEF TypeOK
<1> QED BY <1>1, <1>2

\* The types of what the steps of a line leave alone.
LEMMA ViewsUnchanged ==
    ASSUME TypeOK, UNCHANGED views
    PROVE  /\ posted' \in Seq(ViewSignal)
           /\ shown' \in Nat /\ traced' \in Nat
BY DEF TypeOK, views

---------------------------------------------------------------------------
LEMMA InitTypes == Init => TypeOK
<1> SUFFICES ASSUME Init PROVE TypeOK
  OBVIOUS
<1>1. env \in Env
  BY DEF Init
<1>2. pc \in [Thread -> {"idle", "count", "countTrace", "add", "putLog",
                         "write", "filter", "search"}]
  BY DEF Init
<1>3. line \in [Thread -> 0 .. MaxLines] /\ at \in [Thread -> 0 .. Filters + 1]
  BY DEF Init
<1>4. posted \in Seq(ViewSignal)
  BY DEF Init
<1>5. Flags
  BY Zenon DEF Init, Flags
<1>6. /\ \A t \in Thread :
             /\ (pc[t] \in {"write", "filter", "search"}) <=> at[t] > 0
             /\ pc[t] = "search" => at[t] <= Filters
      /\ \A d \in Drivers : pc[d] # "idle" <=> owner = d
  BY DEF Init, Thread
<1> QED
  BY <1>1, <1>2, <1>3, <1>4, <1>5, <1>6 DEF Init, TypeOK

\* The Boolean variables.
LEMMA NextFlags == Flags /\ [Next]_vars => Flags'
<1> SUFFICES ASSUME Flags, [Next]_vars PROVE Flags'
  OBVIOUS
<1> USE DEF Flags
<1>1. ASSUME NEW d \in Drivers, PortEvent(d) PROVE Flags'
  BY <1>1, Zenon DEF PortEvent, views, file, filter
<1>2. ASSUME Marker PROVE Flags'
  BY <1>2, Zenon DEF Marker, views, file, filter
<1>3. ASSUME NEW t \in Thread, AddLine(t) PROVE Flags'
  <2>1. ASSUME NEW s \in ViewSignal, Signal(t, s) PROVE early' = early
    BY <2>1, Zenon DEF Signal
  <2>2. CASE CountTerminal(t) \/ CountTrace(t)
    BY <2>2, <2>1, Zenon DEF CountTerminal, CountTrace, Signal, views, file, filter
  <2>3. CASE AddToTerminalView(t)
    BY <2>3, Zenon DEF AddToTerminalView, Signal, filter
  <2>4. CASE PutLog(t) \/ TryMatch(t) \/ LineAdded(t)
    BY <2>4, Zenon DEF PutLog, TryMatch, LineAdded, views, file, filter
  <2>5. CASE Write(t)
    BY <2>5, Zenon DEF Write, Clashes, views, filter
  <2>6. CASE Search(t)
    BY <2>6, Zenon DEF Search, Signal, views, file, filter
  <2> QED BY <1>3, <2>2, <2>3, <2>4, <2>5, <2>6, Zenon DEF AddLine
<1>4. ASSUME NEW f \in 1 .. Filters, FilterClicked(f) PROVE Flags'
  BY <1>4 DEF FilterClicked, Clashes, Click, file
<1>5. ASSUME NEW f \in 1 .. Filters, FilterChanged(f) PROVE Flags'
  BY <1>5, Zenon DEF FilterChanged, Clashes, Click, file, filter
<1>6. ASSUME Deliver PROVE Flags'
  BY <1>6, Zenon DEF Deliver, file, filter
<1>7. ASSUME Logging PROVE Flags'
  BY <1>7, Zenon DEF Logging, Clashes, Click, filter
<1>8. ASSUME ClearTerminal \/ ClearTrace PROVE Flags'
  BY <1>8, Zenon DEF ClearTerminal, ClearTrace, Click, file, filter
<1>9. ASSUME DropFilters \/ DropPorts PROVE Flags'
  BY <1>9, Zenon DEF DropFilters, DropPorts, Clashes, views, file, filter
<1>10. ASSUME UNCHANGED vars PROVE Flags'
  BY <1>10, Zenon DEF vars, views, file, filter
<1> QED
  BY <1>1, <1>2, <1>3, <1>4, <1>5, <1>6, <1>7, <1>8, <1>9, <1>10, Zenon DEF Next

LEMMA NextTypes == TypeOK /\ [Next]_vars => TypeOK'
<1> SUFFICES ASSUME TypeOK, [Next]_vars PROVE TypeOK'
  OBVIOUS
<1> Flags'
  BY NextFlags DEF TypeOK
<1> USE DEF TypeOK
<1>1. ASSUME NEW d \in Drivers, PortEvent(d) PROVE TypeOK'
  <2>1. /\ owner = NoOne /\ owner' = d /\ pc[d] = "idle"
        /\ pc' = [pc EXCEPT ![d] = "count"]
        /\ lines' = lines + 1 /\ line' = [line EXCEPT ![d] = lines + 1]
        /\ lines < MaxLines
    BY SMTT(30), <1>1 DEF PortEvent, At, Free
  <2>2. UNCHANGED <<env, at, phase, posted, shown, traced, filters, clicks>>
    BY SMTT(30), <1>1 DEF PortEvent, views, filter
  <2>3. lines' \in 0 .. MaxLines /\ line' \in [Thread -> 0 .. MaxLines]
    <3>1. lines + 1 \in 0 .. MaxLines
      BY SMTT(30), <2>1
    <3>2. line \in [Thread -> 0 .. MaxLines]
      OBVIOUS
    <3> HIDE DEF TypeOK
    <3> QED BY ZenonT(60), <2>1, <3>1, <3>2
  <2>4. \A e \in Drivers : pc'[e] # "idle" <=> owner' = e
    BY SMTT(30), <2>1, <1>1 DEF Thread
  <2> QED BY SMTT(30), <2>1, <2>2, <2>3, <2>4 DEF Thread
<1>2. ASSUME Marker PROVE TypeOK'
  <2>1. /\ pc[GUI] = "idle" /\ pc' = [pc EXCEPT ![GUI] = "count"]
        /\ lines' = lines + 1 /\ line' = [line EXCEPT ![GUI] = lines + 1]
        /\ lines < MaxLines
    BY SMTT(30), <1>2 DEF Marker, At
  <2>2. UNCHANGED <<env, at, owner, phase, posted, shown, traced, filters, clicks>>
    BY SMTT(30), <1>2 DEF Marker, views, filter
  <2>3. lines' \in 0 .. MaxLines /\ line' \in [Thread -> 0 .. MaxLines]
    <3>1. lines + 1 \in 0 .. MaxLines
      BY SMTT(30), <2>1
    <3>2. line \in [Thread -> 0 .. MaxLines]
      OBVIOUS
    <3> HIDE DEF TypeOK
    <3> QED BY ZenonT(60), <2>1, <3>1, <3>2
  <2> QED BY SMTT(30), <2>1, <2>2, <2>3 DEF Thread
<1>3. ASSUME NEW t \in Thread, AddLine(t) PROVE TypeOK'
  <2>1. CASE CountTerminal(t)
    <3>1. posted' \in Seq(ViewSignal) /\ shown' \in Nat /\ traced' \in Nat
      BY SMTT(30), <2>1, SignalTypes, ViewsUnchanged DEF CountTerminal, ViewSignal
    <3> QED BY ZenonT(60), <2>1, <3>1 DEF CountTerminal, At, Thread, file, filter
  <2>2. CASE CountTrace(t)
    <3>1. posted' \in Seq(ViewSignal) /\ shown' \in Nat /\ traced' \in Nat
      BY SMTT(30), <2>2, SignalTypes, ViewsUnchanged DEF CountTrace, ViewSignal
    <3> QED BY ZenonT(60), <2>2, <3>1 DEF CountTrace, At, Thread, file, filter
  <2>3. CASE AddToTerminalView(t)
    <3>1. posted' \in Seq(ViewSignal) /\ shown' \in Nat /\ traced' \in Nat
      BY SMTT(30), <2>3, SignalTypes DEF AddToTerminalView, ViewSignal
    <3> QED BY ZenonT(60), <2>3, <3>1 DEF AddToTerminalView, At, Thread, filter
  <2>4. CASE PutLog(t)
    BY SMTT(30), <2>4 DEF PutLog, At, Thread, views, file, filter
  <2>5. CASE Write(t)
    BY SMTT(30), <2>5 DEF Write, Clashes, At, Thread, views, filter
  <2>6. CASE TryMatch(t)
    <3>1. UNCHANGED <<env, line, owner, phase, posted, shown, traced, filters, lines, clicks>>
      BY SMTT(30), <2>6 DEF TryMatch, views, filter
    <3>2. pc[t] = "filter" /\ at[t] \in 1 .. Filters
      BY SMTT(30), <2>6, <1>3 DEF TryMatch
    <3>3. CASE pc' = [pc EXCEPT ![t] = "search"] /\ at' = at
      BY SMTT(30), <3>1, <3>2, <3>3
    <3>4. CASE pc' = pc /\ at' = [at EXCEPT ![t] = @ + 1]
      BY SMTT(30), <3>1, <3>2, <3>4
    <3>5. \/ pc' = [pc EXCEPT ![t] = "search"] /\ at' = at
          \/ pc' = pc /\ at' = [at EXCEPT ![t] = @ + 1]
      BY <2>6, Zenon DEF TryMatch
    <3> QED BY SMTT(30), <3>3, <3>4, <3>5
  <2>7. CASE Search(t)
    <3>1. posted' \in Seq(ViewSignal) /\ shown' \in Nat /\ traced' \in Nat
      BY SMTT(30), <2>7, SignalTypes, ViewsUnchanged DEF Search, ViewSignal
    <3> QED BY SMTT(30), <2>7, <3>1 DEF Search, At, Thread, file, filter
  <2>8. CASE LineAdded(t)
    <3>1. /\ pc[t] = "filter" /\ pc' = [pc EXCEPT ![t] = "idle"]
          /\ owner' = IF owner = t THEN NoOne ELSE owner
          /\ line' = [line EXCEPT ![t] = 0] /\ at' = [at EXCEPT ![t] = 0]
      BY SMTT(30), <2>8 DEF LineAdded, Released, At
    <3>2. UNCHANGED <<env, phase, posted, shown, traced, filters, lines, clicks>>
      BY SMTT(30), <2>8 DEF LineAdded, views, filter
    <3>3. line' \in [Thread -> 0 .. MaxLines] /\ at' \in [Thread -> 0 .. Filters + 1]
      BY SMTT(30), <3>1
    <3>4. \A e \in Drivers : pc'[e] # "idle" <=> owner' = e
      BY SMTT(30), <3>1 DEF Thread
    <3> QED BY SMTT(30), <3>1, <3>2, <3>3, <3>4
  <2> QED BY SMTT(30), <1>3, <2>1, <2>2, <2>3, <2>4, <2>5, <2>6, <2>7, <2>8 DEF AddLine
<1>4. ASSUME NEW f \in 1 .. Filters, FilterClicked(f) PROVE TypeOK'
  BY SMTT(30), <1>4 DEF FilterClicked, Clashes, Click, place, file
<1>5. ASSUME NEW f \in 1 .. Filters, FilterChanged(f) PROVE TypeOK'
  BY SMTT(30), <1>5 DEF FilterChanged, Clashes, Click, place, file, filter
<1>6. ASSUME Deliver PROVE TypeOK'
  <2>1. Head(posted) \in ViewSignal /\ posted' \in Seq(ViewSignal)
    BY SMTT(30), <1>6 DEF Deliver
  <2>2. shown' \in Nat /\ traced' \in Nat
    BY SMTT(30), <1>6, <2>1, SlotTypes DEF Deliver
  <2> QED BY SMTT(30), <1>6, <2>1, <2>2 DEF Deliver, place, file, filter
<1>7. ASSUME Logging PROVE TypeOK'
  BY SMTT(30), <1>7 DEF Logging, Clashes, Click, place, filter
<1>8. ASSUME ClearTerminal \/ ClearTrace PROVE TypeOK'
  BY SMTT(30), <1>8 DEF ClearTerminal, ClearTrace, Click, place, file, filter
<1>9. ASSUME DropFilters \/ DropPorts PROVE TypeOK'
  <2>1. CASE DropFilters
    BY SMTT(30), <2>1 DEF DropFilters, place, views
  <2>2. CASE DropPorts
    BY SMTT(30), <2>2 DEF DropPorts, place, views, file, filter
  <2> QED BY SMTT(30), <1>9, <2>1, <2>2
<1>10. ASSUME UNCHANGED vars PROVE TypeOK'
  BY SMTT(30), <1>10 DEF vars, place, views, file, filter
<1> QED
  BY SMTT(30), <1>1, <1>2, <1>3, <1>4, <1>5, <1>6, <1>7, <1>8, <1>9, <1>10 DEF Next

---------------------------------------------------------------------------
LEMMA InitAlone == Init => Alone /\ LogTrue
BY DEF Init, Alone, LogTrue, InHand

LEMMA NextAlone == TypeOK /\ Alone /\ [Next]_vars => Alone'
<1> SUFFICES ASSUME TypeOK, Alone, [Next]_vars, env.steady,
                    env' = env
             PROVE  \A t, u \in Thread : pc'[t] # "idle" /\ pc'[u] # "idle" => t = u
  <2>1. TypeOK /\ [Next]_vars => env' = env
    BY DEF Next, vars, PortEvent, Marker, AddLine, CountTerminal, CountTrace,
           AddToTerminalView, PutLog, Write, TryMatch, Search, LineAdded,
           FilterClicked, FilterChanged, Deliver, Logging, ClearTerminal, ClearTrace,
           Click, DropFilters, DropPorts
  <2> QED BY <2>1 DEF Alone
<1>0. \A t, u \in Thread : pc[t] # "idle" /\ pc[u] # "idle" => t = u
  BY DEF Alone
<1>1. ASSUME NEW d \in Drivers, PortEvent(d)
      PROVE  \A t, u \in Thread : pc'[t] # "idle" /\ pc'[u] # "idle" => t = u
  <2>1. \A t \in Thread : pc[t] = "idle"
    BY <1>1 DEF PortEvent, Free, Thread, TypeOK
  <2> QED BY <1>1, <2>1 DEF PortEvent, At, TypeOK
<1>2. ASSUME Marker
      PROVE  \A t, u \in Thread : pc'[t] # "idle" /\ pc'[u] # "idle" => t = u
  BY <1>2 DEF Marker, MayHandle, Quiet, At, TypeOK
<1>3. ASSUME NEW t \in Thread, AddLine(t)
      PROVE  \A u, v \in Thread : pc'[u] # "idle" /\ pc'[v] # "idle" => u = v
  <2>1. pc[t] # "idle" /\ \A u \in Thread \ {t} : pc'[u] = pc[u]
    BY <1>3 DEF AddLine, CountTerminal, CountTrace, AddToTerminalView, PutLog,
                Write, TryMatch, Search, LineAdded, At, TypeOK
  <2> QED BY <1>0, <2>1
<1>4. ASSUME UNCHANGED pc
      PROVE  \A t, u \in Thread : pc'[t] # "idle" /\ pc'[u] # "idle" => t = u
  BY <1>0, <1>4
<1> QED
  BY <1>1, <1>2, <1>3, <1>4
  DEF Next, vars, place, FilterClicked, FilterChanged, Deliver, Logging,
      ClearTerminal, ClearTrace, Click, DropFilters, DropPorts

---------------------------------------------------------------------------
\* The log after a step that has nothing to do with it.
LEMMA LogLeftAlone ==
    ASSUME LogTrue, env' = env, UNCHANGED <<open, order, log, clash>>,
           \A t \in Thread : InHand(t)' <=> InHand(t),
           \A t \in Thread : InHand(t) => line'[t] = line[t]
    PROVE  LogTrue'
BY DEF LogTrue

LEMMA NextLog == TypeOK /\ Alone /\ LogTrue /\ [Next]_vars => LogTrue'
<1> SUFFICES ASSUME TypeOK, Alone, LogTrue, [Next]_vars PROVE LogTrue'
  OBVIOUS
<1>0. env.steady =>
          \A t, u \in Thread : pc[t] # "idle" /\ pc[u] # "idle" => t = u
  BY DEF Alone
<1>1. ASSUME NEW d \in Drivers, PortEvent(d) PROVE LogTrue'
  <2>1. \A t \in Thread : InHand(t)' <=> InHand(t)
    BY <1>1 DEF PortEvent, At, TypeOK, InHand
  <2>2. \A t \in Thread : InHand(t) => line'[t] = line[t]
    BY <1>1 DEF PortEvent, At, TypeOK, InHand
  <2> QED BY <1>1, <2>1, <2>2, LogLeftAlone DEF PortEvent, file
<1>2. ASSUME Marker PROVE LogTrue'
  <2>1. \A t \in Thread : InHand(t)' <=> InHand(t)
    BY <1>2 DEF Marker, At, TypeOK, InHand
  <2>2. \A t \in Thread : InHand(t) => line'[t] = line[t]
    BY <1>2 DEF Marker, At, TypeOK, InHand
  <2> QED BY <1>2, <2>1, <2>2, LogLeftAlone DEF Marker, file
<1>3. ASSUME NEW t \in Thread, AddLine(t) PROVE LogTrue'
  <2>1. CASE CountTerminal(t) \/ CountTrace(t) \/ TryMatch(t) \/ Search(t) \/ LineAdded(t)
    <3>1. \A u \in Thread : InHand(u)' <=> InHand(u)
      BY <2>1 DEF CountTerminal, CountTrace, TryMatch, Search, LineAdded, At, TypeOK, InHand
    <3>2. \A u \in Thread : InHand(u) => line'[u] = line[u]
      BY <2>1 DEF CountTerminal, CountTrace, TryMatch, Search, LineAdded, At, TypeOK, InHand
    <3>3. env' = env /\ UNCHANGED <<open, order, log, clash>>
      BY <2>1 DEF CountTerminal, CountTrace, TryMatch, Search, LineAdded, file
    <3> QED BY <3>1, <3>2, <3>3, LogLeftAlone
  <2>2. CASE AddToTerminalView(t)
    <3> SUFFICES ASSUME env.steady PROVE LogTrue'
      BY <2>2 DEF LogTrue, AddToTerminalView
    <3>1. \A u \in Thread : ~InHand(u)
      BY <1>0, <2>2 DEF AddToTerminalView, At, InHand
    <3>2. open => order = log
      BY <3>1 DEF LogTrue
    <3>3. \A u \in Thread : InHand(u)' <=> u = t
      BY <2>2, <3>1 DEF AddToTerminalView, At, InHand, TypeOK
    <3>4. open => order' = Append(log, line[t])
      BY <2>2, <3>2 DEF AddToTerminalView
    <3>5. UNCHANGED <<env, open, log, line, clash>>
      BY <2>2 DEF AddToTerminalView
    <3> QED BY <3>3, <3>4, <3>5 DEF LogTrue
  <2>3. CASE PutLog(t)
    <3>1. UNCHANGED <<env, open, order, log, line, clash>>
      BY <2>3 DEF PutLog, file
    <3>2. open => \A u \in Thread : InHand(u)' <=> InHand(u)
      BY <2>3 DEF PutLog, At, InHand, TypeOK
    <3> QED BY <3>1, <3>2 DEF LogTrue
  <2>4. CASE Write(t)
    <3> SUFFICES ASSUME env.steady PROVE LogTrue'
      BY <2>4 DEF LogTrue, Write
    <3>1. \A u \in Thread \ {t} : ~InHand(u) /\ ~Writing(u)
      BY <1>0, <2>4 DEF Write, At, InHand, Writing
    <3>2. clash' = clash
      BY <2>4, <3>1 DEF Write, Clashes
    <3>3. open => order = Append(log, line[t])
      BY <2>4 DEF Write, At, InHand, LogTrue
    <3>4. \A u \in Thread : ~InHand(u)'
      BY <2>4, <3>1 DEF Write, At, InHand, TypeOK
    <3>5. open => log' = order'
      BY <2>4, <3>3 DEF Write
    <3>6. env' = env /\ open' = open
      BY <2>4 DEF Write
    <3> QED BY <3>2, <3>4, <3>5, <3>6 DEF LogTrue
  <2> QED BY <1>3, <2>1, <2>2, <2>3, <2>4 DEF AddLine
<1>4. ASSUME Logging PROVE LogTrue'
  <2> SUFFICES ASSUME env.steady PROVE LogTrue'
    BY <1>4 DEF LogTrue, Logging, Click
  <2>1. \A t \in Thread : pc[t] = "idle"
    BY <1>4 DEF Logging, MayHandle, Quiet
  <2>2. \A t \in Thread : ~InHand(t)'
    BY <1>4, <2>1 DEF Logging, Click, place, InHand
  <2>3. clash' = clash
    BY <1>4, <2>1 DEF Logging, Clashes, Writing
  <2>4. open' => order' = log'
    BY <1>4 DEF Logging
  <2> QED BY <1>4, <2>2, <2>3, <2>4 DEF LogTrue, Logging, Click
<1>5. ASSUME UNCHANGED <<pc, line, file>>, env' = env, env.steady => clash' = clash
      PROVE  LogTrue'
  BY <1>5 DEF LogTrue, InHand, file
<1>6. ASSUME NEW f \in 1 .. Filters, FilterClicked(f) \/ FilterChanged(f) PROVE LogTrue'
  <2>1. env.steady => ~Searching(f)
    BY <1>6 DEF FilterClicked, FilterChanged, MayHandle, Quiet, Searching
  <2>2. env.steady => clash' = clash
    BY <1>6, <2>1 DEF FilterClicked, FilterChanged, Clashes
  <2>3. UNCHANGED <<pc, line, file>> /\ env' = env
    BY <1>6 DEF FilterClicked, FilterChanged, Click, place, file
  <2> QED BY <2>2, <2>3, <1>5
<1>7. ASSUME DropFilters PROVE LogTrue'
  <2>1. env.steady => \A d \in Drivers : ~Matching(d)
    BY <1>7 DEF DropFilters, MayHandle, Quiet, Matching, Thread
  <2>2. env.steady => clash' = clash
    BY <1>7, <2>1 DEF DropFilters, Clashes
  <2> QED BY <1>7, <2>2, <1>5 DEF DropFilters, place
<1>8. ASSUME Deliver \/ ClearTerminal \/ ClearTrace \/ DropPorts \/ UNCHANGED vars
      PROVE  LogTrue'
  <2>1. UNCHANGED <<pc, line, file, clash>> /\ env' = env
    BY <1>8 DEF Deliver, ClearTerminal, ClearTrace, DropPorts, vars, Click, place, file
  <2> QED BY <2>1, <1>5
<1> QED
  BY <1>1, <1>2, <1>3, <1>4, <1>6, <1>7, <1>8 DEF Next

---------------------------------------------------------------------------
LEMMA Invariance == Spec => []IInv
<1>1. Init => IInv
  BY InitTypes, InitAlone DEF IInv
<1>2. IInv /\ [Next]_vars => IInv'
  BY NextTypes, NextAlone, NextLog DEF IInv
<1> QED BY <1>1, <1>2, PTL DEF Spec

\* Types of Terminal, for any number of drivers, filters, lines and clicks; and
\* that m_ports_mutex (MainApplication.cpp:219) is held just while a driver's line
\* is on its way, also beside markers, which do not take it.
THEOREM TypesInvariant == Spec => []TypeOK
<1>1. IInv => TypeOK
  BY DEF IInv
<1> QED BY <1>1, Invariance, PTL

\* For any number of drivers, filters and lines and any limit: as long as the user
\* keeps out of the way of lines, no stream, expression or filter is changed during
\* its use, and the log file holds what the terminal was sent since it was opened
\* (MainApplication.cpp:264-265 and FileLogger.cpp).
THEOREM LogInvariant == Spec => []LogTrue
<1>1. IInv => LogTrue
  BY DEF IInv
<1> QED BY <1>1, Invariance, PTL
---------------------------------------------------------------------------
(* The limits.  While the user keeps out of the way and the GUI thread has  *)
(* caught up when a line begins, the queue holds what one line posts: at    *)
(* most a clear of each view, then the line, then its matches.              *)

Queue(q, c, r, a, n) ==
    /\ c \in {0, 1} /\ r \in {0, 1} /\ a \in {0, 1} /\ n \in Nat
    /\ Len(q) = c + r + a + n
    /\ \A i \in 1 .. Len(q) :
           q[i] = IF i <= c THEN "clear"
                  ELSE IF i <= c + r THEN "clearTrace"
                  ELSE IF i <= c + r + a THEN "add" ELSE "trace"

\* What may be in the queue while a thread is at its place.
Posts(t, c, r, a, n) ==
    /\ t = GUI /\ pc[t] # "idle" => c = 0 /\ r = 0 /\ a = 0 /\ n = 0
    /\ pc[t] = "count" => c = 0 /\ r = 0 /\ a = 0 /\ n = 0
    /\ pc[t] = "countTrace" => r = 0 /\ a = 0 /\ n = 0
    /\ pc[t] = "add" => a = 0 /\ n = 0
    /\ pc[t] = "putLog" => n = 0
    /\ pc[t] \in {"write", "filter", "search"} => n <= at[t] - 1

\* A view that no clear in the queue is going to empty has room for what the
\* line adds to it.
Room(t, c, r, n) ==
    /\ c = 0 /\ pc[t] \in {"countTrace", "add"} => shown < Limit
    /\ r = 0 /\ pc[t] \in {"add", "putLog"} => traced < Limit
    /\ r = 0 /\ pc[t] \in {"write", "filter", "search"}
           => traced + n <= Limit - 1 + at[t] - 1

Counted(c, r, a, n) ==
    /\ Queue(posted, c, r, a, n)
    /\ n <= Filters
    /\ shown <= Limit /\ traced <= Limit - 1 + Filters
    /\ c = 1 => shown \in {0, Limit}
    /\ c = 0 /\ a = 1 => shown < Limit
    /\ r = 1 => traced = 0 \/ traced >= Limit
    /\ r = 0 => traced + n <= Limit - 1 + Filters
    /\ \A t \in Thread : Posts(t, c, r, a, n) /\ Room(t, c, r, n)

Alike == env.steady /\ env.prompt
LimitsInv ==
    Alike => ~early /\ \E c, r, a \in {0, 1}, n \in Nat : Counted(c, r, a, n)

LEMMA QueueEmpty == ASSUME NEW q, q = <<>> PROVE Queue(q, 0, 0, 0, 0)
BY DEF Queue

LEMMA QueueOnlyEmpty ==
    ASSUME NEW q \in Seq(ViewSignal), q = <<>>,
           NEW c, NEW r, NEW a, NEW n, Queue(q, c, r, a, n)
    PROVE  c = 0 /\ r = 0 /\ a = 0 /\ n = 0
<1>1. Len(q) = 0
  OBVIOUS
<1>2. c \in 0 .. 1 /\ r \in 0 .. 1 /\ a \in 0 .. 1 /\ n \in Nat /\ c + r + a + n = 0
  BY <1>1 DEF Queue
<1> QED
  BY <1>2

\* What a signal that is posted adds to the queue.
LEMMA QueueAppend ==
    ASSUME NEW q \in Seq(ViewSignal), NEW s \in ViewSignal,
           NEW c, NEW r, NEW a, NEW n, Queue(q, c, r, a, n)
    PROVE  /\ s = "clear" /\ c = 0 /\ r = 0 /\ a = 0 /\ n = 0 => Queue(Append(q, s), 1, 0, 0, 0)
           /\ s = "clearTrace" /\ r = 0 /\ a = 0 /\ n = 0 => Queue(Append(q, s), c, 1, 0, 0)
           /\ s = "add" /\ a = 0 /\ n = 0 => Queue(Append(q, s), c, r, 1, 0)
           /\ s = "trace" => Queue(Append(q, s), c, r, a, n + 1)
<1> DEFINE p == Append(q, s)
<1>1. /\ Len(p) = Len(q) + 1 /\ p[Len(q) + 1] = s
      /\ \A i \in 1 .. Len(q) : p[i] = q[i]
      /\ Len(q) \in Nat
  OBVIOUS
<1> HIDE DEF p
<1>2. /\ c \in 0 .. 1 /\ r \in 0 .. 1 /\ a \in 0 .. 1 /\ n \in Nat
      /\ Len(q) = c + r + a + n
      /\ \A i \in 1 .. Len(q) :
             q[i] = IF i <= c THEN "clear"
                    ELSE IF i <= c + r THEN "clearTrace"
                    ELSE IF i <= c + r + a THEN "add" ELSE "trace"
  BY DEF Queue
<1>3. ASSUME s = "clear", c = 0, r = 0, a = 0, n = 0 PROVE Queue(p, 1, 0, 0, 0)
  BY <1>1, <1>2, <1>3 DEF Queue
<1>4. ASSUME s = "clearTrace", r = 0, a = 0, n = 0 PROVE Queue(p, c, 1, 0, 0)
  BY <1>1, <1>2, <1>4 DEF Queue
<1>5. ASSUME s = "add", a = 0, n = 0 PROVE Queue(p, c, r, 1, 0)
  BY <1>1, <1>2, <1>5 DEF Queue
<1>6. ASSUME s = "trace" PROVE Queue(p, c, r, a, n + 1)
  BY <1>1, <1>2, <1>6 DEF Queue
<1> QED
  BY <1>3, <1>4, <1>5, <1>6 DEF p

\* What the event loop takes out of the queue.
LEMMA QueueTail ==
    ASSUME NEW q \in Seq(ViewSignal), q # <<>>,
           NEW c, NEW r, NEW a, NEW n, Queue(q, c, r, a, n)
    PROVE  \/ c = 1 /\ Head(q) = "clear" /\ Queue(Tail(q), 0, r, a, n)
           \/ c = 0 /\ r = 1 /\ Head(q) = "clearTrace" /\ Queue(Tail(q), 0, 0, a, n)
           \/ c = 0 /\ r = 0 /\ a = 1 /\ Head(q) = "add" /\ Queue(Tail(q), 0, 0, 0, n)
           \/ /\ c = 0 /\ r = 0 /\ a = 0 /\ n > 0
              /\ Head(q) = "trace" /\ Queue(Tail(q), 0, 0, 0, n - 1)
<1> DEFINE p == Tail(q)
<1>1. /\ Len(q) \in Nat \ {0} /\ Len(p) = Len(q) - 1 /\ q[1] = Head(q)
      /\ \A i \in 1 .. Len(p) : p[i] = q[i + 1]
  OBVIOUS
<1> HIDE DEF p
<1>2. /\ c \in 0 .. 1 /\ r \in 0 .. 1 /\ a \in 0 .. 1 /\ n \in Nat
      /\ Len(q) = c + r + a + n
      /\ \A i \in 1 .. Len(q) :
             q[i] = IF i <= c THEN "clear"
                    ELSE IF i <= c + r THEN "clearTrace"
                    ELSE IF i <= c + r + a THEN "add" ELSE "trace"
  BY DEF Queue
<1>3. CASE c = 1
  <2>1. Head(q) = "clear"
    BY <1>1, <1>2, <1>3
  <2>2. Queue(p, 0, r, a, n)
    BY <1>1, <1>2, <1>3 DEF Queue
  <2> QED
    BY <1>3, <2>1, <2>2 DEF p
<1>4. CASE c = 0 /\ r = 1
  <2>1. Head(q) = "clearTrace"
    BY <1>1, <1>2, <1>4
  <2>2. Queue(p, 0, 0, a, n)
    BY <1>1, <1>2, <1>4 DEF Queue
  <2> QED
    BY <1>4, <2>1, <2>2 DEF p
<1>5. CASE c = 0 /\ r = 0 /\ a = 1
  <2>1. Head(q) = "add"
    BY <1>1, <1>2, <1>5
  <2>2. Queue(p, 0, 0, 0, n)
    BY <1>1, <1>2, <1>5 DEF Queue
  <2> QED
    BY <1>5, <2>1, <2>2 DEF p
<1>6. CASE c = 0 /\ r = 0 /\ a = 0
  <2>1. n > 0 /\ Head(q) = "trace"
    BY <1>1, <1>2, <1>6
  <2>2. Queue(p, 0, 0, 0, n - 1)
    BY <1>1, <1>2, <1>6, <2>1 DEF Queue
  <2> QED
    BY <1>6, <2>1, <2>2 DEF p
<1> QED
  BY <1>2, <1>3, <1>4, <1>5, <1>6

\* What a step of a line leaves alone, as far as the limits go.
LEMMA CountedLeftAlone ==
    ASSUME TypeOK,
           UNCHANGED views,
           NEW c \in {0, 1}, NEW r \in {0, 1}, NEW a \in {0, 1}, NEW n \in Nat,
           Counted(c, r, a, n),
           \A t \in Thread : Posts(t, c, r, a, n)' /\ Room(t, c, r, n)'
    PROVE  Counted(c, r, a, n)'
BY DEF Counted, views

---------------------------------------------------------------------------
LEMMA InitLimits == Init => LimitsInv
<1> SUFFICES ASSUME Init PROVE ~early /\ Counted(0, 0, 0, 0)
  BY DEF LimitsInv
<1>1. Queue(posted, 0, 0, 0, 0)
  BY QueueEmpty DEF Init
<1> QED
  BY <1>1 DEF Init, Counted, Posts, Room

LEMMA NextLimits == TypeOK /\ Alone /\ LimitsInv /\ [Next]_vars => LimitsInv'
<1> SUFFICES ASSUME TypeOK, Alone, LimitsInv, [Next]_vars, Alike, env' = env
             PROVE  ~early' /\ \E c, r, a \in {0, 1}, n \in Nat : Counted(c, r, a, n)'
  <2>1. TypeOK /\ [Next]_vars => env' = env
    BY DEF Next, vars, PortEvent, Marker, AddLine, CountTerminal, CountTrace,
           AddToTerminalView, PutLog, Write, TryMatch, Search, LineAdded,
           FilterClicked, FilterChanged, Deliver, Logging, ClearTerminal, ClearTrace,
           Click, DropFilters, DropPorts
  <2> QED
    BY <2>1 DEF LimitsInv, Alike
<1>a. \A t, u \in Thread : pc[t] # "idle" /\ pc[u] # "idle" => t = u
  BY DEF Alone, Alike
<1>b. ~early
  BY DEF LimitsInv
<1> PICK c \in {0, 1}, r \in {0, 1}, a \in {0, 1}, n \in Nat : Counted(c, r, a, n)
  BY DEF LimitsInv
<1>c. /\ Queue(posted, c, r, a, n) /\ n <= Filters
      /\ shown <= Limit /\ traced <= Limit - 1 + Filters
      /\ c = 1 => shown \in {0, Limit}
      /\ c = 0 /\ a = 1 => shown < Limit
      /\ r = 1 => traced = 0 \/ traced >= Limit
      /\ r = 0 => traced + n <= Limit - 1 + Filters
      /\ \A t \in Thread : Posts(t, c, r, a, n) /\ Room(t, c, r, n)
  BY DEF Counted
<1>d. /\ posted \in Seq(ViewSignal) /\ shown \in Nat /\ traced \in Nat
      /\ pc \in [Thread -> {"idle", "count", "countTrace", "add", "putLog",
                            "write", "filter", "search"}]
      /\ at \in [Thread -> 0 .. Filters + 1]
      /\ Filters \in Nat /\ Limit \in Nat \ {0}
      /\ \A t \in Thread : (pc[t] \in {"write", "filter", "search"}) <=> at[t] > 0
  BY DEF TypeOK
<1>e. \A k \in Thread : pc[k] # "idle" /\ k = GUI => c = 0 /\ r = 0 /\ a = 0 /\ n = 0
  BY <1>c DEF Posts
<1> DEFINE Goal == ~early' /\ \E x, y, z \in {0, 1}, m \in Nat : Counted(x, y, z, m)'
<1>f. ASSUME UNCHANGED views,
             \A t \in Thread : Posts(t, c, r, a, n)' /\ Room(t, c, r, n)'
      PROVE  Goal
  <2>1. Counted(c, r, a, n)'
    BY <1>f, CountedLeftAlone
  <2> QED
    BY <1>b, <1>f, <2>1 DEF views
<1>g. ASSUME UNCHANGED <<pc, at, views>> PROVE Goal
  <2>1. \A t \in Thread : Posts(t, c, r, a, n)' /\ Room(t, c, r, n)'
    BY <1>c, <1>g DEF Posts, Room, views
  <2> QED
    BY <1>f, <1>g, <2>1
\* A line begins: nothing is on its way.
<1>1. ASSUME NEW u \in Thread, posted = <<>>,
             \A t \in Thread : pc[t] = "idle",
             pc' = [pc EXCEPT ![u] = "count"], UNCHANGED <<at, views>>
      PROVE  Goal
  <2>1. c = 0 /\ r = 0 /\ a = 0 /\ n = 0
    BY <1>1, <1>c, <1>d, QueueOnlyEmpty
  <2>2. \A t \in Thread : pc'[t] \in {"idle", "count"}
    BY <1>1, <1>d
  <2>3. \A t \in Thread : Posts(t, c, r, a, n)' /\ Room(t, c, r, n)'
    BY <2>1, <2>2 DEF Posts, Room
  <2> QED
    BY <1>1, <1>f, <2>3
<1>2. ASSUME NEW d \in Drivers, PortEvent(d) PROVE Goal
  <2>1. posted = <<>>
    BY <1>2 DEF PortEvent, CaughtUp, Alike
  <2>2. \A t \in Thread : pc[t] = "idle"
    BY <1>2 DEF PortEvent, Free, Thread, TypeOK, Alike
  <2>3. pc' = [pc EXCEPT ![d] = "count"] /\ UNCHANGED <<at, views>> /\ d \in Thread
    BY <1>2 DEF PortEvent, At, Thread
  <2> HIDE DEF Goal
  <2> QED
    BY <1>1, <2>1, <2>2, <2>3
<1>3. ASSUME Marker PROVE Goal
  <2>1. posted = <<>>
    BY <1>3 DEF Marker, CaughtUp, Alike
  <2>2. \A t \in Thread : pc[t] = "idle"
    BY <1>3 DEF Marker, MayHandle, Quiet, Alike
  <2>3. pc' = [pc EXCEPT ![GUI] = "count"] /\ UNCHANGED <<at, views>> /\ GUI \in Thread
    BY <1>3 DEF Marker, At, Thread
  <2> HIDE DEF Goal
  <2> QED
    BY <1>1, <2>1, <2>2, <2>3
<1>4. ASSUME NEW u \in Thread, AddLine(u) PROVE Goal
  <2>a. pc[u] # "idle" /\ \A t \in Thread \ {u} : pc[t] = "idle" /\ pc'[t] = "idle"
    <3>1. pc[u] # "idle" /\ \A t \in Thread \ {u} : pc'[t] = pc[t]
      BY <1>4 DEF AddLine, CountTerminal, CountTrace, AddToTerminalView, PutLog,
                  Write, TryMatch, Search, LineAdded, At, TypeOK
    <3> QED
      BY <1>a, <3>1
  \* The other threads have nothing to do with it.
  <2>b. ASSUME NEW x \in {0, 1}, NEW y \in {0, 1}, NEW z \in {0, 1}, NEW m \in Nat,
               NEW t \in Thread \ {u}
        PROVE  Posts(t, x, y, z, m)' /\ Room(t, x, y, m)'
    BY <2>a DEF Posts, Room
  <2>c. ASSUME UNCHANGED views, Posts(u, c, r, a, n)', Room(u, c, r, n)' PROVE Goal
    <3>1. \A t \in Thread : Posts(t, c, r, a, n)' /\ Room(t, c, r, n)'
      BY <2>b, <2>c
    <3> HIDE DEF Goal
    <3> QED
      BY <1>f, <2>c, <3>1
  <2>d. Posts(u, c, r, a, n) /\ Room(u, c, r, n)
    BY <1>c
  <2>1. CASE CountTerminal(u)
    <3>0. /\ pc[u] = "count" /\ pc' = [pc EXCEPT ![u] = "countTrace"] /\ at' = at
          /\ c = 0 /\ r = 0 /\ a = 0 /\ n = 0 /\ pc'[u] = "countTrace"
      BY <2>1, <2>d, <1>d DEF CountTerminal, At, Posts
    <3>1. CASE shown < Limit
      <4>1. UNCHANGED views
        BY <2>1, <3>1, <1>d DEF CountTerminal, Full
      <4>2. Posts(u, c, r, a, n)' /\ Room(u, c, r, n)'
        BY <3>0, <3>1, <4>1 DEF Posts, Room, views
      <4> QED
        BY <2>c, <4>1, <4>2
    <3>2. CASE shown = Limit /\ u = GUI
      <4>1. /\ UNCHANGED <<posted, early, traced>> /\ shown' = 0
        BY <2>1, <3>2, <1>d DEF CountTerminal, Full, Signal, Slot
      <4>2. \A t \in Thread : Posts(t, 0, 0, 0, 0)' /\ Room(t, 0, 0, 0)'
        <5>1. Posts(u, 0, 0, 0, 0)' /\ Room(u, 0, 0, 0)'
          BY <3>0, <4>1, <1>d DEF Posts, Room
        <5> QED
          BY <2>b, <5>1
      <4>3. Counted(0, 0, 0, 0)'
        BY <1>c, <1>d, <3>0, <4>1, <4>2 DEF Counted
      <4> QED
        BY <1>b, <4>1, <4>3
    <3>3. CASE shown = Limit /\ u # GUI
      <4>1. UNCHANGED <<early, shown, traced>> /\ posted' = Append(posted, "clear")
        BY <2>1, <3>3, <1>d DEF CountTerminal, Full, Signal
      <4>2. \A t \in Thread : Posts(t, 1, 0, 0, 0)' /\ Room(t, 1, 0, 0)'
        <5>1. Posts(u, 1, 0, 0, 0)' /\ Room(u, 1, 0, 0)'
          BY <3>0, <3>3, <4>1, <1>d DEF Posts, Room
        <5> QED
          BY <2>b, <5>1
      <4>3. Queue(posted', 1, 0, 0, 0)
        BY <1>c, <1>d, <3>0, <4>1, QueueAppend DEF ViewSignal
      <4>4. Counted(1, 0, 0, 0)'
        BY <1>c, <1>d, <3>0, <3>3, <4>1, <4>2, <4>3 DEF Counted
      <4> QED
        BY <1>b, <4>1, <4>4
    <3> QED
      BY <1>c, <1>d, <3>1, <3>2, <3>3
  <2>2. CASE CountTrace(u)
    <3>0. /\ pc[u] = "countTrace" /\ pc' = [pc EXCEPT ![u] = "add"] /\ at' = at
          /\ r = 0 /\ a = 0 /\ n = 0 /\ pc'[u] = "add"
      BY <2>2, <2>d, <1>d DEF CountTrace, At, Posts
    <3>1. CASE traced < Limit
      <4>1. UNCHANGED views
        BY <2>2, <3>1, <1>d DEF CountTrace, Full
      <4>2. Posts(u, c, r, a, n)' /\ Room(u, c, r, n)'
        BY <2>d, <3>0, <3>1, <4>1 DEF Posts, Room, views
      <4> QED
        BY <2>c, <4>1, <4>2
    <3>2. CASE traced >= Limit /\ u = GUI
      <4>1. /\ UNCHANGED <<posted, early, shown>> /\ traced' = 0
        BY <2>2, <3>2, <1>d DEF CountTrace, Full, Signal, Slot
      <4>2. \A t \in Thread : Posts(t, c, r, a, n)' /\ Room(t, c, r, n)'
        <5>1. Posts(u, c, r, a, n)' /\ Room(u, c, r, n)'
          BY <2>d, <3>0, <3>2, <4>1, <1>d DEF Posts, Room
        <5> QED
          BY <2>b, <5>1
      <4>3. Counted(c, r, a, n)'
        BY <1>c, <1>d, <3>0, <4>1, <4>2 DEF Counted
      <4> QED
        BY <1>b, <4>1, <4>3
    <3>3. CASE traced >= Limit /\ u # GUI
      <4>1. UNCHANGED <<early, shown, traced>> /\ posted' = Append(posted, "clearTrace")
        BY <2>2, <3>3, <1>d DEF CountTrace, Full, Signal
      <4>2. \A t \in Thread : Posts(t, c, 1, 0, 0)' /\ Room(t, c, 1, 0)'
        <5>1. Posts(u, c, 1, 0, 0)' /\ Room(u, c, 1, 0)'
          BY <2>d, <3>0, <3>3, <4>1, <1>d DEF Posts, Room
        <5> QED
          BY <2>b, <5>1
      <4>3. Queue(posted', c, 1, 0, 0)
        BY <1>c, <1>d, <3>0, <4>1, QueueAppend DEF ViewSignal
      <4>4. Counted(c, 1, 0, 0)'
        BY <1>c, <1>d, <3>0, <3>3, <4>1, <4>2, <4>3 DEF Counted
      <4> QED
        BY <1>b, <4>1, <4>4
    <3> QED
      BY <1>d, <3>1, <3>2, <3>3
  <2>3. CASE AddToTerminalView(u)
    <3>0. /\ pc[u] = "add" /\ pc' = [pc EXCEPT ![u] = "putLog"] /\ at' = at
          /\ a = 0 /\ n = 0 /\ pc'[u] = "putLog"
      BY <2>3, <2>d, <1>d DEF AddToTerminalView, At, Posts
    <3>1. CASE u = GUI
      <4>1. UNCHANGED <<posted, early, traced>> /\ shown' = shown + 1
        BY <2>3, <3>1, <1>d DEF AddToTerminalView, Signal, Slot
      <4>2. c = 0 /\ r = 0 /\ shown < Limit
        BY <1>e, <2>d, <3>0, <3>1 DEF Room
      <4>3. \A t \in Thread : Posts(t, c, r, a, n)' /\ Room(t, c, r, n)'
        <5>1. Posts(u, c, r, a, n)' /\ Room(u, c, r, n)'
          BY <2>d, <3>0, <4>1, <4>2, <1>d DEF Posts, Room
        <5> QED
          BY <2>b, <5>1
      <4>4. Counted(c, r, a, n)'
        BY <1>c, <1>d, <3>0, <4>1, <4>2, <4>3 DEF Counted
      <4> QED
        BY <1>b, <4>1, <4>4
    <3>2. CASE u # GUI
      <4>1. UNCHANGED <<early, shown, traced>> /\ posted' = Append(posted, "add")
        BY <2>3, <3>2 DEF AddToTerminalView, Signal
      <4>2. \A t \in Thread : Posts(t, c, r, 1, 0)' /\ Room(t, c, r, 0)'
        <5>1. Posts(u, c, r, 1, 0)' /\ Room(u, c, r, 0)'
          BY <2>d, <3>0, <3>2, <4>1, <1>d DEF Posts, Room
        <5> QED
          BY <2>b, <5>1
      <4>3. Queue(posted', c, r, 1, 0)
        BY <1>c, <1>d, <3>0, <4>1, QueueAppend DEF ViewSignal
      <4>4. c = 0 => shown < Limit
        BY <2>d, <3>0 DEF Room
      <4>5. Counted(c, r, 1, 0)'
        BY <1>c, <1>d, <3>0, <4>1, <4>2, <4>3, <4>4 DEF Counted
      <4> QED
        BY <1>b, <4>1, <4>5
    <3> QED
      BY <3>1, <3>2
  <2>4. CASE PutLog(u)
    <3>1. /\ pc[u] = "putLog" /\ pc'[u] \in {"write", "filter"} /\ at'[u] = 1
          /\ UNCHANGED views
      BY <2>4, <1>d DEF PutLog, At
    <3>2. Posts(u, c, r, a, n)' /\ Room(u, c, r, n)'
      BY <1>d, <2>d, <3>1 DEF Posts, Room, views
    <3> QED
      BY <2>c, <3>1, <3>2
  <2>5. CASE Write(u) \/ TryMatch(u)
    <3>1. /\ pc[u] \in {"write", "filter"} /\ pc'[u] \in {"filter", "search"}
          /\ at'[u] \in {at[u], at[u] + 1} /\ UNCHANGED views
      BY <2>5, <1>d DEF Write, TryMatch, At
    <3>2. Posts(u, c, r, a, n)' /\ Room(u, c, r, n)'
      BY <1>d, <2>d, <3>1 DEF Posts, Room, views
    <3> QED
      BY <2>c, <3>1, <3>2
  <2>6. CASE Search(u)
    <3>0. /\ pc[u] = "search" /\ pc'[u] = "filter" /\ at'[u] = at[u] + 1
          /\ at[u] \in 1 .. Filters
      BY <2>6, <1>d DEF Search, At, TypeOK
    <3>1. CASE UNCHANGED views
      <4>1. Posts(u, c, r, a, n)' /\ Room(u, c, r, n)'
        BY SMTT(30), <1>d, <2>d, <3>0, <3>1 DEF Posts, Room, views
      <4> QED
        BY <2>c, <3>1, <4>1
    <3>2. CASE Signal(u, "trace") /\ u = GUI
      <4>1. UNCHANGED <<posted, early, shown>> /\ traced' = traced + 1
        BY <3>2, <1>d DEF Signal, Slot
      <4>2. c = 0 /\ r = 0 /\ a = 0 /\ n = 0
        BY <1>e, <3>0, <3>2
      <4>3. traced + 1 <= Limit - 1 + Filters /\ traced' <= Limit - 1 + at'[u] - 1
        BY SMTT(30), <2>d, <3>0, <4>1, <4>2, <1>d DEF Room
      <4>4. \A t \in Thread : Posts(t, c, r, a, n)' /\ Room(t, c, r, n)'
        <5>1. Posts(u, c, r, a, n)' /\ Room(u, c, r, n)'
          BY <2>d, <3>0, <4>1, <4>2, <4>3, <1>d DEF Posts, Room
        <5> QED
          BY <2>b, <5>1
      <4>5. Counted(c, r, a, n)'
        BY <1>c, <1>d, <4>1, <4>2, <4>3, <4>4 DEF Counted
      <4> QED
        BY <1>b, <4>1, <4>5
    <3>3. CASE Signal(u, "trace") /\ u # GUI
      <4>1. UNCHANGED <<early, shown, traced>> /\ posted' = Append(posted, "trace")
        BY <3>3 DEF Signal
      <4>2. /\ n + 1 \in Nat /\ n + 1 <= at[u] /\ n + 1 <= Filters
            /\ r = 0 => /\ traced + (n + 1) <= Limit - 1 + at[u]
                        /\ traced + (n + 1) <= Limit - 1 + Filters
        BY SMTT(30), <2>d, <3>0, <1>d DEF Posts, Room
      <4>3. \A t \in Thread : Posts(t, c, r, a, n + 1)' /\ Room(t, c, r, n + 1)'
        <5>1. Posts(u, c, r, a, n + 1)' /\ Room(u, c, r, n + 1)'
          <6>1. pc'[u] = "filter" /\ at'[u] - 1 = at[u] /\ traced' = traced /\ u # GUI
            BY <3>0, <3>3, <4>1
          <6>2. Posts(u, c, r, a, n + 1)'
            BY <4>2, <6>1 DEF Posts
          <6>3. Room(u, c, r, n + 1)'
            BY <4>2, <6>1, <1>d DEF Room
          <6> QED
            BY <6>2, <6>3
        <5> QED
          BY <2>b, <4>2, <5>1
      <4>4. Queue(posted', c, r, a, n + 1)
        BY <1>c, <1>d, <4>1, QueueAppend DEF ViewSignal
      <4>5. Counted(c, r, a, n + 1)'
        BY <1>c, <1>d, <4>1, <4>2, <4>3, <4>4 DEF Counted
      <4> QED
        BY <1>b, <4>1, <4>2, <4>5
    <3> QED
      BY <2>6, <3>1, <3>2, <3>3 DEF Search
  <2>7. CASE LineAdded(u)
    <3>1. pc'[u] = "idle" /\ UNCHANGED views
      BY <2>7, <1>d DEF LineAdded, At
    <3>2. Posts(u, c, r, a, n)' /\ Room(u, c, r, n)'
      BY <3>1 DEF Posts, Room
    <3> QED
      BY <2>c, <3>1, <3>2
  <2> HIDE DEF Goal
  <2> QED
    BY <1>4, <2>1, <2>2, <2>3, <2>4, <2>5, <2>6, <2>7 DEF AddLine
<1>5. ASSUME Deliver PROVE Goal
  <2>0. /\ posted # <<>> /\ posted' = Tail(posted) /\ Slot(Head(posted))
        /\ UNCHANGED <<pc, at>> /\ pc[GUI] = "idle"
        /\ early' = (early \/ (Head(posted) = "clear" /\ shown \in 1 .. Limit - 1)
                           \/ (Head(posted) = "clearTrace" /\ traced \in 1 .. Limit - 1))
    BY <1>5 DEF Deliver, Handles, place
  <2>1. CASE c = 1 /\ Head(posted) = "clear" /\ Queue(posted', 0, r, a, n)
    <3>1. shown' = 0 /\ traced' = traced
      BY <1>d, <2>0, <2>1 DEF Slot
    <3>2. ~early'
      <4>1. shown \notin 1 .. Limit - 1 /\ Head(posted) # "clearTrace"
        BY <1>c, <1>d, <2>1
      <4> QED
        BY <1>b, <2>0, <4>1, Zenon
    <3>3. \A t \in Thread : Posts(t, 0, r, a, n)' /\ Room(t, 0, r, n)'
      BY <1>c, <1>d, <2>0, <3>1 DEF Posts, Room
    <3>4. Counted(0, r, a, n)'
      BY <1>c, <1>d, <2>1, <3>1, <3>3 DEF Counted
    <3> QED
      BY <3>2, <3>4
  <2>2. CASE c = 0 /\ r = 1 /\ Head(posted) = "clearTrace" /\ Queue(posted', 0, 0, a, n)
    <3>1. shown' = shown /\ traced' = 0
      BY <1>d, <2>0, <2>2 DEF Slot
    <3>2. ~early'
      <4>1. traced \notin 1 .. Limit - 1 /\ Head(posted) # "clear"
        BY <1>c, <1>d, <2>2
      <4> QED
        BY <1>b, <2>0, <4>1, Zenon
    <3>3. \A t \in Thread : Posts(t, 0, 0, a, n)' /\ Room(t, 0, 0, n)'
      <4> TAKE t \in Thread
      <4>1. Posts(t, c, r, a, n) /\ Room(t, c, r, n) /\ at[t] \in Nat
        BY <1>c, <1>d
      <4>2. Posts(t, 0, 0, a, n)'
        BY <2>0, <2>2, <4>1 DEF Posts
      <4>3. Room(t, 0, 0, n)'
        BY <1>d, <2>0, <2>2, <3>1, <4>1 DEF Posts, Room
      <4> QED
        BY <4>2, <4>3
    <3>4. Counted(0, 0, a, n)'
      BY <1>c, <1>d, <2>2, <3>1, <3>3 DEF Counted
    <3> QED
      BY <3>2, <3>4
  <2>3. CASE c = 0 /\ r = 0 /\ a = 1 /\ Head(posted) = "add" /\ Queue(posted', 0, 0, 0, n)
    <3>1. shown' = shown + 1 /\ traced' = traced /\ shown < Limit
      BY <1>c, <1>d, <2>0, <2>3 DEF Slot
    <3>2. ~early'
      <4>1. Head(posted) # "clear" /\ Head(posted) # "clearTrace"
        BY <2>3
      <4> QED
        BY <1>b, <2>0, <4>1, Zenon
    <3>3. \A t \in Thread : Posts(t, 0, 0, 0, n)' /\ Room(t, 0, 0, n)'
      BY <1>c, <1>d, <2>0, <2>3, <3>1 DEF Posts, Room
    <3>4. Counted(0, 0, 0, n)'
      BY <1>c, <1>d, <2>3, <3>1, <3>3 DEF Counted
    <3> QED
      BY <3>2, <3>4
  <2>4. CASE /\ c = 0 /\ r = 0 /\ a = 0 /\ n > 0
             /\ Head(posted) = "trace" /\ Queue(posted', 0, 0, 0, n - 1)
    <3>1. shown' = shown /\ traced' = traced + 1
      BY <1>d, <2>0, <2>4 DEF Slot
    <3>2. ~early'
      <4>1. Head(posted) # "clear" /\ Head(posted) # "clearTrace"
        BY <2>4
      <4> QED
        BY <1>b, <2>0, <4>1, Zenon
    <3>3. \A t \in Thread : Posts(t, 0, 0, 0, n - 1)' /\ Room(t, 0, 0, n - 1)'
      <4> TAKE t \in Thread
      <4>1. Posts(t, c, r, a, n) /\ Room(t, c, r, n) /\ at[t] \in Nat
        BY <1>c, <1>d
      <4>2. Posts(t, 0, 0, 0, n - 1)'
        BY <2>0, <2>4, <4>1 DEF Posts
      <4>3. Room(t, 0, 0, n - 1)'
        BY <1>d, <2>0, <2>4, <3>1, <4>1 DEF Posts, Room
      <4> QED
        BY <4>2, <4>3
    <3>4. n - 1 \in Nat /\ Counted(0, 0, 0, n - 1)'
      BY <1>c, <1>d, <2>4, <3>1, <3>3 DEF Counted
    <3> QED
      BY <3>2, <3>4
  <2> HIDE DEF Goal
  <2> QED
    BY <1>c, <1>d, <2>0, <2>1, <2>2, <2>3, <2>4, QueueTail
<1>6. ASSUME ClearTerminal \/ ClearTrace PROVE Goal
  <2>1. /\ UNCHANGED <<pc, at, posted, early>>
        /\ (shown' = 0 /\ traced' = traced) \/ (shown' = shown /\ traced' = 0)
    <3>1. Click
      BY <1>6, Zenon DEF ClearTerminal, ClearTrace
    <3>2. (shown' = 0 /\ traced' = traced) \/ (shown' = shown /\ traced' = 0)
      BY <1>6, Zenon DEF ClearTerminal, ClearTrace
    <3> QED
      BY <3>1, <3>2, Zenon DEF Click, place
  <2>2. \A t \in Thread : Posts(t, c, r, a, n)' /\ Room(t, c, r, n)'
    <3> TAKE t \in Thread
    <3>1. Posts(t, c, r, a, n) /\ Room(t, c, r, n) /\ at[t] \in Nat
      BY <1>c, <1>d
    <3>2. Posts(t, c, r, a, n)'
      BY <2>1, <3>1 DEF Posts
    <3>3. Room(t, c, r, n)'
      BY <1>d, <2>1, <3>1 DEF Posts, Room
    <3> QED
      BY <3>2, <3>3
  <2>3. Counted(c, r, a, n)'
    BY <1>c, <1>d, <2>1, <2>2 DEF Counted
  <2> QED
    BY <1>b, <2>1, <2>3
<1>7. ASSUME pc' = pc, at' = at, posted' = posted, shown' = shown, traced' = traced,
             early' = early
      PROVE  Goal
  <2>1. UNCHANGED <<pc, at, views>>
    BY <1>7 DEF views
  <2> HIDE DEF Goal
  <2> QED
    BY <1>g, <2>1
<1> HIDE DEF Goal
<1>8. ASSUME NEW f \in 1 .. Filters, FilterClicked(f) \/ FilterChanged(f) PROVE Goal
  BY <1>7, <1>8, Zenon DEF FilterClicked, FilterChanged, Click, place
<1>9. ASSUME Logging PROVE Goal
  BY <1>7, <1>9, Zenon DEF Logging, Click, place
<1>10. ASSUME DropFilters \/ DropPorts PROVE Goal
  BY <1>7, <1>10, Zenon DEF DropFilters, DropPorts, place, views
<1>11. ASSUME UNCHANGED vars PROVE Goal
  BY <1>7, <1>11, Zenon DEF vars, place, views
<1>12. Goal
  BY <1>2, <1>3, <1>4, <1>5, <1>6, <1>8, <1>9, <1>10, <1>11, Zenon DEF Next
<1> QED
  BY <1>12 DEF Goal

\* For any number of drivers and filters and any limit: if also the GUI thread has
\* caught up whenever a line begins, a view never outgrows the limit, and what the
\* limit clears was full (MainApplication.cpp:249-263).
THEOREM LimitsHold == Spec => []LimitsKept
<1>1. Init => LimitsInv
  BY InitLimits
<1>2. IInv /\ LimitsInv /\ [Next]_vars => LimitsInv'
  BY NextLimits DEF IInv
<1>3. LimitsInv => LimitsKept
  BY DEF LimitsInv, LimitsKept, Alike, Counted
<1> QED BY <1>1, <1>2, <1>3, Invariance, PTL DEF Spec
=============================================================================
