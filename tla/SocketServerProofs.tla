------------------------- MODULE SocketServerProofs -------------------------
(***************************************************************************)
(* Proofs about the TCP server (SocketServer.cpp, ClientHandler.cpp) for   *)
(* any number of clients, writers, descriptors, lines and starts.          *)
(*                                                                         *)
(* One inductive invariant carries the three theorems at the end.  Its     *)
(* parts say where threads can be together (PlacesInv), who holds which    *)
(* mutex (LocksInv), that a listed handler has an open descriptor of its   *)
(* own until it was joined (HandlersInv, NewInv), what the worker serves   *)
(* (ServedInv, QueueInv), and, when threads start in time, that the        *)
(* worker closes the handler its event came from (PromptInv) and that      *)
(* what was told of a client is what happened to it (TruthInv).  A lemma   *)
(* per action shows that the action keeps it.                              *)
(***************************************************************************)
EXTENDS SocketServer, TLAPS

---------------------------------------------------------------------------
(* What holds besides the types.                                           *)

\* start() and stop() have an order: the listening thread ends before the
\* worker, that before the handlers; handlers are left only while one of the
\* two could still run.
PlacesInv ==
    /\ pc["user"] \in UserSteps \ {"idle", "joinListen"} => pc["listen"] = "off"
    /\ pc["user"] \in {"closeAll", "closeEach", "joinEach", "tellEach"} => pc["work"] = "off"
    /\ pc["user"] = "idle" /\ pc["listen"] # "off" => state["listen"] = "RUNNING"
    /\ pc["user"] \in {"idle", "joinListen"} /\ pc["work"] # "off" => state["work"] = "RUNNING"
    /\ pc["user"] \in {"joinEach", "tellEach"} => at <= Len(m_handlers)
    /\ pc["user"] = "idle" /\ pc["listen"] = "off" /\ pc["work"] = "off" => m_handlers = <<>>
    /\ env.prompt => pc["listen"] # "joinNew"

\* Where a thread holds the handlers' mutex.
Holding == {"closeEach", "joinEach", "tellEach", "create", "await", "joinNew",
            "send", "find", "join", "erase"}

LocksInv ==
    /\ ~env.front => lock["log"] = Nobody /\ \A w \in Writers : pc[w] # "write"
    /\ lock["listeners"] = IF pc["work"] \in {"reply", "send", "return"} THEN "work" ELSE Nobody
    /\ lock["client"] = IF pc["work"] \in {"off", "wait"} THEN Nobody ELSE "work"
    /\ \A t \in Threads : pc[t] \in Holding <=> lock["handlers"] = t

\* The handler at this place has been joined and its descriptor closed.
ClosedAt(i) ==
    \/ pc["work"] = "erase" /\ m_handlers[i] = subject["work"]
    \/ pc["user"] \in {"closeEach", "joinEach"} /\ i < at
    \/ pc["user"] = "tellEach" /\ i <= at

Fresh(c) ==
    /\ pc[c] = "off" /\ ~Listed(c) /\ told[c] = <<>>
    /\ \A i \in DOMAIN m_client_events : m_client_events[i].from # c

HandlersInv ==
    /\ \A i, j \in DOMAIN m_handlers : m_handlers[i] = m_handlers[j] => i = j
    /\ \A c \in Conns : pc[c] # "off" => Listed(c)
    /\ \A i \in DOMAIN m_handlers :
           IF ClosedAt(i) THEN pc[m_handlers[i]] = "off"
                          ELSE kernel[fd[m_handlers[i]]] = m_handlers[i]
    /\ pc["work"] \in {"join", "erase"} => Listed(subject["work"])

New == pc["listen"] \in {"insert", "create"}

NewInv ==
    /\ \A c \in Conns : IF peer[c] = "absent" THEN Fresh(c) ELSE fd[c] \in Fd
    /\ pc["listen"] \in {"insert", "create", "await", "joinNew", "greet"} =>
           subject["listen"] \in Conns /\ peer[subject["listen"]] # "absent"
    /\ New => Fresh(subject["listen"])
              /\ kernel[fd[subject["listen"]]] = subject["listen"]
    /\ pc["listen"] \in {"await", "joinNew"} =>
           m_handlers # <<>> /\ m_handlers[Len(m_handlers)] = subject["listen"]
    /\ \A f \in Fd : kernel[f] # Nobody =>
           /\ fd[kernel[f]] = f
           /\ \/ New /\ subject["listen"] = kernel[f]
              \/ \E i \in DOMAIN m_handlers : m_handlers[i] = kernel[f] /\ ~ClosedAt(i)

Telling == {"tell", "reply", "send", "return"}

ServedInv ==
    pc["work"] \notin {"off", "wait"} =>
        /\ m_client_events # <<>>
        /\ Head(m_client_events).kind = "data" <=> pc["work"] \in Telling

QueueInv ==
    \A i \in DOMAIN m_client_events :
        /\ m_client_events[i].id = fd[m_client_events[i].from]
        /\ m_client_events[i].kind = "gone" =>
               /\ pc[m_client_events[i].from] \in {"leave", "off"}
               /\ \A j \in DOMAIN m_client_events :
                      j > i => m_client_events[j].from # m_client_events[i].from

\* With threads that start in time, a worker that runs serves handlers.
PromptInv ==
    env.prompt =>
        /\ pc["work"] \in {"join", "erase"} =>
               subject["work"] = Head(m_client_events).from
        /\ pc["work"] # "off" =>
               \A i \in DOMAIN m_client_events :
                   \/ Listed(m_client_events[i].from)
                   \/ i = 1 /\ pc["work"] = "tellGone"
        /\ pc["work"] = "tellGone" => ~Listed(Head(m_client_events).from)

Greeted(c) ==
    /\ peer[c] # "absent"
    /\ ~(pc["listen"] \in {"insert", "create", "await", "greet"} /\ subject["listen"] = c)

Left(c) ==
    /\ peer[c] # "absent"
    /\ ~(New /\ subject["listen"] = c)
    /\ \A i \in DOMAIN m_handlers : m_handlers[i] = c =>
           pc["user"] \in {"closeEach", "joinEach", "tellEach"} /\ i < at
    /\ ~(pc["work"] = "tellGone" /\ Head(m_client_events).from = c)

Once(S, yes) == IF yes THEN \E i \in S : S = {i} ELSE S = {}

\* What has been told of a client is what happened to it, and in order.
Account(c) ==
    /\ Once(Heard(c, "hello"), Greeted(c))
    /\ Once(Heard(c, "gone"), Left(c))
    /\ \A i \in Heard(c, "gone") :
           \A j \in DOMAIN told[c] : j > i => told[c][j] = "hello"

TruthInv == PromptInv /\ (env.prompt => \A c \in Conns : Account(c))

---------------------------------------------------------------------------
\* Where each thread can be, and that no other thread has a place.
PcType ==
    /\ pc \in [Threads -> UserSteps \union ListenSteps \union WorkSteps
                              \union HandlerSteps \union WriterSteps]
    /\ pc["user"] \in UserSteps
    /\ pc["listen"] \in ListenSteps
    /\ pc["work"] \in WorkSteps
    /\ \A c \in Conns : pc[c] \in HandlerSteps
    /\ \A w \in Writers : pc[w] \in WriterSteps

Inv == /\ TypeOK /\ PcType /\ PlacesInv /\ LocksInv /\ HandlersInv /\ NewInv
       /\ ServedInv /\ QueueInv /\ TruthInv

\* One thread moves, the others stay where they are.
HandlersStay == \A c \in Conns : pc'[c] = pc[c]
WritersStay == \A w \in Writers : pc'[w] = pc[w]

UserMoved(r, s) ==
    /\ pc["user"] = r /\ pc'["user"] = s
    /\ pc'["listen"] = pc["listen"] /\ pc'["work"] = pc["work"]
    /\ HandlersStay /\ WritersStay

ListenMoved(r, s) ==
    /\ pc["listen"] = r /\ pc'["listen"] = s
    /\ pc'["user"] = pc["user"] /\ pc'["work"] = pc["work"]
    /\ HandlersStay /\ WritersStay

WorkMoved(r, s) ==
    /\ pc["work"] = r /\ pc'["work"] = s
    /\ pc'["user"] = pc["user"] /\ pc'["listen"] = pc["listen"]
    /\ HandlersStay /\ WritersStay

HandlerMoved(c, r, s) ==
    /\ pc[c] = r /\ pc'[c] = s
    /\ pc'["user"] = pc["user"] /\ pc'["listen"] = pc["listen"]
    /\ pc'["work"] = pc["work"]
    /\ \A d \in Conns : d # c => pc'[d] = pc[d]
    /\ WritersStay

WriterMoved(w, r, s) ==
    /\ pc[w] = r /\ pc'[w] = s
    /\ pc'["user"] = pc["user"] /\ pc'["listen"] = pc["listen"]
    /\ pc'["work"] = pc["work"]
    /\ \A v \in Writers : v # w => pc'[v] = pc[v]
    /\ HandlersStay

USE ConstantsAssumption

LEMMA ThreadsDiffer ==
    /\ "user" \in Threads /\ "listen" \in Threads /\ "work" \in Threads
    /\ Conns \subseteq Threads /\ Writers \subseteq Threads
    /\ \A c \in Conns : c \notin {"user", "listen", "work", Nobody} /\ c \notin Writers
    /\ \A w \in Writers : w \notin {"user", "listen", "work", Nobody}
    /\ Nobody \notin Threads
<1>1. /\ "user" \in Threads /\ "listen" \in Threads /\ "work" \in Threads
      /\ Conns \subseteq Threads /\ Writers \subseteq Threads
  BY DEF Threads
<1>2. \A t \in {"user", "listen", "work", Nobody} : t \notin Conns /\ t \notin Writers
  BY DEF Nobody
<1>3. \A c \in Conns : c \notin Writers
  OBVIOUS
<1>4. Nobody \notin Threads
  BY <1>2 DEF Threads, Nobody
<1> QED
  BY <1>1, <1>2, <1>3, <1>4

LEMMA UserMoves ==
    ASSUME PcType, NEW r, NEW s \in UserSteps, pc["user"] = r, Goto("user", s)
    PROVE  UserMoved(r, s) /\ PcType'
<1>1. pc' = [pc EXCEPT !["user"] = s]
  BY DEF Goto
<1>2. UserMoved(r, s)
  BY <1>1, ThreadsDiffer DEF PcType, UserMoved, HandlersStay, WritersStay
<1> QED
  BY <1>1, <1>2 DEF PcType, UserMoved, HandlersStay, WritersStay

LEMMA ListenMoves ==
    ASSUME PcType, NEW r, NEW s \in ListenSteps, pc["listen"] = r, Goto("listen", s)
    PROVE  ListenMoved(r, s) /\ PcType'
<1>1. pc' = [pc EXCEPT !["listen"] = s]
  BY DEF Goto
<1>2. ListenMoved(r, s)
  BY <1>1, ThreadsDiffer DEF PcType, ListenMoved, HandlersStay, WritersStay
<1> QED
  BY <1>1, <1>2 DEF PcType, ListenMoved, HandlersStay, WritersStay

LEMMA WorkMoves ==
    ASSUME PcType, NEW r, NEW s \in WorkSteps, pc["work"] = r, Goto("work", s)
    PROVE  WorkMoved(r, s) /\ PcType'
<1>1. pc' = [pc EXCEPT !["work"] = s]
  BY DEF Goto
<1>2. WorkMoved(r, s)
  BY <1>1, ThreadsDiffer DEF PcType, WorkMoved, HandlersStay, WritersStay
<1> QED
  BY <1>1, <1>2 DEF PcType, WorkMoved, HandlersStay, WritersStay

LEMMA HandlerMoves ==
    ASSUME PcType, NEW c \in Conns, NEW r, NEW s \in HandlerSteps, pc[c] = r, Goto(c, s)
    PROVE  HandlerMoved(c, r, s) /\ PcType'
<1>1. pc' = [pc EXCEPT ![c] = s]
  BY DEF Goto
<1>2. HandlerMoved(c, r, s)
  BY <1>1, ThreadsDiffer DEF PcType, HandlerMoved, WritersStay
<1> QED
  BY <1>1, <1>2 DEF PcType, HandlerMoved, WritersStay

LEMMA WriterMoves ==
    ASSUME PcType, NEW w \in Writers, NEW r, NEW s \in WriterSteps, pc[w] = r, Goto(w, s)
    PROVE  WriterMoved(w, r, s) /\ PcType'
<1>1. pc' = [pc EXCEPT ![w] = s]
  BY DEF Goto
<1>2. WriterMoved(w, r, s)
  BY <1>1, ThreadsDiffer DEF PcType, WriterMoved, HandlersStay
<1> QED
  BY <1>1, <1>2 DEF PcType, WriterMoved, HandlersStay

---------------------------------------------------------------------------
LEMMA Sequences ==
    ASSUME TypeOK
    PROVE  /\ Len(m_handlers) \in Nat /\ DOMAIN m_handlers = 1 .. Len(m_handlers)
           /\ \A i \in DOMAIN m_handlers : m_handlers[i] \in Conns
           /\ Len(m_client_events) \in Nat
           /\ DOMAIN m_client_events = 1 .. Len(m_client_events)
           /\ \A i \in DOMAIN m_client_events :
                  /\ m_client_events[i] \in Event /\ m_client_events[i].from \in Conns
                  /\ m_client_events[i].kind \in {"data", "gone"}
                  /\ m_client_events[i].id \in Fd
<1>1. m_handlers \in Seq(Conns) /\ m_client_events \in Seq(Event)
  BY DEF TypeOK
<1>2. \A e \in Event : e.from \in Conns /\ e.kind \in {"data", "gone"} /\ e.id \in Fd
  BY DEF Event
<1> QED
  BY <1>1, <1>2

\* A handler that is listed, or whose thread runs, has a descriptor.
LEMMA HandlerHasFd ==
    ASSUME TypeOK, HandlersInv, NewInv, NEW c \in Conns, pc[c] # "off" \/ Listed(c)
    PROVE  fd[c] \in Fd /\ ~Fresh(c) /\ peer[c] # "absent" /\ Listed(c)
<1>1. Listed(c)
  BY DEF HandlersInv
<1> QED
  BY <1>1 DEF NewInv, Fresh

LEMMA FreshKept ==
    ASSUME NEW c, Fresh(c), pc'[c] = pc[c], told'[c] = told[c], Listed(c)' => Listed(c),
           \A i \in DOMAIN m_client_events' :
               \/ m_client_events'[i].from # c
               \/ \E j \in DOMAIN m_client_events : m_client_events'[i] = m_client_events[j]
    PROVE  Fresh(c)'
BY DEF Fresh

\* A sequence without the element at one place.
Without(s, k) == SubSeq(s, 1, k - 1) \o SubSeq(s, k + 1, Len(s))

LEMMA WithoutOne ==
    ASSUME NEW S, NEW s \in Seq(S), NEW k \in 1 .. Len(s)
    PROVE  /\ Without(s, k) \in Seq(S) /\ Len(Without(s, k)) = Len(s) - 1
           /\ \A i \in 1 .. Len(s) - 1 :
                  Without(s, k)[i] = IF i < k THEN s[i] ELSE s[i + 1]
<1> DEFINE a == SubSeq(s, 1, k - 1)
           b == SubSeq(s, k + 1, Len(s))
<1>1. /\ a \in Seq(S) /\ Len(a) = k - 1
      /\ \A i \in 1 .. k - 1 : a[i] = s[i]
  OBVIOUS
<1>2. /\ b \in Seq(S) /\ Len(b) = Len(s) - k
      /\ \A i \in 1 .. Len(s) - k : b[i] = s[k + i]
  OBVIOUS
<1>3. Len(s) \in Nat /\ k \in Nat
  OBVIOUS
<1> HIDE DEF a, b
<1>4. /\ a \o b \in Seq(S) /\ Len(a \o b) = Len(s) - 1
      /\ \A i \in 1 .. Len(s) - 1 : (a \o b)[i] = IF i < k THEN a[i] ELSE b[i - (k - 1)]
  <2>0. a \in Seq(S) /\ b \in Seq(S)
    BY <1>1, <1>2
  <2>1. a \o b \in Seq(S) /\ Len(a \o b) = Len(a) + Len(b)
    BY <2>0
  <2>2. \A i \in 1 .. Len(a) + Len(b) : (a \o b)[i] = IF i <= Len(a) THEN a[i] ELSE b[i - Len(a)]
    BY <2>0
  <2>3. Len(a) + Len(b) = Len(s) - 1 /\ \A i \in 1 .. Len(s) - 1 : i <= Len(a) <=> i < k
    BY <1>1, <1>2, <1>3
  <2> QED
    BY <1>1, <2>1, <2>2, <2>3
<1>5. \A i \in 1 .. Len(s) - 1 : (a \o b)[i] = IF i < k THEN s[i] ELSE s[i + 1]
  <2> TAKE i \in 1 .. Len(s) - 1
  <2>1. CASE i < k
    BY <1>1, <1>3, <1>4, <2>1
  <2>2. CASE ~(i < k)
    <3>1. i - (k - 1) \in 1 .. Len(s) - k /\ k + (i - (k - 1)) = i + 1
      BY <1>3, <2>2
    <3> QED
      BY <1>2, <1>4, <2>2, <3>1
  <2> QED
    BY <2>1, <2>2
<1> QED
  BY <1>4, <1>5 DEF a, b, Without

\* The queue after a step that has nothing to do with it.
LEMMA QueueKept ==
    ASSUME TypeOK, QueueInv, m_client_events' = m_client_events, fd' = fd,
           \A c \in Conns : pc[c] \in {"leave", "off"} => pc'[c] \in {"leave", "off"}
    PROVE  QueueInv'
<1>1. \A i \in DOMAIN m_client_events : m_client_events[i].from \in Conns
  BY Sequences
<1> QED
  BY <1>1 DEF QueueInv

\* The same for the handlers.
LEMMA HandlersKept ==
    ASSUME TypeOK, HandlersInv, m_handlers' = m_handlers, fd' = fd, kernel' = kernel,
           subject'["work"] = subject["work"],
           \A c \in Conns : pc'[c] = "off" <=> pc[c] = "off",
           \A i \in DOMAIN m_handlers : ClosedAt(i)' <=> ClosedAt(i),
           pc'["work"] \in {"join", "erase"} => pc["work"] \in {"join", "erase"}
    PROVE  HandlersInv'
<1>1. \A i \in DOMAIN m_handlers : m_handlers[i] \in Conns
  BY Sequences
<1>2. \A c : Listed(c)' <=> Listed(c)
  BY DEF Listed
<1> HIDE DEF TypeOK
<1> QED
  BY <1>1, <1>2 DEF HandlersInv

\* A thread takes or gives back the mutex of the handlers.
SameSide(t, r, s) ==
    /\ t = "work" => /\ r \in {"reply", "send", "return"} <=> s \in {"reply", "send", "return"}
                     /\ r \in {"off", "wait"} <=> s \in {"off", "wait"}
    /\ t \in Writers => s # "write"

LEMMA HandlersTaken ==
    ASSUME TypeOK, LocksInv, NEW t \in Threads, Take("handlers", t), env' = env,
           pc[t] \notin Holding, pc'[t] \in Holding, SameSide(t, pc[t], pc'[t]),
           \A u \in Threads : u # t => pc'[u] = pc[u]
    PROVE  LocksInv'
<1>1. /\ lock["handlers"] = Nobody /\ lock'["handlers"] = t
      /\ \A m \in {"log", "listeners", "client"} : lock'[m] = lock[m]
  BY DEF TypeOK, Take, Mutexes
<1>2. \A u \in Threads : pc'[u] \in Holding <=> lock'["handlers"] = u
  BY <1>1, ThreadsDiffer DEF LocksInv
<1>3. pc'["work"] \in {"reply", "send", "return"} <=> pc["work"] \in {"reply", "send", "return"}
  BY ThreadsDiffer DEF SameSide
<1>4. pc'["work"] \in {"off", "wait"} <=> pc["work"] \in {"off", "wait"}
  BY ThreadsDiffer DEF SameSide
<1>5. \A w \in Writers : pc'[w] = "write" => pc[w] = "write"
  BY ThreadsDiffer DEF SameSide
<1> QED
  BY <1>1, <1>2, <1>3, <1>4, <1>5 DEF LocksInv

LEMMA HandlersReleased ==
    ASSUME TypeOK, LocksInv, NEW t \in Threads, Release("handlers"), env' = env,
           pc[t] \in Holding, pc'[t] \notin Holding, SameSide(t, pc[t], pc'[t]),
           \A u \in Threads : u # t => pc'[u] = pc[u]
    PROVE  LocksInv'
<1>1. /\ lock["handlers"] = t /\ lock'["handlers"] = Nobody
      /\ \A m \in {"log", "listeners", "client"} : lock'[m] = lock[m]
  BY DEF TypeOK, Release, Mutexes, LocksInv
<1>2. \A u \in Threads : pc'[u] \in Holding <=> lock'["handlers"] = u
  BY <1>1, ThreadsDiffer DEF LocksInv
<1>3. pc'["work"] \in {"reply", "send", "return"} <=> pc["work"] \in {"reply", "send", "return"}
  BY ThreadsDiffer DEF SameSide
<1>4. pc'["work"] \in {"off", "wait"} <=> pc["work"] \in {"off", "wait"}
  BY ThreadsDiffer DEF SameSide
<1>5. \A w \in Writers : pc'[w] = "write" => pc[w] = "write"
  BY ThreadsDiffer DEF SameSide
<1> QED
  BY <1>1, <1>2, <1>3, <1>4, <1>5 DEF LocksInv

---------------------------------------------------------------------------
\* A handler's thread appends an event.
LEMMA StoresEvent ==
    ASSUME TypeOK, HandlersInv, NewInv, QueueInv, NEW c \in Conns, pc[c] \notin {"leave", "off"},
           NEW kind \in {"data", "gone"}, StoreEvent(c, kind), kind = "gone" => pc'[c] = "leave",
           \A d \in Conns : pc[d] \in {"leave", "off"} => pc'[d] = pc[d],
           UNCHANGED <<fd, m_handlers, told>>
    PROVE  /\ m_client_events' \in Seq(Event) /\ m_client_events' # <<>>
           /\ m_client_events # <<>> => Head(m_client_events') = Head(m_client_events)
           /\ \A i \in DOMAIN m_client_events' :
                  \/ m_client_events'[i].from = c
                  \/ i \in DOMAIN m_client_events /\ m_client_events'[i] = m_client_events[i]
           /\ \A d \in Conns : Fresh(d) => Fresh(d)'
           /\ QueueInv'
<1> DEFINE e == [id |-> fd[c], kind |-> kind, from |-> c]
<1>1. fd[c] \in Fd /\ ~Fresh(c)
  BY HandlerHasFd
<1>2. e \in Event /\ e.id = fd[c] /\ e.kind = kind /\ e.from = c
  BY <1>1 DEF Event
<1>3. m_client_events' = Append(m_client_events, e)
  BY DEF StoreEvent
<1> HIDE DEF e
<1>4. /\ m_client_events' \in Seq(Event) /\ m_client_events' # <<>>
      /\ m_client_events # <<>> => Head(m_client_events') = Head(m_client_events)
      /\ DOMAIN m_client_events' = 1 .. Len(m_client_events) + 1
      /\ \A i \in DOMAIN m_client_events : m_client_events'[i] = m_client_events[i]
      /\ m_client_events'[Len(m_client_events) + 1] = e
  <2>1. m_client_events \in Seq(Event)
    BY DEF TypeOK
  <2> QED
    BY <1>2, <1>3, <2>1
<1>7. \A i \in DOMAIN m_client_events' :
          \/ m_client_events'[i].from = c
          \/ i \in DOMAIN m_client_events /\ m_client_events'[i] = m_client_events[i]
  BY <1>2, <1>4, Sequences
<1>5. ASSUME NEW d \in Conns, Fresh(d) PROVE Fresh(d)'
  <2>1. pc'[d] = pc[d] /\ d # c
    BY <1>1, <1>5 DEF Fresh
  <2>2. \A i \in DOMAIN m_client_events' : m_client_events'[i].from # d
    BY <1>2, <1>4, <1>5, <2>1, Sequences DEF Fresh
  <2> QED
    BY <1>5, <2>1, <2>2 DEF Fresh, Listed
<1>6. QueueInv'
  <2> SUFFICES ASSUME NEW i \in DOMAIN m_client_events'
               PROVE  /\ m_client_events'[i].id = fd[m_client_events'[i].from]
                      /\ m_client_events'[i].kind = "gone" =>
                             /\ pc'[m_client_events'[i].from] \in {"leave", "off"}
                             /\ \A j \in DOMAIN m_client_events' :
                                    j > i => m_client_events'[j].from # m_client_events'[i].from
    BY DEF QueueInv
  <2>1. CASE i = Len(m_client_events) + 1
    BY <1>2, <1>4, <2>1, Sequences
  <2>2. CASE i \in DOMAIN m_client_events
    <3>1. m_client_events'[i] = m_client_events[i]
      BY <1>4, <2>2
    <3>2. m_client_events[i].id = fd[m_client_events[i].from] /\ m_client_events[i].from \in Conns
      BY <2>2, Sequences DEF QueueInv
    <3>3. ASSUME m_client_events[i].kind = "gone"
          PROVE  /\ pc'[m_client_events[i].from] \in {"leave", "off"}
                 /\ \A j \in DOMAIN m_client_events' :
                        j > i => m_client_events'[j].from # m_client_events[i].from
      <4>1. pc[m_client_events[i].from] \in {"leave", "off"}
        BY <2>2, <3>3 DEF QueueInv
      <4>2. pc'[m_client_events[i].from] \in {"leave", "off"} /\ m_client_events[i].from # c
        BY <3>2, <4>1
      <4>3. \A j \in DOMAIN m_client_events : j > i => m_client_events[j].from # m_client_events[i].from
        BY <2>2, <3>3 DEF QueueInv
      <4> QED
        BY <1>2, <1>4, <4>2, <4>3, Sequences
    <3> QED
      BY <3>1, <3>2, <3>3
  <2> QED
    BY <1>4, <2>1, <2>2, Sequences
<1> QED
  BY <1>4, <1>5, <1>6, <1>7

---------------------------------------------------------------------------
\* The end of a round of a loop, or of the thread.
LEMMA ListenLoops ==
    ASSUME TypeOK, PcType, NEW r, pc["listen"] = r, LoopOrExit("listen", "accept")
    PROVE  \E s \in {"accept", "off"} :
               /\ ListenMoved(r, s) /\ PcType'
               /\ state' \in [Workers -> {"STOPPED", "RUNNING", "STOPPING"}]
               /\ state'["work"] = state["work"]
               /\ s = "accept" => state["listen"] = "RUNNING" /\ state' = state
               /\ s = "off" => state["listen"] # "RUNNING"
<1>1. CASE state["listen"] = "RUNNING"
  <2>1. Goto("listen", "accept") /\ state' = state
    BY <1>1 DEF LoopOrExit
  <2>2. ListenMoved(r, "accept") /\ PcType'
    BY <2>1, ListenMoves DEF ListenSteps
  <2> QED
    BY <1>1, <2>1, <2>2 DEF TypeOK
<1>2. CASE state["listen"] # "RUNNING"
  <2>1. Goto("listen", "off") /\ state' = [state EXCEPT !["listen"] = "STOPPED"]
    BY <1>2 DEF LoopOrExit
  <2>2. ListenMoved(r, "off") /\ PcType'
    BY <2>1, ListenMoves DEF ListenSteps
  <2> QED
    BY <1>2, <2>1, <2>2 DEF TypeOK, Workers
<1> QED
  BY <1>1, <1>2

LEMMA WorkLoops ==
    ASSUME TypeOK, PcType, NEW r, pc["work"] = r, LoopOrExit("work", "wait")
    PROVE  \E s \in {"wait", "off"} :
               /\ WorkMoved(r, s) /\ PcType'
               /\ state' \in [Workers -> {"STOPPED", "RUNNING", "STOPPING"}]
               /\ state'["listen"] = state["listen"]
               /\ s = "wait" => state["work"] = "RUNNING" /\ state' = state
               /\ s = "off" => state["work"] # "RUNNING"
<1>1. CASE state["work"] = "RUNNING"
  <2>1. Goto("work", "wait") /\ state' = state
    BY <1>1 DEF LoopOrExit
  <2>2. WorkMoved(r, "wait") /\ PcType'
    BY <2>1, WorkMoves DEF WorkSteps
  <2> QED
    BY <1>1, <2>1, <2>2 DEF TypeOK
<1>2. CASE state["work"] # "RUNNING"
  <2>1. Goto("work", "off") /\ state' = [state EXCEPT !["work"] = "STOPPED"]
    BY <1>2 DEF LoopOrExit
  <2>2. WorkMoved(r, "off") /\ PcType'
    BY <2>1, WorkMoves DEF WorkSteps
  <2> QED
    BY <1>2, <2>1, <2>2 DEF TypeOK, Workers
<1> QED
  BY <1>1, <1>2

LEMMA Serves ==
    ASSUME TypeOK, PcType, NEW r, pc["work"] = r, NEW events \in Seq(Event), events # <<>>,
           Serve(events)
    PROVE  \E s \in {"tell", "closeClient"} :
               /\ WorkMoved(r, s) /\ PcType' /\ state' = state
               /\ s = "tell" <=> Head(events).kind = "data"
<1>1. CASE Head(events).kind = "data"
  <2>1. Goto("work", "tell") /\ state' = state
    BY <1>1 DEF Serve
  <2> QED
    BY <1>1, <2>1, WorkMoves DEF WorkSteps
<1>2. CASE Head(events).kind # "data"
  <2>1. Goto("work", "closeClient") /\ state' = state
    BY <1>2 DEF Serve
  <2> QED
    BY <1>2, <2>1, WorkMoves DEF WorkSteps
<1> QED
  BY <1>1, <1>2

\* The queue without its first event.
LEMMA TailProperties ==
    ASSUME TypeOK, m_client_events # <<>>, m_client_events' = Tail(m_client_events)
    PROVE  /\ m_client_events' \in Seq(Event)
           /\ Len(m_client_events') = Len(m_client_events) - 1
           /\ DOMAIN m_client_events' = 1 .. Len(m_client_events) - 1
           /\ \A i \in DOMAIN m_client_events' :
                  /\ i + 1 \in DOMAIN m_client_events
                  /\ m_client_events'[i] = m_client_events[i + 1]
<1>1. m_client_events \in Seq(Event)
  BY DEF TypeOK
<1> QED
  BY <1>1

\* The worker takes the event it has served out of the queue.
LEMMA Pops ==
    ASSUME TypeOK, PcType, QueueInv, NEW r, pc["work"] = r, NEW held, Pop(held),
           m_client_events # <<>>, UNCHANGED fd
    PROVE  \E s \in {"tell", "closeClient", "wait", "off"} :
               /\ WorkMoved(r, s) /\ PcType'
               /\ state' \in [Workers -> {"STOPPED", "RUNNING", "STOPPING"}]
               /\ state'["listen"] = state["listen"]
               /\ s # "off" => state' = state
               /\ s = "off" => state["work"] # "RUNNING"
               /\ lock' = IF s \in {"wait", "off"} THEN [held EXCEPT !["client"] = Nobody]
                                                  ELSE held
               /\ m_client_events' = Tail(m_client_events)
               /\ ServedInv' /\ QueueInv'
<1>1. m_client_events' = Tail(m_client_events) /\ m_client_events' \in Seq(Event)
  BY TailProperties DEF Pop
<1>2. CASE m_client_events' # <<>>
  <2>1. Serve(m_client_events') /\ lock' = held
    BY <1>1, <1>2 DEF Pop
  <2>2. PICK s \in {"tell", "closeClient"} :
            /\ WorkMoved(r, s) /\ PcType' /\ state' = state
            /\ s = "tell" <=> Head(m_client_events').kind = "data"
    BY <1>1, <1>2, <2>1, Serves
  <2>3. ServedInv'
    BY <1>2, <2>2 DEF ServedInv, WorkMoved, Telling
  <2>4. HandlersStay
    BY <2>2 DEF WorkMoved
  <2>5. QueueInv'
    BY <1>1, <2>4, Sequences, TailProperties DEF QueueInv, HandlersStay
  <2> QED
    BY <1>1, <2>1, <2>2, <2>3, <2>5 DEF TypeOK
<1>3. CASE m_client_events' = <<>>
  <2>1. LoopOrExit("work", "wait") /\ lock' = [held EXCEPT !["client"] = Nobody]
    BY <1>1, <1>3 DEF Pop
  <2>2. PICK s \in {"wait", "off"} :
               /\ WorkMoved(r, s) /\ PcType'
               /\ state' \in [Workers -> {"STOPPED", "RUNNING", "STOPPING"}]
               /\ state'["listen"] = state["listen"]
               /\ s = "wait" => state["work"] = "RUNNING" /\ state' = state
               /\ s = "off" => state["work"] # "RUNNING"
    BY <2>1, WorkLoops
  <2>3. ServedInv'
    BY <2>2 DEF ServedInv, WorkMoved
  <2>4. QueueInv'
    BY <1>3 DEF QueueInv
  <2> QED
    BY <1>1, <2>1, <2>2, <2>3, <2>4
<1> QED
  BY <1>2, <1>3

---------------------------------------------------------------------------
\* What was told, after a step that tells nothing.
LEMMA AccountKept ==
    ASSUME NEW c, Account(c), told'[c] = told[c],
           Greeted(c)' <=> Greeted(c), Left(c)' <=> Left(c)
    PROVE  Account(c)'
BY DEF Account, Once, Heard

LEMMA TruthKept ==
    ASSUME TruthInv, told' = told, env' = env, m_handlers' = m_handlers,
           m_client_events' = m_client_events, subject' = subject, at' = at,
           \A c \in Conns : peer'[c] = "absent" <=> peer[c] = "absent",
           pc'["work"] \in {"join", "erase"} => pc["work"] \in {"join", "erase"},
           pc'["work"] = "tellGone" <=> pc["work"] = "tellGone",
           pc["work"] = "off" => pc'["work"] = "off",
           New' <=> New, pc'["listen"] \in {"await", "greet"} <=> pc["listen"] \in {"await", "greet"},
           pc'["user"] \in {"closeEach", "joinEach", "tellEach"}
               <=> pc["user"] \in {"closeEach", "joinEach", "tellEach"}
    PROVE  TruthInv'
<1>1. \A c : Listed(c)' <=> Listed(c)
  BY DEF Listed
<1>2. PromptInv'
  BY <1>1 DEF TruthInv, PromptInv
<1>3. ASSUME NEW c \in Conns, Account(c) PROVE Account(c)'
  <2>1. Greeted(c)' <=> Greeted(c)
    BY DEF Greeted, New
  <2>2. Left(c)' <=> Left(c)
    BY DEF Left
  <2> QED
    BY <1>3, <2>1, <2>2, AccountKept
<1> QED
  BY <1>2, <1>3 DEF TruthInv

LEMMA Tells ==
    ASSUME TypeOK, NEW c \in Conns, NEW ev \in {"hello", "data", "gone"},
           told' = [told EXCEPT ![c] = Append(@, ev)]
    PROVE  /\ \A d \in Conns : d # c => told'[d] = told[d]
           /\ Len(told[c]) \in Nat /\ DOMAIN told[c] = 1 .. Len(told[c])
           /\ DOMAIN told'[c] = 1 .. Len(told[c]) + 1
           /\ \A i \in DOMAIN told[c] : told'[c][i] = told[c][i]
           /\ told'[c][Len(told[c]) + 1] = ev
           /\ \A e : Heard(c, e)' = IF e = ev THEN Heard(c, e) \union {Len(told[c]) + 1}
                                              ELSE Heard(c, e)
<1>1. told \in [Conns -> Seq({"hello", "data", "gone"})]
  BY DEF TypeOK
<1>2. told'[c] = Append(told[c], ev) /\ \A d \in Conns : d # c => told'[d] = told[d]
  BY <1>1
<1>3. told[c] \in Seq({"hello", "data", "gone"})
  BY <1>1
<1>4. /\ Len(told[c]) \in Nat /\ DOMAIN told[c] = 1 .. Len(told[c])
      /\ DOMAIN told'[c] = 1 .. Len(told[c]) + 1
      /\ \A i \in DOMAIN told[c] : told'[c][i] = told[c][i]
      /\ told'[c][Len(told[c]) + 1] = ev
  BY <1>2, <1>3
<1>5. ASSUME NEW e PROVE Heard(c, e)' = IF e = ev THEN Heard(c, e) \union {Len(told[c]) + 1}
                                                 ELSE Heard(c, e)
  BY <1>4 DEF Heard
<1> QED
  BY <1>2, <1>4, <1>5

LEMMA HelloTold ==
    ASSUME TypeOK, NEW c \in Conns, Account(c), told' = [told EXCEPT ![c] = Append(@, "hello")],
           ~Greeted(c), Greeted(c)', Left(c)' <=> Left(c)
    PROVE  Account(c)'
<1>1. Heard(c, "hello")' = {Len(told[c]) + 1} /\ Heard(c, "gone")' = Heard(c, "gone")
  BY Tells DEF Account, Once
<1>2. \A i \in Heard(c, "gone") :
          \A j \in DOMAIN told'[c] : j > i => told'[c][j] = "hello"
  BY Tells DEF Account
<1> QED
  BY <1>1, <1>2 DEF Account, Once

LEMMA GoneTold ==
    ASSUME TypeOK, NEW c \in Conns, Account(c), told' = [told EXCEPT ![c] = Append(@, "gone")],
           ~Left(c), Left(c)', Greeted(c)' <=> Greeted(c)
    PROVE  Account(c)'
<1>1. Heard(c, "gone")' = {Len(told[c]) + 1} /\ Heard(c, "hello")' = Heard(c, "hello")
  <2>1. Heard(c, "gone") = {}
    BY DEF Account, Once
  <2>2. Heard(c, "gone")' = Heard(c, "gone") \union {Len(told[c]) + 1}
    BY Tells
  <2> QED
    BY <2>1, <2>2, Tells
<1>2. \A j \in DOMAIN told'[c] : ~(j > Len(told[c]) + 1)
  BY Tells
<1> QED
  BY <1>1, <1>2 DEF Account, Once

LEMMA DataTold ==
    ASSUME TypeOK, NEW c \in Conns, Account(c), told' = [told EXCEPT ![c] = Append(@, "data")],
           ~Left(c), ~Left(c)', Greeted(c)' <=> Greeted(c)
    PROVE  Account(c)'
<1>1. Heard(c, "gone")' = {} /\ Heard(c, "gone") = {} /\ Heard(c, "hello")' = Heard(c, "hello")
  BY Tells DEF Account, Once
<1> QED
  BY <1>1 DEF Account, Once

---------------------------------------------------------------------------
(* Every action keeps the invariant.                                       *)

LEMMA StartFailsKeeps ==
    ASSUME Inv, StartFails
    PROVE  Inv'
<1>1. UserMoved("idle", "idle") /\ PcType'
  BY UserMoves DEF Inv, StartFails, GoFrom, UserSteps
<1>2. UNCHANGED <<env, lock, state, m_handlers, m_client_events, fd, kernel, peer, lines, subject, at, told>>
  BY DEF StartFails, server, net
<1>0. TypeOK /\ PcType /\ PlacesInv /\ LocksInv /\ HandlersInv /\ NewInv /\ ServedInv /\ QueueInv /\ TruthInv
  BY DEF Inv
<1>3. TypeOK'
    BY <1>1, <1>2 DEF Inv, StartFails, TypeOK, PcType
<1>4. PlacesInv'
    BY <1>1, <1>2 DEF Inv, StartFails, PlacesInv, Joined, UserMoved
<1>5. LocksInv'
    BY <1>1, <1>2, ThreadsDiffer DEF Inv, LocksInv, Holding, Threads, UserMoved, HandlersStay,
      WritersStay
<1>6. HandlersInv'
  BY <1>1, <1>2, ThreadsDiffer, HandlersKept DEF Inv, UserMoved, HandlersStay, ClosedAt
<1>7. NewInv'
    BY <1>1, <1>2 DEF Inv, NewInv, Fresh, New, ClosedAt, Listed, UserMoved, HandlersStay
<1>8. ServedInv'
  BY <1>1, <1>2 DEF Inv, ServedInv, Telling, UserMoved
<1>9. QueueInv'
  BY <1>1, <1>2, QueueKept DEF Inv, UserMoved, HandlersStay, WritersStay
<1>10. TruthInv'
  BY <1>0, <1>1, <1>2, TruthKept DEF UserMoved, New, UserSteps
<1> QED
  BY <1>1, <1>3, <1>4, <1>5, <1>6, <1>7, <1>8, <1>9, <1>10 DEF Inv

LEMMA StopKeeps ==
    ASSUME Inv, Stop
    PROVE  Inv'
<1>1. UserMoved("idle", "joinListen") /\ PcType'
  BY UserMoves DEF Inv, Stop, GoFrom, UserSteps
<1>2. UNCHANGED <<env, lock, m_handlers, m_client_events, m_server_fd, fd, kernel, peer, lines, subject, at, starts, told>>
  BY DEF Stop, server, net
<1>0. TypeOK /\ PcType /\ PlacesInv /\ LocksInv /\ HandlersInv /\ NewInv /\ ServedInv /\ QueueInv /\ TruthInv
  BY DEF Inv
<1>3. TypeOK'
    BY <1>1, <1>2, ThreadsDiffer DEF Inv, Stop, TypeOK, PcType, RequestStop, Workers
<1>4. PlacesInv'
    BY <1>1, <1>2, ThreadsDiffer DEF Inv, Stop, PlacesInv, UserMoved, RequestStop, Workers
<1>5. LocksInv'
    BY <1>1, <1>2, ThreadsDiffer DEF Inv, LocksInv, Holding, Threads, UserMoved, HandlersStay,
      WritersStay
<1>6. HandlersInv'
  BY <1>1, <1>2, ThreadsDiffer, HandlersKept DEF Inv, UserMoved, HandlersStay, ClosedAt
<1>7. NewInv'
    BY <1>1, <1>2, ThreadsDiffer DEF Inv, NewInv, Fresh, New, ClosedAt, Listed, UserMoved,
      HandlersStay
<1>8. ServedInv'
  BY <1>1, <1>2 DEF Inv, ServedInv, Telling, UserMoved
<1>9. QueueInv'
  BY <1>1, <1>2, QueueKept DEF Inv, UserMoved, HandlersStay, WritersStay
<1>10. TruthInv'
  BY <1>0, <1>1, <1>2, TruthKept DEF UserMoved, New, UserSteps
<1> QED
  BY <1>1, <1>3, <1>4, <1>5, <1>6, <1>7, <1>8, <1>9, <1>10 DEF Inv

LEMMA StopWorkKeeps ==
    ASSUME Inv, StopWork
    PROVE  Inv'
<1>1. UserMoved("joinListen", "joinWork") /\ PcType'
  BY UserMoves DEF Inv, StopWork, GoFrom, UserSteps
<1>2. UNCHANGED <<env, lock, m_handlers, m_client_events, m_server_fd, fd, kernel, peer, lines, subject, at, starts, told>>
  BY DEF StopWork, server, net
<1>0. TypeOK /\ PcType /\ PlacesInv /\ LocksInv /\ HandlersInv /\ NewInv /\ ServedInv /\ QueueInv /\ TruthInv
  BY DEF Inv
<1>3. TypeOK'
    BY <1>1, <1>2, ThreadsDiffer DEF Inv, StopWork, TypeOK, PcType, RequestStop, Workers
<1>4. PlacesInv'
    BY <1>1, <1>2, ThreadsDiffer DEF Inv, StopWork, PlacesInv, Joined, UserMoved, RequestStop,
      Workers
<1>5. LocksInv'
    BY <1>1, <1>2, ThreadsDiffer DEF Inv, LocksInv, Holding, Threads, UserMoved, HandlersStay,
      WritersStay
<1>6. HandlersInv'
  BY <1>1, <1>2, ThreadsDiffer, HandlersKept DEF Inv, UserMoved, HandlersStay, ClosedAt
<1>7. NewInv'
    BY <1>1, <1>2, ThreadsDiffer DEF Inv, NewInv, Fresh, New, ClosedAt, Listed, UserMoved,
      HandlersStay
<1>8. ServedInv'
  BY <1>1, <1>2 DEF Inv, ServedInv, Telling, UserMoved
<1>9. QueueInv'
  BY <1>1, <1>2, QueueKept DEF Inv, UserMoved, HandlersStay, WritersStay
<1>10. TruthInv'
  BY <1>0, <1>1, <1>2, TruthKept DEF UserMoved, New, UserSteps
<1> QED
  BY <1>1, <1>3, <1>4, <1>5, <1>6, <1>7, <1>8, <1>9, <1>10 DEF Inv

LEMMA StopListeningSocketKeeps ==
    ASSUME Inv, StopListeningSocket
    PROVE  Inv'
<1>1. UserMoved("joinWork", "closeAll") /\ PcType'
  BY UserMoves DEF Inv, StopListeningSocket, GoFrom, UserSteps
<1>2. UNCHANGED <<env, lock, state, m_handlers, m_client_events, fd, kernel, peer, lines, subject, at, starts, told>>
  BY DEF StopListeningSocket, server, net
<1>0. TypeOK /\ PcType /\ PlacesInv /\ LocksInv /\ HandlersInv /\ NewInv /\ ServedInv /\ QueueInv /\ TruthInv
  BY DEF Inv
<1>3. TypeOK'
    BY <1>1, <1>2 DEF Inv, StopListeningSocket, TypeOK, PcType
<1>4. PlacesInv'
  <2>1. pc["work"] = "off"
    BY DEF StopListeningSocket, Joined
  <2> QED
    BY <1>0, <1>1, <1>2, <2>1 DEF PlacesInv, UserMoved, UserSteps
<1>5. LocksInv'
    BY <1>1, <1>2, ThreadsDiffer DEF Inv, LocksInv, Holding, Threads, UserMoved, HandlersStay,
      WritersStay
<1>6. HandlersInv'
  BY <1>1, <1>2, ThreadsDiffer, HandlersKept DEF Inv, UserMoved, HandlersStay, ClosedAt
<1>7. NewInv'
    BY <1>1, <1>2 DEF Inv, NewInv, Fresh, New, ClosedAt, Listed, UserMoved, HandlersStay
<1>8. ServedInv'
  BY <1>1, <1>2 DEF Inv, ServedInv, Telling, UserMoved
<1>9. QueueInv'
  BY <1>1, <1>2, QueueKept DEF Inv, UserMoved, HandlersStay, WritersStay
<1>10. TruthInv'
  BY <1>0, <1>1, <1>2, TruthKept DEF UserMoved, New, UserSteps
<1> QED
  BY <1>1, <1>3, <1>4, <1>5, <1>6, <1>7, <1>8, <1>9, <1>10 DEF Inv

LEMMA CloseAllKeeps ==
    ASSUME Inv, CloseAll
    PROVE  Inv'
<1>1. UserMoved("closeAll", "closeEach") /\ PcType'
  BY UserMoves DEF Inv, CloseAll, GoFrom, UserSteps
<1>2. UNCHANGED <<env, state, m_handlers, m_client_events, m_server_fd, fd, kernel, peer, lines, subject, starts, told>>
  BY DEF CloseAll, server, net
<1>0. TypeOK /\ PcType /\ PlacesInv /\ LocksInv /\ HandlersInv /\ NewInv /\ ServedInv /\ QueueInv /\ TruthInv
  BY DEF Inv
<1>3. TypeOK'
    BY <1>1, <1>2, ThreadsDiffer DEF Inv, CloseAll, TypeOK, PcType, Take, Mutexes
<1>4. PlacesInv'
  BY <1>0, <1>1, <1>2 DEF PlacesInv, UserMoved, UserSteps
<1>5. LocksInv'
  BY <1>1, <1>2, ThreadsDiffer, HandlersTaken DEF Inv, CloseAll, UserMoved, HandlersStay, WritersStay, Holding, SameSide, Threads
<1>6. HandlersInv'
  <2>1. pc["work"] = "off" /\ at' = 1
    BY <1>0, <1>1 DEF PlacesInv, UserMoved, CloseAll
  <2>2. \A i \in DOMAIN m_handlers : ~ClosedAt(i) /\ ~ClosedAt(i)'
    BY <1>0, <1>1, <2>1, Sequences DEF ClosedAt, UserMoved
  <2> QED
    BY <1>0, <1>1, <1>2, <2>2, HandlersKept DEF UserMoved, HandlersStay
<1>7. NewInv'
  <2>1. pc["work"] = "off" /\ at' = 1
    BY <1>0, <1>1 DEF PlacesInv, UserMoved, CloseAll
  <2>2. \A i \in DOMAIN m_handlers : ~ClosedAt(i) /\ ~ClosedAt(i)'
    BY <1>0, <1>1, <2>1, Sequences DEF ClosedAt, UserMoved
  <2> QED
    BY <1>0, <1>1, <1>2, <2>2 DEF NewInv, Fresh, New, Listed, UserMoved, HandlersStay
<1>8. ServedInv'
  BY <1>1, <1>2 DEF Inv, ServedInv, Telling, UserMoved
<1>9. QueueInv'
  BY <1>1, <1>2, QueueKept DEF Inv, UserMoved, HandlersStay, WritersStay
<1>10. TruthInv'
  <2>20. PromptInv'
    BY <1>0, <1>1, <1>2 DEF TruthInv, PromptInv, Listed, UserMoved
  <2>21. ASSUME NEW c \in Conns, env.prompt, Account(c) PROVE Account(c)'
    <3>1. Greeted(c)' <=> Greeted(c)
      BY <1>1, <1>2 DEF Greeted, UserMoved
    <3>2. at' = 1
      BY DEF CloseAll
    <3>3. Left(c)' <=> Left(c)
      BY <1>0, <1>1, <1>2, <3>2, Sequences DEF Left, New, UserMoved
    <3> QED
      BY <1>2, <2>21, <3>1, <3>3, AccountKept
  <2> QED
    BY <1>0, <1>2, <2>20, <2>21 DEF TruthInv
<1> QED
  BY <1>1, <1>3, <1>4, <1>5, <1>6, <1>7, <1>8, <1>9, <1>10 DEF Inv

LEMMA CloseEachKeeps ==
    ASSUME Inv, CloseEach
    PROVE  Inv'
<1>1. UserMoved("closeEach", "joinEach") /\ PcType'
  BY UserMoves DEF Inv, CloseEach, GoFrom, UserSteps
<1>2. UNCHANGED <<env, lock, m_handlers, m_client_events, m_server_fd, fd, kernel, peer, lines, subject, at, starts, told>>
  BY DEF CloseEach, server, net
<1>0. TypeOK /\ PcType /\ PlacesInv /\ LocksInv /\ HandlersInv /\ NewInv /\ ServedInv /\ QueueInv /\ TruthInv
  BY DEF Inv
<1>3. TypeOK'
    BY <1>1, <1>2, ThreadsDiffer DEF Inv, CloseEach, TypeOK, PcType, RequestStop, Workers
<1>4. PlacesInv'
  <2>1. m_handlers[at] \in Conns /\ at <= Len(m_handlers)
    BY <1>0, Sequences DEF CloseEach, TypeOK
  <2>2. state'["listen"] = state["listen"] /\ state'["work"] = state["work"]
    BY <1>0, <2>1, ThreadsDiffer DEF CloseEach, RequestStop, TypeOK, Workers
  <2> QED
    BY <1>0, <1>1, <1>2, <2>1, <2>2 DEF PlacesInv, UserMoved, UserSteps
<1>5. LocksInv'
    BY <1>1, <1>2, ThreadsDiffer DEF Inv, LocksInv, Holding, Threads, UserMoved, HandlersStay,
      WritersStay
<1>6. HandlersInv'
  BY <1>1, <1>2, ThreadsDiffer, HandlersKept DEF Inv, UserMoved, HandlersStay, ClosedAt
<1>7. NewInv'
    BY <1>1, <1>2, ThreadsDiffer DEF Inv, NewInv, Fresh, New, ClosedAt, Listed, UserMoved,
      HandlersStay
<1>8. ServedInv'
  BY <1>1, <1>2 DEF Inv, ServedInv, Telling, UserMoved
<1>9. QueueInv'
  BY <1>1, <1>2, QueueKept DEF Inv, UserMoved, HandlersStay, WritersStay
<1>10. TruthInv'
  BY <1>0, <1>1, <1>2, TruthKept DEF UserMoved, New, UserSteps
<1> QED
  BY <1>1, <1>3, <1>4, <1>5, <1>6, <1>7, <1>8, <1>9, <1>10 DEF Inv

LEMMA JoinEachKeeps ==
    ASSUME Inv, JoinEach
    PROVE  Inv'
<1>1. UserMoved("joinEach", "tellEach") /\ PcType'
  BY UserMoves DEF Inv, JoinEach, GoFrom, UserSteps
<1>2. UNCHANGED <<env, lock, state, m_handlers, m_client_events, m_server_fd, fd, peer, lines, subject, at, starts, told>>
  BY DEF JoinEach, server, net
<1>0. TypeOK /\ PcType /\ PlacesInv /\ LocksInv /\ HandlersInv /\ NewInv /\ ServedInv /\ QueueInv /\ TruthInv
  BY DEF Inv
<1> DEFINE h == m_handlers[at]
<1>3. h \in Conns /\ pc[h] = "off" /\ at \in DOMAIN m_handlers /\ Listed(h)
  <2>1. at <= Len(m_handlers) /\ at \in Nat \ {0}
    BY <1>0, <1>1 DEF PlacesInv, UserMoved, TypeOK
  <2> QED
    BY <1>0, <2>1, Sequences DEF JoinEach, Joined, Listed
<1>4. fd[h] \in Fd /\ kernel' = [kernel EXCEPT ![fd[h]] = Nobody]
  BY <1>0, <1>3, HandlerHasFd DEF JoinEach, CloseFd
<1>5. pc["work"] = "off" /\ pc["listen"] = "off"
  BY <1>0, <1>1 DEF PlacesInv, UserMoved, UserSteps
<1>6. \A i \in DOMAIN m_handlers : ClosedAt(i)' <=> ClosedAt(i) \/ i = at
  BY SMTT(30), <1>0, <1>1, <1>2, <1>5, Sequences DEF ClosedAt, UserMoved, TypeOK
<1>7. kernel[fd[h]] = h /\ ~ClosedAt(at)
  <2>1. ~ClosedAt(at)
    BY <1>0, <1>1, <1>5 DEF ClosedAt, UserMoved, TypeOK
  <2> QED
    BY <1>0, <1>3, <2>1 DEF HandlersInv
<1> HIDE DEF h
<1>8. TypeOK'
  BY <1>0, <1>1, <1>2 DEF JoinEach, CloseFd, TypeOK, PcType
<1>9. PlacesInv'
  BY <1>0, <1>1, <1>2 DEF PlacesInv, UserMoved, UserSteps
<1>10. LocksInv'
    BY <1>1, <1>2, ThreadsDiffer DEF Inv, LocksInv, Holding, Threads, UserMoved, HandlersStay,
      WritersStay
<1>11. HandlersInv'
  <2>1. ASSUME NEW i \in DOMAIN m_handlers, ~ClosedAt(i)'
        PROVE  kernel'[fd[m_handlers[i]]] = m_handlers[i]
    <3>1. ~ClosedAt(i) /\ i # at /\ m_handlers[i] # h
      BY <1>0, <1>3, <1>6, <2>1 DEF HandlersInv, h
    <3>2. kernel[fd[m_handlers[i]]] = m_handlers[i] /\ fd[m_handlers[i]] # fd[h]
      BY <1>0, <1>7, <3>1 DEF HandlersInv
    <3> QED
      BY <1>0, <1>4, <3>2, Sequences, HandlerHasFd DEF TypeOK, Listed
  <2>2. \A i \in DOMAIN m_handlers : ClosedAt(i)' => pc[m_handlers[i]] = "off"
    BY <1>0, <1>3, <1>6 DEF HandlersInv, h
  <2> QED
    BY <1>0, <1>1, <1>2, <1>5, <2>1, <2>2, Sequences DEF HandlersInv, Listed, UserMoved, HandlersStay
<1>12. NewInv'
  <2>1. ASSUME NEW f \in Fd, kernel'[f] # Nobody
        PROVE  /\ fd'[kernel'[f]] = f
               /\ \E i \in DOMAIN m_handlers' : m_handlers'[i] = kernel'[f] /\ ~ClosedAt(i)'
    <3>1. f # fd[h] /\ kernel'[f] = kernel[f]
      BY <1>0, <1>4, <2>1 DEF TypeOK
    <3>2. fd[kernel[f]] = f
      BY <1>0, <2>1, <3>1 DEF NewInv
    <3>3. PICK i \in DOMAIN m_handlers : m_handlers[i] = kernel[f] /\ ~ClosedAt(i)
      BY <1>0, <1>5, <2>1, <3>1 DEF NewInv, New
    <3>4. i # at
      BY <3>1, <3>2, <3>3 DEF h
    <3> QED
      BY <1>2, <1>6, <3>1, <3>2, <3>3, <3>4
  <2> QED
    BY <1>0, <1>1, <1>2, <1>5, <2>1 DEF NewInv, Fresh, New, Listed, UserMoved, HandlersStay
<1>13. ServedInv'
  BY <1>1, <1>2 DEF Inv, ServedInv, Telling, UserMoved
<1>14. QueueInv'
  BY <1>1, <1>2, QueueKept DEF Inv, UserMoved, HandlersStay, WritersStay
<1>15. TruthInv'
  BY <1>0, <1>1, <1>2, TruthKept DEF UserMoved, New, UserSteps
<1> QED
  BY <1>1, <1>8, <1>9, <1>10, <1>11, <1>12, <1>13, <1>14, <1>15 DEF Inv

LEMMA TellEachKeeps ==
    ASSUME Inv, TellEach
    PROVE  Inv'
<1>1. UserMoved("tellEach", "closeEach") /\ PcType'
  BY UserMoves DEF Inv, TellEach, GoFrom, UserSteps
<1>2. UNCHANGED <<env, lock, state, m_handlers, m_client_events, m_server_fd, fd, kernel, peer, lines, subject, starts>>
  BY DEF TellEach, server, net
<1>0. TypeOK /\ PcType /\ PlacesInv /\ LocksInv /\ HandlersInv /\ NewInv /\ ServedInv /\ QueueInv /\ TruthInv
  BY DEF Inv
<1> DEFINE h == m_handlers[at]
<1>3. h \in Conns /\ at \in DOMAIN m_handlers /\ Listed(h)
  <2>1. at <= Len(m_handlers) /\ at \in Nat \ {0}
    BY <1>0, <1>1 DEF PlacesInv, UserMoved, TypeOK
  <2> QED
    BY <1>0, <2>1, Sequences DEF Listed
<1>4. told' = [told EXCEPT ![h] = Append(@, "gone")] /\ at' = at + 1
  BY DEF TellEach, Tell
<1>5. \A i \in DOMAIN m_handlers : ClosedAt(i)' <=> ClosedAt(i)
  BY SMTT(30), <1>0, <1>1, <1>2, <1>4, Sequences DEF ClosedAt, UserMoved, TypeOK
<1> HIDE DEF h
<1>6. TypeOK'
  <2>1. told' \in [Conns -> Seq({"hello", "data", "gone"})]
    BY <1>0, <1>3, <1>4 DEF TypeOK
  <2> QED
    BY <1>0, <1>1, <1>2, <1>4, <2>1 DEF TypeOK, PcType
<1>7. PlacesInv'
  BY <1>0, <1>1, <1>2 DEF PlacesInv, UserMoved, UserSteps
<1>8. LocksInv'
    BY <1>1, <1>2, ThreadsDiffer DEF Inv, LocksInv, Holding, Threads, UserMoved, HandlersStay,
      WritersStay
<1>9. HandlersInv'
  BY <1>0, <1>1, <1>2, <1>5, HandlersKept DEF UserMoved, HandlersStay
<1>10. NewInv'
  <2>1. ~Fresh(h)
    BY <1>0, <1>3, HandlerHasFd
  <2>2. ASSUME NEW c \in Conns, Fresh(c) PROVE Fresh(c)'
    BY <1>0, <1>1, <1>2, <1>3, <1>4, <2>1, <2>2, FreshKept DEF TypeOK, UserMoved, HandlersStay, Listed
  <2> QED
    BY <1>0, <1>1, <1>2, <1>5, <2>2 DEF NewInv, New, UserMoved, HandlersStay
<1>11. ServedInv'
  BY <1>1, <1>2 DEF Inv, ServedInv, Telling, UserMoved
<1>12. QueueInv'
  BY <1>1, <1>2, QueueKept DEF Inv, UserMoved, HandlersStay, WritersStay
<1>13. TruthInv'
  <2>1. PromptInv'
    BY <1>0, <1>1, <1>2 DEF TruthInv, PromptInv, Listed, UserMoved
  <2>2. ASSUME NEW c \in Conns, env.prompt, Account(c) PROVE Account(c)'
    <3>1. Greeted(c)' <=> Greeted(c)
      BY <1>1, <1>2 DEF Greeted, UserMoved
    <3>2. at \in Nat /\ pc["work"] = "off" /\ pc["listen"] = "off"
      BY <1>0, <1>1 DEF TypeOK, PlacesInv, UserMoved, UserSteps
    <3>3. CASE c # h
      <4>1. \A i \in DOMAIN m_handlers : m_handlers[i] = c => (i < at' <=> i < at)
        BY <1>0, <1>4, <3>2, <3>3, Sequences DEF h
      <4>2. Left(c)' <=> Left(c)
        BY <1>1, <1>2, <4>1 DEF Left, New, UserMoved
      <4>3. told'[c] = told[c]
        BY <1>0, <1>3, <1>4, <3>3, Tells
      <4> QED
        BY <2>2, <3>1, <4>2, <4>3, AccountKept
    <3>4. CASE c = h
      <4>1. ~Left(c)
        BY <1>1, <1>3, <3>2, <3>4 DEF Left, h
      <4>2. \A i \in DOMAIN m_handlers : m_handlers[i] = c => i < at'
        BY <1>0, <1>3, <1>4, <3>2, <3>4 DEF HandlersInv, h
      <4>3. peer[c] # "absent"
        BY <1>0, <1>3, <3>4, HandlerHasFd
      <4>4. Left(c)'
        BY <1>1, <1>2, <3>2, <4>2, <4>3 DEF Left, New, UserMoved
      <4> QED
        BY <1>0, <1>4, <2>2, <3>1, <3>4, <4>1, <4>4, GoneTold
    <3> QED
      BY <3>3, <3>4
  <2> QED
    BY <1>0, <1>2, <2>1, <2>2 DEF TruthInv
<1> QED
  BY <1>1, <1>6, <1>7, <1>8, <1>9, <1>10, <1>11, <1>12, <1>13 DEF Inv

LEMMA CloseAllDoneKeeps ==
    ASSUME Inv, CloseAllDone
    PROVE  Inv'
<1>1. UserMoved("closeEach", "idle") /\ PcType'
  BY UserMoves DEF Inv, CloseAllDone, GoFrom, UserSteps
<1>2. UNCHANGED <<env, state, m_client_events, m_server_fd, fd, kernel, peer, lines, subject, at, starts, told>>
  BY DEF CloseAllDone, server, net
<1>0. TypeOK /\ PcType /\ PlacesInv /\ LocksInv /\ HandlersInv /\ NewInv /\ ServedInv /\ QueueInv /\ TruthInv
  BY DEF Inv
<1>3. pc["work"] = "off" /\ pc["listen"] = "off"
  BY <1>0, <1>1 DEF PlacesInv, UserMoved, UserSteps
<1>4. m_handlers' = <<>> /\ DOMAIN m_handlers' = {}
  BY DEF CloseAllDone
<1>5. \A i \in DOMAIN m_handlers : ClosedAt(i)
  BY <1>0, <1>1, Sequences DEF ClosedAt, UserMoved, TypeOK, CloseAllDone
<1>6. TypeOK'
    BY <1>1, <1>2, ThreadsDiffer DEF Inv, CloseAllDone, TypeOK, PcType, Release, Mutexes
<1>7. PlacesInv'
  BY <1>0, <1>1, <1>2, <1>3, <1>4 DEF PlacesInv, UserMoved, UserSteps
<1>8. LocksInv'
  BY <1>1, <1>2, ThreadsDiffer, HandlersReleased DEF Inv, CloseAllDone, UserMoved, HandlersStay, WritersStay, Holding, SameSide, Threads
<1>9. HandlersInv'
  <2>1. \A c \in Conns : pc[c] = "off"
    <3>1. \A i \in DOMAIN m_handlers : pc[m_handlers[i]] = "off"
      BY <1>0, <1>5 DEF HandlersInv
    <3> SUFFICES ASSUME NEW c \in Conns, pc[c] # "off" PROVE FALSE
      OBVIOUS
    <3>2. PICK i \in DOMAIN m_handlers : m_handlers[i] = c
      BY <1>0 DEF HandlersInv, Listed
    <3> QED
      BY <3>1, <3>2
  <2> QED
    BY <1>0, <1>1, <1>2, <1>3, <1>4, <2>1 DEF HandlersInv, Listed, UserMoved, HandlersStay
<1>10. NewInv'
  <2>1. \A f \in Fd : kernel[f] = Nobody
    BY <1>0, <1>3, <1>5 DEF NewInv, New
  <2>2. ASSUME NEW c \in Conns, Fresh(c) PROVE Fresh(c)'
    BY <1>1, <1>2, <1>4, <2>2, FreshKept DEF UserMoved, HandlersStay, Listed
  <2> QED
    BY <1>0, <1>1, <1>2, <1>3, <2>1, <2>2 DEF NewInv, New, UserMoved, HandlersStay
<1>11. ServedInv'
  BY <1>1, <1>2 DEF Inv, ServedInv, Telling, UserMoved
<1>12. QueueInv'
  BY <1>1, <1>2, QueueKept DEF Inv, UserMoved, HandlersStay, WritersStay
<1>13. TruthInv'
  <2>1. PromptInv'
    BY <1>1, <1>2, <1>3 DEF PromptInv, UserMoved
  <2>2. ASSUME NEW c \in Conns, env.prompt, Account(c) PROVE Account(c)'
    <3>1. Greeted(c)' <=> Greeted(c)
      BY <1>1, <1>2 DEF Greeted, UserMoved
    <3>2. \A i \in DOMAIN m_handlers : i < at
      BY <1>0, Sequences DEF CloseAllDone, TypeOK
    <3>3. Left(c)' <=> Left(c)
      BY <1>1, <1>2, <1>3, <1>4, <3>2 DEF Left, New, UserMoved
    <3> QED
      BY <1>2, <2>2, <3>1, <3>3, AccountKept
  <2> QED
    BY <1>0, <1>2, <2>1, <2>2 DEF TruthInv
<1> QED
  BY <1>1, <1>6, <1>7, <1>8, <1>9, <1>10, <1>11, <1>12, <1>13 DEF Inv

LEMMA AcceptKeeps ==
    ASSUME Inv, Accept
    PROVE  Inv'
<1>1. ListenMoved("accept", "insert") /\ PcType'
  BY ListenMoves DEF Inv, Accept, GoFrom, ListenSteps
<1>2. UNCHANGED <<env, lock, state, m_handlers, m_client_events, m_server_fd, lines, at, starts, told>>
  BY DEF Accept, server, net
<1>0. TypeOK /\ PcType /\ PlacesInv /\ LocksInv /\ HandlersInv /\ NewInv /\ ServedInv /\ QueueInv /\ TruthInv
  BY DEF Inv
<1>3. PICK f \in Fd, c \in Conns :
           /\ kernel[f] = Nobody /\ peer[c] = "absent"
           /\ peer' = [peer EXCEPT ![c] = "linked"]
           /\ kernel' = [kernel EXCEPT ![f] = c]
           /\ fd' = [fd EXCEPT ![c] = f]
           /\ subject' = [subject EXCEPT !["listen"] = c]
  <2> DEFINE d == CHOOSE d \in Absent : TRUE
  <2>1. d \in Conns /\ peer[d] = "absent"
    BY DEF Accept, Absent
  <2>2. PICK f \in Least(FreeFds) :
           /\ peer' = [peer EXCEPT ![d] = "linked"]
           /\ kernel' = [kernel EXCEPT ![f] = d]
           /\ fd' = [fd EXCEPT ![d] = f]
           /\ subject' = [subject EXCEPT !["listen"] = d]
    BY Zenon DEF Accept
  <2> HIDE DEF d
  <2> QED
    BY <2>1, <2>2 DEF Least, FreeFds
<1>4. Fresh(c) /\ ~Listed(c)
  BY <1>0, <1>3 DEF NewInv, Fresh
<1>5. subject'["work"] = subject["work"] /\ subject'["listen"] = c
  BY <1>0, <1>3 DEF TypeOK
<1>6. ~New /\ New'
  BY <1>1 DEF ListenMoved, New
<1>7. \A i : ClosedAt(i)' <=> ClosedAt(i)
  BY <1>1, <1>2, <1>5 DEF ClosedAt, ListenMoved
<1>8. TypeOK'
  <2>1. /\ peer' \in [Conns -> {"absent", "linked", "hungup"}]
        /\ kernel' \in [Fd -> Conns \union {Nobody}]
        /\ fd' \in [Conns -> Fd \union {None}]
        /\ subject' \in [{"listen", "work"} -> Conns \union {Nobody}]
    BY <1>0, <1>3 DEF TypeOK
  <2> QED
    BY <1>0, <1>1, <1>2, <2>1 DEF TypeOK, PcType
<1>9. PlacesInv'
    BY <1>1, <1>2 DEF Inv, PlacesInv, ListenMoved
<1>10. LocksInv'
    BY <1>1, <1>2, ThreadsDiffer DEF Inv, LocksInv, Holding, Threads, ListenMoved, HandlersStay,
      WritersStay
<1>11. HandlersInv'
  <2>1. ASSUME NEW i \in DOMAIN m_handlers, ~ClosedAt(i)
        PROVE  kernel'[fd'[m_handlers[i]]] = m_handlers[i]
    <3>1. m_handlers[i] \in Conns /\ m_handlers[i] # c /\ fd[m_handlers[i]] \in Fd
      BY <1>0, <1>4, Sequences, HandlerHasFd DEF Listed
    <3>2. kernel[fd[m_handlers[i]]] = m_handlers[i]
      BY <1>0, <2>1 DEF HandlersInv
    <3>3. fd[m_handlers[i]] # f
      BY <1>3, <3>1, <3>2, ThreadsDiffer
    <3> QED
      BY <1>0, <1>3, <3>1, <3>2, <3>3 DEF TypeOK
  <2> QED
    BY <1>0, <1>1, <1>2, <1>5, <1>7, <2>1, Sequences DEF HandlersInv, Listed, ListenMoved, HandlersStay
<1>12. NewInv'
  <2>1. \A d \in Conns : d # c => peer'[d] = peer[d] /\ fd'[d] = fd[d]
    BY <1>0, <1>3 DEF TypeOK
  <2>2. peer'[c] = "linked" /\ fd'[c] = f /\ kernel'[f] = c
    BY <1>0, <1>3 DEF TypeOK
  <2>3. ASSUME NEW d \in Conns, Fresh(d) PROVE Fresh(d)'
    BY <1>1, <1>2, <2>3, FreshKept DEF ListenMoved, HandlersStay, Listed
  <2>4. ASSUME NEW g \in Fd, g # f, kernel'[g] # Nobody
        PROVE  /\ fd'[kernel'[g]] = g
               /\ \E i \in DOMAIN m_handlers' : m_handlers'[i] = kernel'[g] /\ ~ClosedAt(i)'
    <3>1. kernel'[g] = kernel[g]
      BY <1>0, <1>3, <2>4 DEF TypeOK
    <3>2. PICK i \in DOMAIN m_handlers : m_handlers[i] = kernel[g] /\ ~ClosedAt(i)
      BY <1>0, <1>6, <2>4, <3>1 DEF NewInv
    <3>3. kernel[g] \in Conns /\ kernel[g] # c
      BY <1>0, <1>4, <3>2, Sequences DEF Listed
    <3>4. fd[kernel[g]] = g
      BY <1>0, <2>4, <3>1 DEF NewInv
    <3> QED
      BY <1>2, <1>7, <2>1, <3>1, <3>2, <3>3, <3>4
  <2>5. \A g \in Fd : kernel'[g] # Nobody =>
           /\ fd'[kernel'[g]] = g
           /\ \/ New' /\ subject'["listen"] = kernel'[g]
              \/ \E i \in DOMAIN m_handlers' : m_handlers'[i] = kernel'[g] /\ ~ClosedAt(i)'
    BY <1>5, <1>6, <2>2, <2>4
  <2>6. \A d \in Conns : IF peer'[d] = "absent" THEN Fresh(d)' ELSE fd'[d] \in Fd
    BY <1>0, <2>1, <2>2, <2>3 DEF NewInv
  <2>7. Fresh(c)'
    BY <1>4, <2>3
  <2> QED
    BY <1>1, <1>5, <2>2, <2>5, <2>6, <2>7 DEF NewInv, ListenMoved
<1>13. ServedInv'
  BY <1>1, <1>2 DEF Inv, ServedInv, Telling, ListenMoved
<1>14. QueueInv'
  <2>1. \A i \in DOMAIN m_client_events : fd'[m_client_events[i].from] = fd[m_client_events[i].from]
    BY <1>0, <1>3, <1>4, Sequences DEF Fresh, TypeOK
  <2> QED
    BY <1>0, <1>1, <1>2, <2>1, Sequences DEF QueueInv, ListenMoved, HandlersStay
<1>15. TruthInv'
  <2>1. PromptInv'
    BY <1>0, <1>1, <1>2, <1>5 DEF TruthInv, PromptInv, Listed, ListenMoved
  <2>2. ASSUME NEW d \in Conns, env.prompt, Account(d) PROVE Account(d)'
    <3>1. peer'[c] # "absent" /\ (d # c => (peer'[d] = "absent" <=> peer[d] = "absent"))
      BY <1>0, <1>3 DEF TypeOK
    <3>2. Greeted(d)' <=> Greeted(d)
      BY <1>1, <1>3, <1>5, <3>1 DEF Greeted, ListenMoved
    <3>3. Left(d)' <=> Left(d)
      BY <1>1, <1>2, <1>3, <1>5, <1>6, <3>1 DEF Left, ListenMoved
    <3> QED
      BY <1>2, <2>2, <3>2, <3>3, AccountKept
  <2> QED
    BY <1>0, <1>2, <2>1, <2>2 DEF TruthInv
<1> QED
  BY <1>1, <1>8, <1>9, <1>10, <1>11, <1>12, <1>13, <1>14, <1>15 DEF Inv

LEMMA InsertKeeps ==
    ASSUME Inv, Insert
    PROVE  Inv'
<1>1. ListenMoved("insert", "create") /\ PcType'
  BY ListenMoves DEF Inv, Insert, GoFrom, ListenSteps
<1>2. UNCHANGED <<env, state, m_handlers, m_client_events, m_server_fd, fd, kernel, peer, lines, subject, at, starts, told>>
  BY DEF Insert, server, net
<1>0. TypeOK /\ PcType /\ PlacesInv /\ LocksInv /\ HandlersInv /\ NewInv /\ ServedInv /\ QueueInv /\ TruthInv
  BY DEF Inv
<1>3. TypeOK'
    BY <1>1, <1>2, ThreadsDiffer DEF Inv, Insert, TypeOK, PcType, Take, Mutexes
<1>4. PlacesInv'
    BY <1>1, <1>2 DEF Inv, PlacesInv, ListenMoved
<1>5. LocksInv'
  BY <1>1, <1>2, ThreadsDiffer, HandlersTaken DEF Inv, Insert, ListenMoved, HandlersStay, WritersStay, Holding, SameSide, Threads
<1>6. HandlersInv'
  BY <1>1, <1>2, ThreadsDiffer, HandlersKept DEF Inv, ListenMoved, HandlersStay, ClosedAt
<1>7. NewInv'
    BY <1>1, <1>2 DEF Inv, NewInv, Fresh, New, ClosedAt, Listed, ListenMoved, HandlersStay
<1>8. ServedInv'
  BY <1>1, <1>2 DEF Inv, ServedInv, Telling, ListenMoved
<1>9. QueueInv'
  BY <1>1, <1>2, QueueKept DEF Inv, ListenMoved, HandlersStay, WritersStay
<1>10. TruthInv'
  BY <1>0, <1>1, <1>2, TruthKept DEF ListenMoved, New, UserSteps
<1> QED
  BY <1>1, <1>3, <1>4, <1>5, <1>6, <1>7, <1>8, <1>9, <1>10 DEF Inv

LEMMA HandlerReadyKeeps ==
    ASSUME Inv, HandlerReady
    PROVE  Inv'
<1>1. ListenMoved("await", "greet") /\ PcType'
  BY ListenMoves DEF Inv, HandlerReady, GoFrom, ListenSteps
<1>2. UNCHANGED <<env, state, m_handlers, m_client_events, m_server_fd, fd, kernel, peer, lines, subject, at, starts, told>>
  BY DEF HandlerReady, server, net
<1>0. TypeOK /\ PcType /\ PlacesInv /\ LocksInv /\ HandlersInv /\ NewInv /\ ServedInv /\ QueueInv /\ TruthInv
  BY DEF Inv
<1>3. TypeOK'
    BY <1>1, <1>2, ThreadsDiffer DEF Inv, HandlerReady, TypeOK, PcType, Release, Mutexes
<1>4. PlacesInv'
    BY <1>1, <1>2 DEF Inv, PlacesInv, ListenMoved
<1>5. LocksInv'
  BY <1>1, <1>2, ThreadsDiffer, HandlersReleased DEF Inv, HandlerReady, ListenMoved, HandlersStay, WritersStay, Holding, SameSide, Threads
<1>6. HandlersInv'
  BY <1>1, <1>2, ThreadsDiffer, HandlersKept DEF Inv, ListenMoved, HandlersStay, ClosedAt
<1>7. NewInv'
    BY <1>1, <1>2 DEF Inv, NewInv, Fresh, New, ClosedAt, Listed, ListenMoved, HandlersStay
<1>8. ServedInv'
  BY <1>1, <1>2 DEF Inv, ServedInv, Telling, ListenMoved
<1>9. QueueInv'
  BY <1>1, <1>2, QueueKept DEF Inv, ListenMoved, HandlersStay, WritersStay
<1>10. TruthInv'
  BY <1>0, <1>1, <1>2, TruthKept DEF ListenMoved, New, UserSteps
<1> QED
  BY <1>1, <1>3, <1>4, <1>5, <1>6, <1>7, <1>8, <1>9, <1>10 DEF Inv

LEMMA HandlerLateKeeps ==
    ASSUME Inv, HandlerLate
    PROVE  Inv'
<1>1. ListenMoved("await", "joinNew") /\ PcType'
  BY ListenMoves DEF Inv, HandlerLate, GoFrom, ListenSteps
<1>2. UNCHANGED <<env, lock, m_handlers, m_client_events, m_server_fd, fd, kernel, peer, lines, subject, at, starts, told>>
  BY DEF HandlerLate, server, net
<1>0. TypeOK /\ PcType /\ PlacesInv /\ LocksInv /\ HandlersInv /\ NewInv /\ ServedInv /\ QueueInv /\ TruthInv
  BY DEF Inv
<1>3. TypeOK'
    BY <1>1, <1>2, ThreadsDiffer DEF Inv, HandlerLate, TypeOK, PcType, RequestStop, Workers
<1>4. PlacesInv'
    BY <1>1, <1>2, ThreadsDiffer DEF Inv, HandlerLate, PlacesInv, ListenMoved, RequestStop, Workers
<1>5. LocksInv'
    BY <1>1, <1>2, ThreadsDiffer DEF Inv, LocksInv, Holding, Threads, Logs, ListenMoved,
      HandlersStay, WritersStay
<1>6. HandlersInv'
  BY <1>1, <1>2, ThreadsDiffer, HandlersKept DEF Inv, ListenMoved, HandlersStay, ClosedAt
<1>7. NewInv'
    BY <1>1, <1>2, ThreadsDiffer DEF Inv, NewInv, Fresh, New, ClosedAt, Listed, ListenMoved,
      HandlersStay
<1>8. ServedInv'
  BY <1>1, <1>2 DEF Inv, ServedInv, Telling, ListenMoved
<1>9. QueueInv'
  BY <1>1, <1>2, QueueKept DEF Inv, ListenMoved, HandlersStay, WritersStay
<1>10. TruthInv'
  BY <1>2 DEF HandlerLate, TruthInv, PromptInv
<1> QED
  BY <1>1, <1>3, <1>4, <1>5, <1>6, <1>7, <1>8, <1>9, <1>10 DEF Inv

LEMMA ReplyLockKeeps ==
    ASSUME Inv, ReplyLock
    PROVE  Inv'
<1>1. WorkMoved("reply", "send") /\ PcType'
  BY WorkMoves DEF Inv, ReplyLock, GoFrom, WorkSteps
<1>2. UNCHANGED <<env, state, m_handlers, m_client_events, m_server_fd, fd, kernel, peer, lines, subject, at, starts, told>>
  BY DEF ReplyLock, server, net
<1>0. TypeOK /\ PcType /\ PlacesInv /\ LocksInv /\ HandlersInv /\ NewInv /\ ServedInv /\ QueueInv /\ TruthInv
  BY DEF Inv
<1>3. TypeOK'
    BY <1>1, <1>2, ThreadsDiffer DEF Inv, ReplyLock, TypeOK, PcType, Take, Mutexes
<1>4. PlacesInv'
    BY <1>1, <1>2 DEF Inv, PlacesInv, WorkMoved
<1>5. LocksInv'
  BY <1>1, <1>2, ThreadsDiffer, HandlersTaken DEF Inv, ReplyLock, WorkMoved, HandlersStay, WritersStay, Holding, SameSide, Threads
<1>6. HandlersInv'
  BY <1>1, <1>2, ThreadsDiffer, HandlersKept DEF Inv, WorkMoved, HandlersStay, ClosedAt
<1>7. NewInv'
    BY <1>1, <1>2 DEF Inv, NewInv, Fresh, New, ClosedAt, Listed, WorkMoved, HandlersStay
<1>8. ServedInv'
  BY <1>1, <1>2 DEF Inv, ServedInv, Telling, WorkMoved
<1>9. QueueInv'
  BY <1>1, <1>2, QueueKept DEF Inv, WorkMoved, HandlersStay, WritersStay
<1>10. TruthInv'
  BY <1>0, <1>1, <1>2, TruthKept DEF WorkMoved, New, UserSteps
<1> QED
  BY <1>1, <1>3, <1>4, <1>5, <1>6, <1>7, <1>8, <1>9, <1>10 DEF Inv

LEMMA ReplySendKeeps ==
    ASSUME Inv, ReplySend
    PROVE  Inv'
<1>1. WorkMoved("send", "return") /\ PcType'
  BY WorkMoves DEF Inv, ReplySend, GoFrom, WorkSteps
<1>2. UNCHANGED <<env, state, m_handlers, m_client_events, m_server_fd, fd, kernel, peer, lines, subject, at, starts, told>>
  BY DEF ReplySend, server, net
<1>0. TypeOK /\ PcType /\ PlacesInv /\ LocksInv /\ HandlersInv /\ NewInv /\ ServedInv /\ QueueInv /\ TruthInv
  BY DEF Inv
<1>3. TypeOK'
    BY <1>1, <1>2, ThreadsDiffer DEF Inv, ReplySend, TypeOK, PcType, Release, Mutexes
<1>4. PlacesInv'
    BY <1>1, <1>2 DEF Inv, PlacesInv, WorkMoved
<1>5. LocksInv'
  BY <1>1, <1>2, ThreadsDiffer, HandlersReleased DEF Inv, ReplySend, WorkMoved, HandlersStay, WritersStay, Holding, SameSide, Threads
<1>6. HandlersInv'
  BY <1>1, <1>2, ThreadsDiffer, HandlersKept DEF Inv, WorkMoved, HandlersStay, ClosedAt
<1>7. NewInv'
    BY <1>1, <1>2 DEF Inv, NewInv, Fresh, New, ClosedAt, Listed, WorkMoved, HandlersStay
<1>8. ServedInv'
  BY <1>1, <1>2 DEF Inv, ServedInv, Telling, WorkMoved
<1>9. QueueInv'
  BY <1>1, <1>2, QueueKept DEF Inv, WorkMoved, HandlersStay, WritersStay
<1>10. TruthInv'
  BY <1>0, <1>1, <1>2, TruthKept DEF WorkMoved, New, UserSteps
<1> QED
  BY <1>1, <1>3, <1>4, <1>5, <1>6, <1>7, <1>8, <1>9, <1>10 DEF Inv

LEMMA CloseClientKeeps ==
    ASSUME Inv, CloseClient
    PROVE  Inv'
<1>1. WorkMoved("closeClient", "find") /\ PcType'
  BY WorkMoves DEF Inv, CloseClient, GoFrom, WorkSteps
<1>2. UNCHANGED <<env, state, m_handlers, m_client_events, m_server_fd, fd, kernel, peer, lines, subject, at, starts, told>>
  BY DEF CloseClient, server, net
<1>0. TypeOK /\ PcType /\ PlacesInv /\ LocksInv /\ HandlersInv /\ NewInv /\ ServedInv /\ QueueInv /\ TruthInv
  BY DEF Inv
<1>3. TypeOK'
    BY <1>1, <1>2, ThreadsDiffer DEF Inv, CloseClient, TypeOK, PcType, Take, Mutexes
<1>4. PlacesInv'
    BY <1>1, <1>2 DEF Inv, PlacesInv, WorkMoved
<1>5. LocksInv'
  BY <1>1, <1>2, ThreadsDiffer, HandlersTaken DEF Inv, CloseClient, WorkMoved, HandlersStay, WritersStay, Holding, SameSide, Threads
<1>6. HandlersInv'
  BY <1>1, <1>2, ThreadsDiffer, HandlersKept DEF Inv, WorkMoved, HandlersStay, ClosedAt
<1>7. NewInv'
    BY <1>1, <1>2 DEF Inv, NewInv, Fresh, New, ClosedAt, Listed, WorkMoved, HandlersStay
<1>8. ServedInv'
  BY <1>1, <1>2 DEF Inv, ServedInv, Telling, WorkMoved
<1>9. QueueInv'
  BY <1>1, <1>2, QueueKept DEF Inv, WorkMoved, HandlersStay, WritersStay
<1>10. TruthInv'
  BY <1>0, <1>1, <1>2, TruthKept DEF WorkMoved, New, UserSteps
<1> QED
  BY <1>1, <1>3, <1>4, <1>5, <1>6, <1>7, <1>8, <1>9, <1>10 DEF Inv

LEMMA FindHandlerKeeps ==
    ASSUME Inv, FindHandler
    PROVE  Inv'
<1>1. WorkMoved("find", "join") /\ PcType'
  BY WorkMoves DEF Inv, FindHandler, GoFrom, WorkSteps
<1>2. UNCHANGED <<env, lock, m_handlers, m_client_events, m_server_fd, fd, kernel, peer, lines, at, starts, told>>
  BY DEF FindHandler, server, net
<1>0. TypeOK /\ PcType /\ PlacesInv /\ LocksInv /\ HandlersInv /\ NewInv /\ ServedInv /\ QueueInv /\ TruthInv
  BY DEF Inv
<1>3. PICK it \in DOMAIN m_handlers :
           /\ state' = [state EXCEPT ![m_handlers[it]] = "STOPPING"]
           /\ subject' = [subject EXCEPT !["work"] = m_handlers[it]]
  BY DEF FindHandler, Least, Found, RequestStop
<1>4. m_handlers[it] \in Conns /\ Listed(m_handlers[it])
  BY <1>0, Sequences DEF Listed
<1>5. subject'["work"] = m_handlers[it] /\ subject'["listen"] = subject["listen"]
  BY <1>0, <1>3 DEF TypeOK
<1>6. TypeOK'
  <2>1. /\ subject' \in [{"listen", "work"} -> Conns \union {Nobody}]
        /\ state' \in [Workers -> {"STOPPED", "RUNNING", "STOPPING"}]
    BY <1>0, <1>3, <1>4 DEF TypeOK
  <2> QED
    BY <1>0, <1>1, <1>2, <2>1 DEF TypeOK, PcType
<1>7. PlacesInv'
  <2>1. state'["listen"] = state["listen"] /\ state'["work"] = state["work"]
    BY <1>0, <1>3, <1>4, ThreadsDiffer DEF TypeOK, Workers
  <2> QED
    BY <1>0, <1>1, <1>2, <2>1 DEF PlacesInv, WorkMoved
<1>8. LocksInv'
    BY <1>1, <1>2, ThreadsDiffer DEF Inv, LocksInv, Holding, Threads, Logs, WorkMoved, HandlersStay,
      WritersStay
<1>9. HandlersInv'
  <2>1. \A i \in DOMAIN m_handlers : ClosedAt(i)' <=> ClosedAt(i)
    BY <1>1, <1>2 DEF ClosedAt, WorkMoved
  <2>2. \A i : Listed(i)' <=> Listed(i)
    BY <1>2 DEF Listed
  <2> QED
    BY <1>0, <1>1, <1>2, <1>4, <1>5, <2>1, <2>2, Sequences DEF HandlersInv, WorkMoved, HandlersStay
<1>10. NewInv'
  <2>1. \A i \in DOMAIN m_handlers : ClosedAt(i)' <=> ClosedAt(i)
    BY <1>1, <1>2 DEF ClosedAt, WorkMoved
  <2> QED
    BY <1>0, <1>1, <1>2, <1>5, <2>1 DEF NewInv, New, Fresh, Listed, WorkMoved, HandlersStay
<1>11. ServedInv'
  BY <1>1, <1>2 DEF Inv, ServedInv, Telling, WorkMoved
<1>12. QueueInv'
  BY <1>1, <1>2, QueueKept DEF Inv, WorkMoved, HandlersStay, WritersStay
<1>13. TruthInv'
  <2>1. m_client_events # <<>> /\ Head(m_client_events) = m_client_events[1] /\ 1 \in DOMAIN m_client_events
    BY <1>0, <1>1 DEF ServedInv, WorkMoved, TypeOK
  <2> DEFINE h == Head(m_client_events).from
  <2>2. h \in Conns /\ Head(m_client_events).id = fd[h]
    BY <1>0, <2>1, Sequences DEF QueueInv
  <2>3. \A i : ~ClosedAt(i)
    BY <1>0, <1>1 DEF PlacesInv, WorkMoved, ClosedAt
  <2>4. ASSUME env.prompt PROVE Listed(h)
    BY <1>0, <1>1, <2>1, <2>4 DEF TruthInv, PromptInv, WorkMoved
  <2>20. PromptInv'
    <3>1. PICK k \in DOMAIN m_handlers : /\ fd[m_handlers[k]] = fd[h]
                                          /\ subject' = [subject EXCEPT !["work"] = m_handlers[k]]
      BY <2>2 DEF FindHandler, Least, Found
    <3>2. subject'["work"] = m_handlers[k] /\ kernel[fd[m_handlers[k]]] = m_handlers[k]
      BY <1>0, <2>3, <3>1 DEF TypeOK, HandlersInv
    <3>3. env.prompt => kernel[fd[h]] = h
      BY <1>0, <2>3, <2>4 DEF HandlersInv, Listed
    <3>4. env.prompt => subject'["work"] = h
      BY <3>1, <3>2, <3>3
    <3> QED
      BY <1>0, <1>1, <1>2, <3>4 DEF TruthInv, PromptInv, Listed, WorkMoved
  <2>21. ASSUME NEW c \in Conns, env.prompt, Account(c) PROVE Account(c)'
    <3>1. subject'["listen"] = subject["listen"]
      BY <1>0 DEF FindHandler, TypeOK
    <3>2. Greeted(c)' <=> Greeted(c)
      BY <1>1, <1>2, <3>1 DEF Greeted, WorkMoved
    <3>3. Left(c)' <=> Left(c)
      BY <1>1, <1>2, <3>1 DEF Left, New, WorkMoved
    <3> QED
      BY <1>2, <2>21, <3>2, <3>3, AccountKept
  <2> QED
    BY <1>0, <1>2, <2>20, <2>21 DEF TruthInv
<1> QED
  BY <1>1, <1>6, <1>7, <1>8, <1>9, <1>10, <1>11, <1>12, <1>13 DEF Inv

LEMMA FindNoneKeeps ==
    ASSUME Inv, FindNone
    PROVE  Inv'
<1>1. WorkMoved("find", "tellGone") /\ PcType'
  BY WorkMoves DEF Inv, FindNone, GoFrom, WorkSteps
<1>2. UNCHANGED <<env, state, m_handlers, m_client_events, m_server_fd, fd, kernel, peer, lines, subject, at, starts, told>>
  BY DEF FindNone, server, net
<1>0. TypeOK /\ PcType /\ PlacesInv /\ LocksInv /\ HandlersInv /\ NewInv /\ ServedInv /\ QueueInv /\ TruthInv
  BY DEF Inv
<1>3. TypeOK'
    BY <1>1, <1>2, ThreadsDiffer DEF Inv, FindNone, TypeOK, PcType, Release, Mutexes
<1>4. PlacesInv'
    BY <1>1, <1>2 DEF Inv, PlacesInv, WorkMoved
<1>5. LocksInv'
  BY <1>1, <1>2, ThreadsDiffer, HandlersReleased DEF Inv, FindNone, WorkMoved, HandlersStay, WritersStay, Holding, SameSide, Threads
<1>6. HandlersInv'
  BY <1>1, <1>2, ThreadsDiffer, HandlersKept DEF Inv, WorkMoved, HandlersStay, ClosedAt
<1>7. NewInv'
    BY <1>1, <1>2 DEF Inv, NewInv, Fresh, New, ClosedAt, Listed, WorkMoved, HandlersStay
<1>8. ServedInv'
  BY <1>1, <1>2 DEF Inv, ServedInv, Telling, WorkMoved
<1>9. QueueInv'
  BY <1>1, <1>2, QueueKept DEF Inv, WorkMoved, HandlersStay, WritersStay
<1>10. TruthInv'
  <2>1. m_client_events # <<>> /\ Head(m_client_events) = m_client_events[1] /\ 1 \in DOMAIN m_client_events
    BY <1>0, <1>1 DEF ServedInv, WorkMoved, TypeOK
  <2> DEFINE h == Head(m_client_events).from
  <2>2. h \in Conns /\ Head(m_client_events).id = fd[h]
    BY <1>0, <2>1, Sequences DEF QueueInv
  <2>3. \A i : ~ClosedAt(i)
    BY <1>0, <1>1 DEF PlacesInv, WorkMoved, ClosedAt
  <2>4. ASSUME env.prompt PROVE Listed(h)
    BY <1>0, <1>1, <2>1, <2>4 DEF TruthInv, PromptInv, WorkMoved
  <2>5. ~env.prompt
    BY <2>2, <2>4 DEF FindNone, Found, Listed
  <2> QED
    BY <1>2, <2>5 DEF TruthInv, PromptInv
<1> QED
  BY <1>1, <1>3, <1>4, <1>5, <1>6, <1>7, <1>8, <1>9, <1>10 DEF Inv

LEMMA JoinHandlerKeeps ==
    ASSUME Inv, JoinHandler
    PROVE  Inv'
<1>1. WorkMoved("join", "erase") /\ PcType'
  BY WorkMoves DEF Inv, JoinHandler, GoFrom, WorkSteps
<1>2. UNCHANGED <<env, lock, state, m_handlers, m_client_events, m_server_fd, fd, peer, lines, subject, at, starts, told>>
  BY DEF JoinHandler, server, net
<1>0. TypeOK /\ PcType /\ PlacesInv /\ LocksInv /\ HandlersInv /\ NewInv /\ ServedInv /\ QueueInv /\ TruthInv
  BY DEF Inv
<1> DEFINE h == subject["work"]
<1>3. Listed(h) /\ pc[h] = "off"
  BY <1>0, <1>1 DEF HandlersInv, WorkMoved, JoinHandler, Joined
<1>4. PICK k \in DOMAIN m_handlers : m_handlers[k] = h
  BY <1>3 DEF Listed
<1>5. h \in Conns /\ fd[h] \in Fd /\ kernel' = [kernel EXCEPT ![fd[h]] = Nobody]
  BY <1>0, <1>3, <1>4, Sequences, HandlerHasFd DEF JoinHandler, CloseFd
<1>6. pc["user"] \notin {"closeEach", "joinEach", "tellEach"}
  BY <1>0, <1>1 DEF PlacesInv, WorkMoved
<1>7. \A i \in DOMAIN m_handlers : ~ClosedAt(i) /\ (ClosedAt(i)' <=> i = k)
  BY <1>0, <1>1, <1>2, <1>4, <1>6 DEF ClosedAt, WorkMoved, HandlersInv
<1>8. kernel[fd[h]] = h
  BY <1>0, <1>4, <1>7 DEF HandlersInv
<1> HIDE DEF h
<1>9. TypeOK'
  BY <1>0, <1>1, <1>2 DEF JoinHandler, CloseFd, TypeOK, PcType
<1>10. PlacesInv'
    BY <1>1, <1>2 DEF Inv, JoinHandler, PlacesInv, Joined, WorkMoved
<1>11. LocksInv'
    BY <1>1, <1>2, ThreadsDiffer DEF Inv, LocksInv, Holding, Threads, WorkMoved, HandlersStay,
      WritersStay
<1>12. HandlersInv'
  <2>1. ASSUME NEW i \in DOMAIN m_handlers, i # k
        PROVE  kernel'[fd[m_handlers[i]]] = m_handlers[i]
    <3>1. m_handlers[i] # h /\ kernel[fd[m_handlers[i]]] = m_handlers[i]
      BY <1>0, <1>4, <1>7, <2>1 DEF HandlersInv
    <3>2. fd[m_handlers[i]] # fd[h]
      BY <1>8, <3>1
    <3> QED
      BY <1>0, <1>5, <3>1, <3>2, Sequences, HandlerHasFd DEF TypeOK, Listed
  <2> QED
    BY <1>0, <1>1, <1>2, <1>3, <1>4, <1>7, <2>1, Sequences DEF HandlersInv, Listed, WorkMoved, HandlersStay, h
<1>13. NewInv'
  <2>1. ASSUME NEW f \in Fd, kernel'[f] # Nobody
        PROVE  /\ fd'[kernel'[f]] = f
               /\ \/ New' /\ subject'["listen"] = kernel'[f]
                  \/ \E i \in DOMAIN m_handlers' : m_handlers'[i] = kernel'[f] /\ ~ClosedAt(i)'
    <3>1. f # fd[h] /\ kernel'[f] = kernel[f]
      BY <1>0, <1>5, <2>1 DEF TypeOK
    <3>2. fd[kernel[f]] = f
      BY <1>0, <2>1, <3>1 DEF NewInv
    <3>3. CASE New /\ subject["listen"] = kernel[f]
      BY <1>1, <1>2, <3>1, <3>2, <3>3 DEF New, WorkMoved
    <3>4. CASE \E i \in DOMAIN m_handlers : m_handlers[i] = kernel[f]
      <4>1. PICK i \in DOMAIN m_handlers : m_handlers[i] = kernel[f]
        BY <3>4
      <4>2. i # k
        BY <1>4, <3>1, <3>2, <4>1
      <4> QED
        BY <1>2, <1>7, <3>1, <3>2, <4>1, <4>2
    <3> QED
      BY <1>0, <2>1, <3>1, <3>3, <3>4 DEF NewInv
  <2>2. \A c \in Conns : Fresh(c) => Fresh(c)'
    BY <1>1, <1>2, FreshKept DEF WorkMoved, HandlersStay, Listed
  <2>3. New' => /\ Fresh(subject["listen"])' /\ kernel'[fd[subject["listen"]]] = subject["listen"]
    <3> SUFFICES ASSUME New PROVE /\ Fresh(subject["listen"])'
                                  /\ kernel'[fd[subject["listen"]]] = subject["listen"]
      BY <1>1 DEF New, WorkMoved
    <3>1. subject["listen"] \in Conns /\ Fresh(subject["listen"]) /\ fd[subject["listen"]] \in Fd
          /\ kernel[fd[subject["listen"]]] = subject["listen"]
      BY <1>0 DEF NewInv, New
    <3>2. fd[subject["listen"]] # fd[h]
      BY <1>3, <1>8, <3>1 DEF Fresh
    <3>3. Fresh(subject["listen"])'
      BY <1>1, <1>2, <2>2, <3>1 DEF Fresh, WorkMoved, HandlersStay, Listed
    <3> QED
      BY <1>0, <1>5, <3>1, <3>2, <3>3 DEF TypeOK
  <2> QED
    BY <1>0, <1>1, <1>2, <2>1, <2>2, <2>3 DEF NewInv, New, WorkMoved, HandlersStay
<1>14. ServedInv'
  BY <1>1, <1>2 DEF Inv, ServedInv, Telling, WorkMoved
<1>15. QueueInv'
  BY <1>1, <1>2, QueueKept DEF Inv, WorkMoved, HandlersStay, WritersStay
<1>16. TruthInv'
  BY <1>0, <1>1, <1>2, TruthKept DEF WorkMoved, New, UserSteps
<1> QED
  BY <1>1, <1>9, <1>10, <1>11, <1>12, <1>13, <1>14, <1>15, <1>16 DEF Inv

LEMMA EraseHandlerKeeps ==
    ASSUME Inv, EraseHandler
    PROVE  Inv'
<1>1. WorkMoved("erase", "tellGone") /\ PcType'
  BY WorkMoves DEF Inv, EraseHandler, GoFrom, WorkSteps
<1>2. UNCHANGED <<env, state, m_client_events, m_server_fd, fd, kernel, peer, lines, subject, at, starts, told>>
  BY DEF EraseHandler, server, net
<1>0. TypeOK /\ PcType /\ PlacesInv /\ LocksInv /\ HandlersInv /\ NewInv /\ ServedInv /\ QueueInv /\ TruthInv
  BY DEF Inv
<1> DEFINE h == subject["work"]
<1>3. PICK it \in 1 .. Len(m_handlers) :
           m_handlers[it] = h /\ m_handlers' = Without(m_handlers, it)
  BY <1>0, Sequences DEF EraseHandler, Without
<1>4. m_handlers \in Seq(Conns)
  BY <1>0 DEF TypeOK
<1>5. /\ m_handlers' \in Seq(Conns) /\ Len(m_handlers') = Len(m_handlers) - 1
      /\ \A i \in 1 .. Len(m_handlers) - 1 :
             m_handlers'[i] = IF i < it THEN m_handlers[i] ELSE m_handlers[i + 1]
  BY <1>3, <1>4, WithoutOne
<1>6. DOMAIN m_handlers' = 1 .. Len(m_handlers) - 1 /\ Len(m_handlers) \in Nat
  BY <1>0, <1>5, Sequences
\* Where a handler was and where it is now.
<1>7. \A i \in DOMAIN m_handlers' : \E k \in DOMAIN m_handlers :
           k # it /\ m_handlers'[i] = m_handlers[k] /\ k = IF i < it THEN i ELSE i + 1
  BY <1>0, <1>5, <1>6, Sequences
<1>8. \A k \in DOMAIN m_handlers : k # it => \E i \in DOMAIN m_handlers' : m_handlers'[i] = m_handlers[k]
  <2> SUFFICES ASSUME NEW k \in DOMAIN m_handlers, k # it
               PROVE  \E i \in DOMAIN m_handlers' : m_handlers'[i] = m_handlers[k]
    OBVIOUS
  <2>1. CASE k < it
    <3>1. k \in DOMAIN m_handlers' /\ m_handlers'[k] = m_handlers[k]
      BY <1>0, <1>5, <1>6, <2>1, Sequences
    <3> QED
      BY <3>1
  <2>2. CASE k > it
    <3>1. k - 1 \in DOMAIN m_handlers' /\ m_handlers'[k - 1] = m_handlers[k]
      BY <1>0, <1>5, <1>6, <2>2, Sequences
    <3> QED
      BY <3>1
  <2> QED
    BY <1>0, <2>1, <2>2, Sequences
<1>9. pc["user"] \notin {"closeEach", "joinEach", "tellEach"}
  BY <1>0, <1>1 DEF PlacesInv, WorkMoved
<1>10. \A i \in DOMAIN m_handlers' : ~ClosedAt(i)'
  BY <1>1, <1>9 DEF ClosedAt, WorkMoved
<1>11. it \in DOMAIN m_handlers /\ \A k \in DOMAIN m_handlers : ClosedAt(k) <=> k = it
  BY <1>0, <1>1, <1>3, <1>9, Sequences DEF ClosedAt, WorkMoved, HandlersInv, h
<1> HIDE DEF h
<1>12. TypeOK'
  BY <1>0, <1>1, <1>2, <1>5 DEF EraseHandler, Release, TypeOK, PcType
<1>13. PlacesInv'
    BY <1>1, <1>2 DEF Inv, PlacesInv, WorkMoved
<1>14. LocksInv'
  BY <1>1, <1>2, ThreadsDiffer, HandlersReleased DEF Inv, EraseHandler, WorkMoved, HandlersStay, WritersStay, Holding, SameSide, Threads
<1>15. HandlersInv'
  <2>1. \A i, j \in DOMAIN m_handlers' : m_handlers'[i] = m_handlers'[j] => i = j
    <3> SUFFICES ASSUME NEW i \in DOMAIN m_handlers', NEW j \in DOMAIN m_handlers',
                        m_handlers'[i] = m_handlers'[j]
                 PROVE  i = j
      OBVIOUS
    <3>1. PICK k \in DOMAIN m_handlers : k # it /\ m_handlers'[i] = m_handlers[k] /\ k = IF i < it THEN i ELSE i + 1
      BY <1>7
    <3>2. PICK l \in DOMAIN m_handlers : l # it /\ m_handlers'[j] = m_handlers[l] /\ l = IF j < it THEN j ELSE j + 1
      BY <1>7
    <3>3. k = l
      BY <1>0, <3>1, <3>2 DEF HandlersInv
    <3> QED
      BY <1>0, <1>6, <3>1, <3>2, <3>3, Sequences
  <2>2. \A c \in Conns : pc'[c] # "off" => Listed(c)'
    <3> SUFFICES ASSUME NEW c \in Conns, pc'[c] # "off" PROVE Listed(c)'
      OBVIOUS
    <3>1. pc[c] # "off"
      BY <1>1 DEF WorkMoved, HandlersStay
    <3>2. PICK k \in DOMAIN m_handlers : m_handlers[k] = c
      BY <1>0, <3>1 DEF HandlersInv, Listed
    <3>3. k # it
      BY <1>0, <1>11, <3>1, <3>2 DEF HandlersInv
    <3> QED
      BY <1>8, <3>2, <3>3 DEF Listed
  <2>3. \A i \in DOMAIN m_handlers' : kernel'[fd'[m_handlers'[i]]] = m_handlers'[i]
    BY <1>0, <1>2, <1>7, <1>11 DEF HandlersInv
  <2> QED
    BY <1>1, <1>10, <2>1, <2>2, <2>3 DEF HandlersInv, WorkMoved
<1>16. NewInv'
  <2>1. \A c : Listed(c)' => Listed(c)
    BY <1>7 DEF Listed
  <2>2. \A c \in Conns : Fresh(c) => Fresh(c)'
    BY <1>1, <1>2, <2>1, FreshKept DEF WorkMoved, HandlersStay
  <2>3. ASSUME NEW f \in Fd, kernel[f] # Nobody, ~(New /\ subject["listen"] = kernel[f])
         PROVE  \E i \in DOMAIN m_handlers' : m_handlers'[i] = kernel[f] /\ ~ClosedAt(i)'
    <3>1. PICK k \in DOMAIN m_handlers : m_handlers[k] = kernel[f] /\ ~ClosedAt(k)
      BY <1>0, <2>3 DEF NewInv
    <3>2. PICK i \in DOMAIN m_handlers' : m_handlers'[i] = m_handlers[k]
      BY <1>8, <1>11, <3>1
    <3> QED
      BY <1>10, <3>1, <3>2
  <2>4. pc["listen"] \notin {"await", "joinNew"}
    BY <1>0, <1>1, ThreadsDiffer DEF LocksInv, Holding, WorkMoved
  <2> QED
    BY <1>0, <1>1, <1>2, <2>2, <2>3, <2>4 DEF NewInv, New, WorkMoved
<1>17. ServedInv'
  BY <1>1, <1>2 DEF Inv, ServedInv, Telling, WorkMoved
<1>18. QueueInv'
  BY <1>1, <1>2, QueueKept DEF Inv, WorkMoved, HandlersStay, WritersStay
<1>19. TruthInv'
  <2>1. PromptInv'
    <3>1. \A d : Listed(d) /\ d # h => Listed(d)'
      BY <1>3, <1>8 DEF Listed
    <3>2. \A d : d = h => ~Listed(d)'
      <4>1. \A i \in DOMAIN m_handlers' : m_handlers'[i] # h
        BY <1>0, <1>3, <1>7, <1>11 DEF HandlersInv
      <4> QED
        BY <4>1 DEF Listed
    <3>3. /\ m_client_events # <<>> /\ Head(m_client_events).kind = "gone"
          /\ Head(m_client_events) = m_client_events[1] /\ 1 \in DOMAIN m_client_events
      BY <1>0, <1>1, Sequences DEF ServedInv, Telling, WorkMoved, TypeOK
    <3>4. \A i \in DOMAIN m_client_events : i # 1 => m_client_events[i].from # Head(m_client_events).from
      BY <1>0, <3>3, Sequences DEF QueueInv
    <3>5. env.prompt => Head(m_client_events).from = h
      BY <1>0, <1>1 DEF TruthInv, PromptInv, WorkMoved, h
    <3>6. env.prompt => \A i \in DOMAIN m_client_events : Listed(m_client_events[i].from)
      BY <1>0, <1>1 DEF TruthInv, PromptInv, WorkMoved
    <3>7. env.prompt => \A i \in DOMAIN m_client_events : Listed(m_client_events[i].from)' \/ i = 1
      BY <1>2, <3>1, <3>4, <3>5, <3>6
    <3>8. env.prompt => ~Listed(Head(m_client_events).from)'
      BY <1>2, <3>2, <3>5
    <3> QED
      BY <1>1, <1>2, <3>7, <3>8 DEF PromptInv, WorkMoved
  <2>2. ASSUME NEW c \in Conns, env.prompt, Account(c) PROVE Account(c)'
    <3>1. Greeted(c)' <=> Greeted(c)
      BY <1>1, <1>2 DEF Greeted, WorkMoved
    <3>2. Left(c)' <=> Left(c)
      <4>1. Head(m_client_events).from = h /\ Listed(h)
        BY <1>0, <1>1, <2>2 DEF TruthInv, PromptInv, HandlersInv, WorkMoved, h
      <4>2. CASE c = h
        <5>1. ~Left(c)
          BY <1>9, <4>1, <4>2 DEF Left, Listed
        <5>2. ~Left(c)'
          BY <1>1, <1>2, <4>1, <4>2 DEF Left, WorkMoved
        <5> QED
          BY <5>1, <5>2
      <4>3. CASE c # h
        <5>1. (\E i \in DOMAIN m_handlers' : m_handlers'[i] = c) <=> (\E i \in DOMAIN m_handlers : m_handlers[i] = c)
          BY <1>3, <1>7, <1>8, <4>3
        <5> QED
          BY <1>1, <1>2, <1>9, <1>11, <4>1, <4>3, <5>1 DEF Left, New, WorkMoved
      <4> QED
        BY <4>2, <4>3
    <3> QED
      BY <1>2, <2>2, <3>1, <3>2, AccountKept
  <2> QED
    BY <1>0, <1>2, <2>1, <2>2 DEF TruthInv
<1> QED
  BY <1>1, <1>12, <1>13, <1>14, <1>15, <1>16, <1>17, <1>18, <1>19 DEF Inv

LEMMA HandlerBeginKeeps ==
    ASSUME Inv, NEW c \in Conns, HandlerBegin(c)
    PROVE  Inv'
<1>1. HandlerMoved(c, "born", "recv") /\ PcType'
  BY HandlerMoves DEF Inv, HandlerBegin, GoFrom, HandlerSteps
<1>2. UNCHANGED <<env, lock, m_handlers, m_client_events, m_server_fd, fd, kernel, peer, lines, subject, at, starts, told>>
  BY DEF HandlerBegin, server, net
<1>0. TypeOK /\ PcType /\ PlacesInv /\ LocksInv /\ HandlersInv /\ NewInv /\ ServedInv /\ QueueInv /\ TruthInv
  BY DEF Inv
<1>3. TypeOK'
    BY <1>1, <1>2, ThreadsDiffer DEF Inv, HandlerBegin, TypeOK, PcType, Workers
<1>4. PlacesInv'
    BY <1>1, <1>2, ThreadsDiffer DEF Inv, HandlerBegin, PlacesInv, HandlerMoved, Workers
<1>5. LocksInv'
    BY <1>1, <1>2, ThreadsDiffer DEF Inv, LocksInv, Holding, Threads, HandlerMoved, HandlersStay,
      WritersStay
<1>6. HandlersInv'
  BY <1>1, <1>2, ThreadsDiffer, HandlersKept DEF Inv, HandlerMoved, HandlersStay, ClosedAt
<1>7. NewInv'
    BY <1>1, <1>2, ThreadsDiffer DEF Inv, NewInv, Fresh, New, ClosedAt, Listed, HandlerMoved,
      HandlersStay
<1>8. ServedInv'
  BY <1>1, <1>2 DEF Inv, ServedInv, Telling, HandlerMoved
<1>9. QueueInv'
  BY <1>1, <1>2, QueueKept DEF Inv, HandlerMoved, HandlersStay, WritersStay
<1>10. TruthInv'
  BY <1>0, <1>1, <1>2, TruthKept DEF HandlerMoved, New, UserSteps
<1> QED
  BY <1>1, <1>3, <1>4, <1>5, <1>6, <1>7, <1>8, <1>9, <1>10 DEF Inv

LEMMA PostGoneKeeps ==
    ASSUME Inv, NEW c \in Conns, PostGone(c)
    PROVE  Inv'
<1>1. HandlerMoved(c, "postGone", "leave") /\ PcType'
  BY HandlerMoves DEF Inv, PostGone, GoFrom, HandlerSteps
<1>2. UNCHANGED <<env, lock, state, m_handlers, m_server_fd, fd, kernel, peer, lines, subject, at, starts, told>>
  BY DEF PostGone, server, net
<1>0. TypeOK /\ PcType /\ PlacesInv /\ LocksInv /\ HandlersInv /\ NewInv /\ ServedInv /\ QueueInv /\ TruthInv
  BY DEF Inv
<1>3. /\ m_client_events' \in Seq(Event) /\ m_client_events' # <<>>
      /\ m_client_events # <<>> => Head(m_client_events') = Head(m_client_events)
      /\ \A i \in DOMAIN m_client_events' :
             \/ m_client_events'[i].from = c
             \/ i \in DOMAIN m_client_events /\ m_client_events'[i] = m_client_events[i]
      /\ \A d \in Conns : Fresh(d) => Fresh(d)'
      /\ QueueInv'
  BY <1>0, <1>1, <1>2, StoresEvent DEF PostGone, HandlerMoved
<1>4. TypeOK'
  BY <1>0, <1>1, <1>2, <1>3 DEF TypeOK, PcType
<1>5. PlacesInv'
    BY <1>1, <1>2 DEF Inv, PlacesInv, HandlerMoved
<1>6. LocksInv'
    BY <1>1, <1>2, ThreadsDiffer DEF Inv, LocksInv, Holding, Threads, HandlerMoved, HandlersStay,
      WritersStay
<1>7. HandlersInv'
  BY <1>1, <1>2, ThreadsDiffer, HandlersKept DEF Inv, HandlerMoved, HandlersStay, ClosedAt
<1>8. NewInv'
  <2>1. \A i : ClosedAt(i)' <=> ClosedAt(i)
    BY <1>1, <1>2 DEF ClosedAt, HandlerMoved
  <2> QED
    BY <1>0, <1>1, <1>2, <1>3, <2>1 DEF NewInv, New, HandlerMoved
<1>9. ServedInv'
  BY <1>0, <1>1, <1>3 DEF ServedInv, HandlerMoved
<1>10. QueueInv'
  BY <1>3
<1>11. TruthInv'
  <2>1. pc["work"] \notin {"join", "erase", "tellGone"}
    BY <1>0 DEF PostGone, StoreEvent, LocksInv, Nobody
  <2>2. PromptInv'
    <3>1. \A d : Listed(d)' <=> Listed(d)
      BY <1>2 DEF Listed
    <3>2. Listed(c)
      BY <1>0, <1>1, HandlerHasFd DEF HandlerMoved
    <3> QED
      BY <1>0, <1>1, <1>2, <1>3, <2>1, <3>1, <3>2 DEF TruthInv, PromptInv, HandlerMoved
  <2>3. ASSUME NEW d \in Conns, env.prompt, Account(d) PROVE Account(d)'
    <3>1. Greeted(d)' <=> Greeted(d)
      BY <1>1, <1>2 DEF Greeted, HandlerMoved
    <3>2. Left(d)' <=> Left(d)
      BY <1>1, <1>2, <2>1 DEF Left, New, HandlerMoved
    <3> QED
      BY <1>2, <2>3, <3>1, <3>2, AccountKept
  <2> QED
    BY <1>0, <1>2, <2>2, <2>3 DEF TruthInv
<1> QED
  BY <1>1, <1>4, <1>5, <1>6, <1>7, <1>8, <1>9, <1>10, <1>11 DEF Inv

LEMMA LeaveKeeps ==
    ASSUME Inv, NEW c \in Conns, Leave(c)
    PROVE  Inv'
<1>1. HandlerMoved(c, "leave", "off") /\ PcType'
  BY HandlerMoves DEF Inv, Leave, GoFrom, HandlerSteps
<1>2. UNCHANGED <<env, lock, m_handlers, m_client_events, m_server_fd, fd, kernel, peer, lines, subject, at, starts, told>>
  BY DEF Leave, server, net
<1>0. TypeOK /\ PcType /\ PlacesInv /\ LocksInv /\ HandlersInv /\ NewInv /\ ServedInv /\ QueueInv /\ TruthInv
  BY DEF Inv
<1>3. TypeOK'
    BY <1>1, <1>2, ThreadsDiffer DEF Inv, Leave, TypeOK, PcType, Workers
<1>4. PlacesInv'
    BY <1>1, <1>2, ThreadsDiffer DEF Inv, Leave, PlacesInv, HandlerMoved, Workers
<1>5. LocksInv'
    BY <1>1, <1>2, ThreadsDiffer DEF Inv, LocksInv, Holding, Threads, HandlerMoved, HandlersStay,
      WritersStay
<1>6. HandlersInv'
  <2>1. \A i : ClosedAt(i)' <=> ClosedAt(i)
    BY <1>1, <1>2 DEF ClosedAt, HandlerMoved
  <2>2. \A d : Listed(d)' <=> Listed(d)
    BY <1>2 DEF Listed
  <2> QED
    BY <1>0, <1>1, <1>2, <2>1, <2>2, Sequences DEF HandlersInv, HandlerMoved
<1>7. NewInv'
    BY <1>1, <1>2, ThreadsDiffer DEF Inv, NewInv, Fresh, New, ClosedAt, Listed, HandlerMoved,
      HandlersStay
<1>8. ServedInv'
  BY <1>1, <1>2 DEF Inv, ServedInv, Telling, HandlerMoved
<1>9. QueueInv'
  BY <1>1, <1>2, QueueKept DEF Inv, HandlerMoved, HandlersStay, WritersStay
<1>10. TruthInv'
  BY <1>0, <1>1, <1>2, TruthKept DEF HandlerMoved, New, UserSteps
<1> QED
  BY <1>1, <1>3, <1>4, <1>5, <1>6, <1>7, <1>8, <1>9, <1>10 DEF Inv

LEMMA RecvKeeps ==
    ASSUME Inv, NEW c \in Conns, Recv(c)
    PROVE  Inv'
<1>1. PICK s \in {"recv", "leave", "post", "postGone"} : HandlerMoved(c, "recv", s) /\ PcType'
  BY HandlerMoves DEF Inv, Recv, GoFrom, HandlerSteps, Again
<1>2. UNCHANGED <<env, lock, state, m_handlers, m_client_events, m_server_fd, fd, kernel, peer, lines, subject, at, starts, told>>
  BY DEF Recv, server, net
<1>0. TypeOK /\ PcType /\ PlacesInv /\ LocksInv /\ HandlersInv /\ NewInv /\ ServedInv /\ QueueInv /\ TruthInv
  BY DEF Inv
<1>3. TypeOK'
    BY <1>1, <1>2 DEF Inv, TypeOK, PcType
<1>4. PlacesInv'
    BY <1>1, <1>2 DEF Inv, PlacesInv, HandlerMoved
<1>5. LocksInv'
    BY <1>1, <1>2, ThreadsDiffer DEF Inv, LocksInv, Holding, Threads, HandlerMoved, HandlersStay,
      WritersStay
<1>6. HandlersInv'
  BY <1>1, <1>2, ThreadsDiffer, HandlersKept DEF Inv, HandlerMoved, HandlersStay, ClosedAt
<1>7. NewInv'
    BY <1>1, <1>2 DEF Inv, NewInv, Fresh, New, ClosedAt, Listed, HandlerMoved, HandlersStay
<1>8. ServedInv'
  BY <1>1, <1>2 DEF Inv, ServedInv, Telling, HandlerMoved
<1>9. QueueInv'
  BY <1>1, <1>2, QueueKept DEF Inv, HandlerMoved, HandlersStay, WritersStay
<1>10. TruthInv'
  BY <1>0, <1>1, <1>2, TruthKept DEF HandlerMoved, New, UserSteps
<1> QED
  BY <1>1, <1>3, <1>4, <1>5, <1>6, <1>7, <1>8, <1>9, <1>10 DEF Inv

LEMMA PostLineKeeps ==
    ASSUME Inv, NEW c \in Conns, PostLine(c)
    PROVE  Inv'
<1>1. PICK s \in {"recv", "leave", "post"} : HandlerMoved(c, "post", s) /\ PcType'
  BY HandlerMoves DEF Inv, PostLine, GoFrom, HandlerSteps, Again
<1>2. UNCHANGED <<env, lock, state, m_handlers, m_server_fd, fd, kernel, peer, subject, at, starts, told>>
  BY DEF PostLine, server, net
<1>0. TypeOK /\ PcType /\ PlacesInv /\ LocksInv /\ HandlersInv /\ NewInv /\ ServedInv /\ QueueInv /\ TruthInv
  BY DEF Inv
<1>3. /\ m_client_events' \in Seq(Event) /\ m_client_events' # <<>>
      /\ m_client_events # <<>> => Head(m_client_events') = Head(m_client_events)
      /\ \A i \in DOMAIN m_client_events' :
             \/ m_client_events'[i].from = c
             \/ i \in DOMAIN m_client_events /\ m_client_events'[i] = m_client_events[i]
      /\ \A d \in Conns : Fresh(d) => Fresh(d)'
      /\ QueueInv'
  BY <1>0, <1>1, <1>2, StoresEvent DEF PostLine, HandlerMoved
<1>4. TypeOK'
  <2>1. lines' \in [Conns -> 0 .. MaxLines]
    BY <1>0 DEF PostLine, TypeOK
  <2> QED
    BY <1>0, <1>1, <1>2, <1>3, <2>1 DEF TypeOK, PcType
<1>5. PlacesInv'
    BY <1>1, <1>2 DEF Inv, PlacesInv, HandlerMoved
<1>6. LocksInv'
    BY <1>1, <1>2, ThreadsDiffer DEF Inv, LocksInv, Holding, Threads, HandlerMoved, HandlersStay,
      WritersStay
<1>7. HandlersInv'
  BY <1>1, <1>2, ThreadsDiffer, HandlersKept DEF Inv, HandlerMoved, HandlersStay, ClosedAt
<1>8. NewInv'
  <2>1. \A i : ClosedAt(i)' <=> ClosedAt(i)
    BY <1>1, <1>2 DEF ClosedAt, HandlerMoved
  <2> QED
    BY <1>0, <1>1, <1>2, <1>3, <2>1 DEF NewInv, New, HandlerMoved
<1>9. ServedInv'
  BY <1>0, <1>1, <1>3 DEF ServedInv, HandlerMoved
<1>10. QueueInv'
  BY <1>3
<1>11. TruthInv'
  <2>1. pc["work"] \notin {"join", "erase", "tellGone"}
    BY <1>0 DEF PostLine, StoreEvent, LocksInv, Nobody
  <2>2. PromptInv'
    <3>1. \A d : Listed(d)' <=> Listed(d)
      BY <1>2 DEF Listed
    <3>2. Listed(c)
      BY <1>0, <1>1, HandlerHasFd DEF HandlerMoved
    <3> QED
      BY <1>0, <1>1, <1>2, <1>3, <2>1, <3>1, <3>2 DEF TruthInv, PromptInv, HandlerMoved
  <2>3. ASSUME NEW d \in Conns, env.prompt, Account(d) PROVE Account(d)'
    <3>1. Greeted(d)' <=> Greeted(d)
      BY <1>1, <1>2 DEF Greeted, HandlerMoved
    <3>2. Left(d)' <=> Left(d)
      BY <1>1, <1>2, <2>1 DEF Left, New, HandlerMoved
    <3> QED
      BY <1>2, <2>3, <3>1, <3>2, AccountKept
  <2> QED
    BY <1>0, <1>2, <2>2, <2>3 DEF TruthInv
<1> QED
  BY <1>1, <1>4, <1>5, <1>6, <1>7, <1>8, <1>9, <1>10, <1>11 DEF Inv

LEMMA TellDataKeeps ==
    ASSUME Inv, TellData
    PROVE  Inv'
<1>1. PICK s \in {"return", "reply"} : WorkMoved("tell", s) /\ PcType'
  BY WorkMoves DEF Inv, TellData, GoFrom, WorkSteps
<1>2. UNCHANGED <<env, state, m_handlers, m_client_events, m_server_fd, fd, kernel, peer, lines, subject, at, starts>>
  BY DEF TellData, server, net
<1>0. TypeOK /\ PcType /\ PlacesInv /\ LocksInv /\ HandlersInv /\ NewInv /\ ServedInv /\ QueueInv /\ TruthInv
  BY DEF Inv
<1> DEFINE h == Head(m_client_events).from
<1>3. m_client_events # <<>>
  BY <1>0, <1>1 DEF ServedInv, WorkMoved
<1>4. h \in Conns /\ told' = [told EXCEPT ![h] = Append(@, "data")] /\ ~Fresh(h)
  <2>1. 1 \in DOMAIN m_client_events /\ Head(m_client_events) = m_client_events[1]
    BY <1>0, <1>3 DEF TypeOK
  <2> QED
    BY <1>0, <2>1, Sequences DEF TellData, Tell, Fresh
<1> HIDE DEF h
<1>5. TypeOK'
  <2>1. told' \in [Conns -> Seq({"hello", "data", "gone"})]
    BY <1>0, <1>4 DEF TypeOK
  <2>2. lock' \in [Mutexes -> Threads \union {Nobody}]
    BY <1>0, ThreadsDiffer DEF TypeOK, TellData, Take, Mutexes
  <2> QED
    BY <1>0, <1>1, <1>2, <2>1, <2>2 DEF TypeOK, PcType
<1>6. PlacesInv'
    BY <1>1, <1>2 DEF Inv, PlacesInv, WorkMoved
<1>7. LocksInv'
  <2>1. /\ lock'["handlers"] = lock["handlers"] /\ lock'["log"] = lock["log"]
        /\ lock'["listeners"] = "work" /\ lock'["client"] = lock["client"]
    BY <1>0 DEF TypeOK, TellData, Take, Mutexes
  <2>2. \A t \in Threads : pc'[t] \in Holding <=> pc[t] \in Holding
    BY <1>1 DEF Threads, WorkMoved, Holding, HandlersStay, WritersStay
  <2> QED
    BY <1>0, <1>1, <1>2, <2>1, <2>2 DEF LocksInv, WorkMoved, WritersStay
<1>8. HandlersInv'
  BY <1>1, <1>2, ThreadsDiffer, HandlersKept DEF Inv, WorkMoved, HandlersStay, ClosedAt
<1>9. NewInv'
  <2>1. ASSUME NEW c \in Conns, Fresh(c) PROVE Fresh(c)'
    <3>1. told'[c] = told[c]
      BY <1>0, <1>4, <2>1 DEF TypeOK
    <3> QED
      BY <1>1, <1>2, <2>1, <3>1, FreshKept DEF WorkMoved, HandlersStay, Listed
  <2>2. \A i : ClosedAt(i)' <=> ClosedAt(i)
    BY <1>1, <1>2 DEF ClosedAt, WorkMoved
  <2> QED
    BY <1>0, <1>1, <1>2, <2>1, <2>2 DEF NewInv, New, WorkMoved
<1>10. ServedInv'
  BY <1>1, <1>2 DEF Inv, ServedInv, Telling, WorkMoved
<1>11. QueueInv'
  BY <1>1, <1>2, QueueKept DEF Inv, WorkMoved, HandlersStay, WritersStay
<1>12. TruthInv'
  <2>1. pc["user"] \notin {"closeEach", "joinEach", "tellEach"}
    BY <1>0, <1>1 DEF PlacesInv, WorkMoved
  <2>2. ASSUME env.prompt, pc["work"] # "tellGone"
        PROVE  m_client_events # <<>> => Listed(Head(m_client_events).from)
    <3>1. m_client_events # <<>> => 1 \in DOMAIN m_client_events /\ Head(m_client_events) = m_client_events[1]
      BY <1>0 DEF TypeOK
    <3> QED
      BY <1>0, <1>1, <2>2, <3>1 DEF TruthInv, PromptInv, WorkMoved
  <2>3. PromptInv'
    BY <1>0, <1>1, <1>2 DEF TruthInv, PromptInv, Listed, WorkMoved
  <2>4. ASSUME NEW c \in Conns, env.prompt, Account(c) PROVE Account(c)'
    <3>1. Greeted(c)' <=> Greeted(c)
      BY <1>1, <1>2 DEF Greeted, WorkMoved
    <3>2. Left(c)' <=> Left(c)
      BY <1>1, <1>2 DEF Left, New, WorkMoved
    <3>3. CASE c # h
      <4>1. told'[c] = told[c]
        BY <1>0, <1>4, <3>3, Tells
      <4> QED
        BY <2>4, <3>1, <3>2, <4>1, AccountKept
    <3>4. CASE c = h
      <4>1. Listed(c)
        BY <1>1, <1>3, <2>2, <2>4, <3>4 DEF WorkMoved, h
      <4>2. ~Left(c)
        BY <2>1, <4>1 DEF Left, Listed
      <4> QED
        BY <1>0, <1>4, <2>4, <3>1, <3>2, <3>4, <4>2, DataTold
    <3> QED
      BY <3>3, <3>4
  <2> QED
    BY <1>0, <1>2, <2>3, <2>4 DEF TruthInv
<1> QED
  BY <1>1, <1>5, <1>6, <1>7, <1>8, <1>9, <1>10, <1>11, <1>12 DEF Inv

LEMMA StartSucceedsKeeps ==
    ASSUME Inv, StartSucceeds
    PROVE  Inv'
<1>1. ListenMoved("off", "accept") /\ PcType'
  BY ListenMoves DEF Inv, StartSucceeds, Joined, ListenSteps
<1>2. UNCHANGED <<env, lock, m_handlers, m_client_events, fd, kernel, peer, lines, subject, at, told>>
  BY DEF StartSucceeds, server, net
<1>0. TypeOK /\ PcType /\ PlacesInv /\ LocksInv /\ HandlersInv /\ NewInv /\ ServedInv /\ QueueInv /\ TruthInv
  BY DEF Inv
<1>3. TypeOK'
    BY <1>1, <1>2, ThreadsDiffer DEF Inv, StartSucceeds, TypeOK, PcType, Workers
<1>4. PlacesInv'
  <2>1. state'["listen"] = "RUNNING" /\ state'["work"] = state["work"] /\ pc["user"] = "idle"
    BY <1>0 DEF StartSucceeds, TypeOK, Workers
  <2> QED
    BY <1>0, <1>1, <1>2, <2>1 DEF PlacesInv, ListenMoved, UserSteps
<1>5. LocksInv'
    BY <1>1, <1>2, ThreadsDiffer DEF Inv, LocksInv, Holding, Threads, ListenMoved, HandlersStay,
      WritersStay
<1>6. HandlersInv'
  BY <1>1, <1>2, ThreadsDiffer, HandlersKept DEF Inv, ListenMoved, HandlersStay, ClosedAt
<1>7. NewInv'
    BY <1>1, <1>2, ThreadsDiffer DEF Inv, NewInv, Fresh, New, ClosedAt, Listed, ListenMoved,
      HandlersStay
<1>8. ServedInv'
  BY <1>1, <1>2 DEF Inv, ServedInv, Telling, ListenMoved
<1>9. QueueInv'
  BY <1>1, <1>2, QueueKept DEF Inv, ListenMoved, HandlersStay, WritersStay
<1>10. TruthInv'
  BY <1>0, <1>1, <1>2, TruthKept DEF ListenMoved, New, UserSteps
<1> QED
  BY <1>1, <1>3, <1>4, <1>5, <1>6, <1>7, <1>8, <1>9, <1>10 DEF Inv

LEMMA AcceptFailsKeeps ==
    ASSUME Inv, AcceptFails
    PROVE  Inv'
<1>1. PICK s \in {"accept", "off"} :
           /\ ListenMoved("accept", s) /\ PcType'
           /\ state' \in [Workers -> {"STOPPED", "RUNNING", "STOPPING"}]
           /\ state'["work"] = state["work"]
           /\ s = "accept" => state["listen"] = "RUNNING" /\ state' = state
           /\ s = "off" => state["listen"] # "RUNNING"
  BY ListenLoops DEF Inv, AcceptFails
<1>2. UNCHANGED <<env, lock, m_handlers, m_client_events, m_server_fd, fd, kernel, peer, lines, subject, at, starts, told>>
  BY DEF AcceptFails, server, net
<1>0. TypeOK /\ PcType /\ PlacesInv /\ LocksInv /\ HandlersInv /\ NewInv /\ ServedInv /\ QueueInv /\ TruthInv
  BY DEF Inv
<1>3. TypeOK'
  BY <1>0, <1>1, <1>2 DEF TypeOK, PcType
<1>4. PlacesInv'
  BY <1>0, <1>1, <1>2 DEF PlacesInv, ListenMoved, UserSteps
<1>5. LocksInv'
    BY <1>1, <1>2, ThreadsDiffer DEF Inv, LocksInv, Holding, Threads, ListenMoved, HandlersStay,
      WritersStay
<1>6. HandlersInv'
  BY <1>1, <1>2, ThreadsDiffer, HandlersKept DEF Inv, ListenMoved, HandlersStay, ClosedAt
<1>7. NewInv'
    BY <1>1, <1>2, ThreadsDiffer DEF Inv, NewInv, Fresh, New, ClosedAt, Listed, ListenMoved,
      HandlersStay
<1>8. ServedInv'
  BY <1>1, <1>2 DEF Inv, ServedInv, Telling, ListenMoved
<1>9. QueueInv'
  BY <1>1, <1>2, QueueKept DEF Inv, ListenMoved, HandlersStay, WritersStay
<1>10. TruthInv'
  BY <1>0, <1>1, <1>2, TruthKept DEF ListenMoved, New, UserSteps
<1> QED
  BY <1>1, <1>3, <1>4, <1>5, <1>6, <1>7, <1>8, <1>9, <1>10 DEF Inv

LEMMA GreetKeeps ==
    ASSUME Inv, Greet
    PROVE  Inv'
<1>1. PICK s \in {"accept", "off"} :
           /\ ListenMoved("greet", s) /\ PcType'
           /\ state' \in [Workers -> {"STOPPED", "RUNNING", "STOPPING"}]
           /\ state'["work"] = state["work"]
           /\ s = "accept" => state["listen"] = "RUNNING" /\ state' = state
           /\ s = "off" => state["listen"] # "RUNNING"
  BY ListenLoops DEF Inv, Greet
<1>2. UNCHANGED <<env, lock, m_handlers, m_client_events, m_server_fd, fd, kernel, peer, lines, subject, at, starts>>
  BY DEF Greet, server, net
<1>0. TypeOK /\ PcType /\ PlacesInv /\ LocksInv /\ HandlersInv /\ NewInv /\ ServedInv /\ QueueInv /\ TruthInv
  BY DEF Inv
<1> DEFINE h == subject["listen"]
<1>3. h \in Conns /\ told' = [told EXCEPT ![h] = Append(@, "hello")]
  BY <1>0, <1>1 DEF NewInv, ListenMoved, Greet, Tell
<1> HIDE DEF h
<1>4. TypeOK'
  <2>1. told' \in [Conns -> Seq({"hello", "data", "gone"})]
    BY <1>0, <1>3 DEF TypeOK
  <2> QED
    BY <1>0, <1>1, <1>2, <2>1 DEF TypeOK, PcType
<1>5. PlacesInv'
  BY <1>0, <1>1, <1>2 DEF PlacesInv, ListenMoved, UserSteps
<1>6. LocksInv'
    BY <1>1, <1>2, ThreadsDiffer DEF Inv, LocksInv, Holding, Threads, ListenMoved, HandlersStay,
      WritersStay
<1>7. HandlersInv'
  BY <1>1, <1>2, ThreadsDiffer, HandlersKept DEF Inv, ListenMoved, HandlersStay, ClosedAt
<1>8. NewInv'
  <2>1. ASSUME NEW c \in Conns, c # h, Fresh(c) PROVE Fresh(c)'
    BY <1>0, <1>1, <1>2, <1>3, <2>1, FreshKept DEF TypeOK, ListenMoved, HandlersStay, Listed
  <2>2. peer[h] # "absent"
    BY <1>0, <1>1 DEF NewInv, ListenMoved, h
  <2>3. \A i : ClosedAt(i)' <=> ClosedAt(i)
    BY <1>1, <1>2 DEF ClosedAt, ListenMoved
  <2> QED
    BY <1>0, <1>1, <1>2, <2>1, <2>2, <2>3 DEF NewInv, New, ListenMoved
<1>9. ServedInv'
  BY <1>1, <1>2 DEF Inv, ServedInv, Telling, ListenMoved
<1>10. QueueInv'
  BY <1>1, <1>2, QueueKept DEF Inv, ListenMoved, HandlersStay, WritersStay
<1>11. TruthInv'
  <2>1. PromptInv'
    BY <1>0, <1>1, <1>2 DEF TruthInv, PromptInv, Listed, ListenMoved
  <2>2. ASSUME NEW c \in Conns, env.prompt, Account(c) PROVE Account(c)'
    <3>1. Left(c)' <=> Left(c)
      BY <1>1, <1>2 DEF Left, New, ListenMoved
    <3>2. CASE c # h
      <4>1. Greeted(c)' <=> Greeted(c)
        BY <1>1, <1>2, <3>2 DEF Greeted, ListenMoved, h
      <4>2. told'[c] = told[c]
        BY <1>0, <1>3, <3>2, Tells
      <4> QED
        BY <2>2, <3>1, <4>1, <4>2, AccountKept
    <3>3. CASE c = h
      <4>1. peer[c] # "absent"
        BY <1>0, <1>1, <3>3 DEF NewInv, ListenMoved, h
      <4>2. ~Greeted(c) /\ Greeted(c)'
        BY <1>1, <1>2, <3>3, <4>1 DEF Greeted, ListenMoved, h
      <4> QED
        BY <1>0, <1>3, <2>2, <3>1, <3>3, <4>2, HelloTold
    <3> QED
      BY <3>2, <3>3
  <2> QED
    BY <1>0, <1>2, <2>1, <2>2 DEF TruthInv
<1> QED
  BY <1>1, <1>4, <1>5, <1>6, <1>7, <1>8, <1>9, <1>10, <1>11 DEF Inv

LEMMA CallbackReturnsKeeps ==
    ASSUME Inv, CallbackReturns
    PROVE  Inv'
<1>1. PICK s \in {"tell", "closeClient", "wait", "off"} :
               /\ WorkMoved("return", s) /\ PcType'
               /\ state' \in [Workers -> {"STOPPED", "RUNNING", "STOPPING"}]
               /\ state'["listen"] = state["listen"]
               /\ s # "off" => state' = state
               /\ s = "off" => state["work"] # "RUNNING"
               /\ lock' = IF s \in {"wait", "off"} THEN [[lock EXCEPT !["listeners"] = Nobody] EXCEPT !["client"] = Nobody]
                                                  ELSE [lock EXCEPT !["listeners"] = Nobody]
               /\ m_client_events' = Tail(m_client_events)
               /\ ServedInv' /\ QueueInv'
  <2>1. pc["work"] = "return" /\ m_client_events # <<>> /\ Pop([lock EXCEPT !["listeners"] = Nobody]) /\ fd' = fd
    BY DEF Inv, ServedInv, CallbackReturns, net
  <2> QED
    BY <2>1, Pops DEF Inv
<1>2. UNCHANGED <<env, m_handlers, m_server_fd, fd, kernel, peer, lines, subject, at, starts, told>>
  BY DEF CallbackReturns, server, net
<1>0. TypeOK /\ PcType /\ PlacesInv /\ LocksInv /\ HandlersInv /\ NewInv /\ ServedInv /\ QueueInv /\ TruthInv
  BY DEF Inv
<1>3. m_client_events # <<>>
  BY <1>0, <1>1 DEF ServedInv, WorkMoved
<1>4. /\ m_client_events' \in Seq(Event)
      /\ \A i \in DOMAIN m_client_events' :
             i + 1 \in DOMAIN m_client_events /\ m_client_events'[i] = m_client_events[i + 1]
  BY <1>0, <1>1, <1>3, TailProperties
<1>5. TypeOK'
  <2>1. lock' \in [Mutexes -> Threads \union {Nobody}]
    BY <1>0, <1>1 DEF TypeOK, Mutexes
  <2> QED
    BY <1>0, <1>1, <1>2, <1>4, <2>1 DEF TypeOK, PcType
<1>6. PlacesInv'
  BY <1>0, <1>1, <1>2 DEF PlacesInv, WorkMoved, UserSteps
<1>7. LocksInv'
  <2>1. /\ lock'["handlers"] = lock["handlers"] /\ lock'["log"] = lock["log"]
        /\ lock'["listeners"] = Nobody
        /\ lock'["client"] = IF s \in {"wait", "off"} THEN Nobody ELSE lock["client"]
    BY <1>0, <1>1 DEF TypeOK, Mutexes, LocksInv, WorkMoved
  <2>2. \A t \in Threads : pc'[t] \in Holding <=> pc[t] \in Holding
    BY <1>1 DEF Threads, WorkMoved, Holding, HandlersStay, WritersStay
  <2> QED
    BY <1>0, <1>1, <1>2, <2>1, <2>2 DEF LocksInv, WorkMoved, WritersStay
<1>8. HandlersInv'
  BY <1>1, <1>2, ThreadsDiffer, HandlersKept DEF Inv, WorkMoved, HandlersStay, ClosedAt
<1>9. NewInv'
  <2>1. ASSUME NEW c \in Conns, Fresh(c) PROVE Fresh(c)'
    BY <1>1, <1>2, <1>4, <2>1, FreshKept DEF WorkMoved, HandlersStay, Listed
  <2>2. \A i : ClosedAt(i)' <=> ClosedAt(i)
    BY <1>1, <1>2 DEF ClosedAt, WorkMoved
  <2> QED
    BY <1>0, <1>1, <1>2, <2>1, <2>2 DEF NewInv, New, WorkMoved
<1>10. ServedInv'
  BY <1>1
<1>11. QueueInv'
  BY <1>1
<1>12. TruthInv'
  <2>1. PromptInv'
    <3>1. \A d : Listed(d)' <=> Listed(d)
      BY <1>2 DEF Listed
    <3> QED
      BY <1>0, <1>1, <1>2, <1>4, <3>1 DEF TruthInv, PromptInv, WorkMoved
  <2>2. ASSUME NEW c \in Conns, env.prompt, Account(c) PROVE Account(c)'
    <3>1. Greeted(c)' <=> Greeted(c)
      BY <1>1, <1>2 DEF Greeted, WorkMoved
    <3>2. Left(c)' <=> Left(c)
      BY <1>1, <1>2 DEF Left, New, WorkMoved
    <3> QED
      BY <1>2, <2>2, <3>1, <3>2, AccountKept
  <2> QED
    BY <1>0, <1>2, <2>1, <2>2 DEF TruthInv
<1> QED
  BY <1>1, <1>5, <1>6, <1>7, <1>8, <1>9, <1>10, <1>11, <1>12 DEF Inv

LEMMA TellGoneKeeps ==
    ASSUME Inv, TellGone
    PROVE  Inv'
<1>1. PICK s \in {"tell", "closeClient", "wait", "off"} :
               /\ WorkMoved("tellGone", s) /\ PcType'
               /\ state' \in [Workers -> {"STOPPED", "RUNNING", "STOPPING"}]
               /\ state'["listen"] = state["listen"]
               /\ s # "off" => state' = state
               /\ s = "off" => state["work"] # "RUNNING"
               /\ lock' = IF s \in {"wait", "off"} THEN [lock EXCEPT !["client"] = Nobody]
                                                  ELSE lock
               /\ m_client_events' = Tail(m_client_events)
               /\ ServedInv' /\ QueueInv'
  <2>1. pc["work"] = "tellGone" /\ m_client_events # <<>> /\ Pop(lock) /\ fd' = fd
    BY DEF Inv, ServedInv, TellGone, net
  <2> QED
    BY <2>1, Pops DEF Inv
<1>2. UNCHANGED <<env, m_handlers, m_server_fd, fd, kernel, peer, lines, subject, at, starts>>
  BY DEF TellGone, server, net
<1>0. TypeOK /\ PcType /\ PlacesInv /\ LocksInv /\ HandlersInv /\ NewInv /\ ServedInv /\ QueueInv /\ TruthInv
  BY DEF Inv
<1>3. m_client_events # <<>>
  BY <1>0, <1>1 DEF ServedInv, WorkMoved
<1>4. /\ m_client_events' \in Seq(Event)
      /\ \A i \in DOMAIN m_client_events' :
             i + 1 \in DOMAIN m_client_events /\ m_client_events'[i] = m_client_events[i + 1]
  BY <1>0, <1>1, <1>3, TailProperties
<1> DEFINE h == Head(m_client_events).from
<1>5. h \in Conns /\ told' = [told EXCEPT ![h] = Append(@, "gone")] /\ ~Fresh(h)
  <2>1. 1 \in DOMAIN m_client_events /\ Head(m_client_events) = m_client_events[1]
    BY <1>0, <1>3 DEF TypeOK
  <2> QED
    BY <1>0, <2>1, Sequences DEF TellGone, Tell, Fresh
<1> HIDE DEF h
<1>6. TypeOK'
  <2>1. lock' \in [Mutexes -> Threads \union {Nobody}]
    BY <1>0, <1>1 DEF TypeOK, Mutexes
  <2>2. told' \in [Conns -> Seq({"hello", "data", "gone"})]
    BY <1>0, <1>5 DEF TypeOK
  <2> QED
    BY <1>0, <1>1, <1>2, <1>4, <2>1, <2>2 DEF TypeOK, PcType
<1>7. PlacesInv'
  BY <1>0, <1>1, <1>2 DEF PlacesInv, WorkMoved, UserSteps
<1>8. LocksInv'
  <2>1. /\ lock'["handlers"] = lock["handlers"] /\ lock'["log"] = lock["log"]
        /\ lock'["listeners"] = Nobody
        /\ lock'["client"] = IF s \in {"wait", "off"} THEN Nobody ELSE lock["client"]
    BY <1>0, <1>1 DEF TypeOK, Mutexes, LocksInv, WorkMoved
  <2>2. \A t \in Threads : pc'[t] \in Holding <=> pc[t] \in Holding
    BY <1>1 DEF Threads, WorkMoved, Holding, HandlersStay, WritersStay
  <2> QED
    BY <1>0, <1>1, <1>2, <2>1, <2>2 DEF LocksInv, WorkMoved, WritersStay
<1>9. HandlersInv'
  BY <1>1, <1>2, ThreadsDiffer, HandlersKept DEF Inv, WorkMoved, HandlersStay, ClosedAt
<1>10. NewInv'
  <2>1. ASSUME NEW c \in Conns, Fresh(c) PROVE Fresh(c)'
    <3>1. told'[c] = told[c]
      BY <1>0, <1>5, <2>1 DEF TypeOK
    <3> QED
      BY <1>1, <1>2, <1>4, <2>1, <3>1, FreshKept DEF WorkMoved, HandlersStay, Listed
  <2>2. \A i : ClosedAt(i)' <=> ClosedAt(i)
    BY <1>1, <1>2 DEF ClosedAt, WorkMoved
  <2> QED
    BY <1>0, <1>1, <1>2, <2>1, <2>2 DEF NewInv, New, WorkMoved
<1>11. ServedInv'
  BY <1>1
<1>12. QueueInv'
  BY <1>1
<1>13. TruthInv'
  <2>1. PromptInv'
    <3>1. \A d : Listed(d)' <=> Listed(d)
      BY <1>2 DEF Listed
    <3>2. \A i \in DOMAIN m_client_events' : i + 1 # 1
      BY <1>0, <1>3, TailProperties, Sequences DEF TellGone, Pop
    <3> QED
      BY <1>0, <1>1, <1>2, <1>4, <3>1, <3>2 DEF TruthInv, PromptInv, WorkMoved
  <2>2. ASSUME NEW c \in Conns, env.prompt, Account(c) PROVE Account(c)'
    <3>1. Greeted(c)' <=> Greeted(c)
      BY <1>1, <1>2 DEF Greeted, WorkMoved
    <3>2. CASE c # h
      <4>1. Left(c)' <=> Left(c)
        BY <1>1, <1>2, <3>2 DEF Left, New, WorkMoved, h
      <4>2. told'[c] = told[c]
        BY <1>0, <1>5, <3>2, Tells
      <4> QED
        BY <2>2, <3>1, <4>1, <4>2, AccountKept
    <3>3. CASE c = h
      <4>1. ~Listed(c)
        BY <1>0, <1>1, <2>2, <3>3 DEF TruthInv, PromptInv, WorkMoved, h
      <4>2. peer[c] # "absent" /\ ~(New /\ subject["listen"] = c)
        BY <1>0, <1>5, <3>3 DEF NewInv
      <4>3. ~Left(c)
        BY <1>1, <3>3 DEF Left, WorkMoved, h
      <4>4. Left(c)'
        BY <1>1, <1>2, <4>1, <4>2 DEF Left, New, Listed, WorkMoved
      <4> QED
        BY <1>0, <1>5, <2>2, <3>1, <3>3, <4>3, <4>4, GoneTold
    <3> QED
      BY <3>2, <3>3
  <2> QED
    BY <1>0, <1>2, <2>1, <2>2 DEF TruthInv
<1> QED
  BY <1>1, <1>6, <1>7, <1>8, <1>9, <1>10, <1>11, <1>12, <1>13 DEF Inv

LEMMA WorkWakeKeeps ==
    ASSUME Inv, WorkWake
    PROVE  Inv'
<1>1. PICK s \in {"tell", "closeClient", "wait", "off"} :
               /\ WorkMoved("wait", s) /\ PcType'
               /\ state' \in [Workers -> {"STOPPED", "RUNNING", "STOPPING"}]
               /\ state'["listen"] = state["listen"]
               /\ s # "off" => state' = state
               /\ s = "off" => state["work"] # "RUNNING"
               /\ IF s \in {"wait", "off"}
                  THEN lock' = lock
                  ELSE /\ lock' = [lock EXCEPT !["client"] = "work"]
                       /\ m_client_events # <<>>
                       /\ s = "tell" <=> Head(m_client_events).kind = "data"
  <2>1. pc["work"] = "wait" /\ TypeOK /\ PcType /\ m_client_events \in Seq(Event)
    BY DEF WorkWake, Inv, TypeOK
  <2>2. CASE m_client_events # <<>>
    <3>1. Serve(m_client_events) /\ lock' = [lock EXCEPT !["client"] = "work"]
      BY <2>2 DEF WorkWake, Take
    <3>2. PICK s \in {"tell", "closeClient"} :
               /\ WorkMoved("wait", s) /\ PcType' /\ state' = state
               /\ s = "tell" <=> Head(m_client_events).kind = "data"
      BY <2>1, <2>2, <3>1, Serves
    <3>3. state' \in [Workers -> {"STOPPED", "RUNNING", "STOPPING"}]
      BY <2>1, <3>2 DEF TypeOK
    <3> QED
      BY <2>2, <3>1, <3>2, <3>3
  <2>3. CASE m_client_events = <<>>
    <3>1. LoopOrExit("work", "wait") /\ lock' = lock
      BY <2>3 DEF WorkWake
    <3>2. PICK s \in {"wait", "off"} :
               /\ WorkMoved("wait", s) /\ PcType'
               /\ state' \in [Workers -> {"STOPPED", "RUNNING", "STOPPING"}]
               /\ state'["listen"] = state["listen"]
               /\ s = "wait" => state["work"] = "RUNNING" /\ state' = state
               /\ s = "off" => state["work"] # "RUNNING"
      BY <2>1, <3>1, WorkLoops
    <3> QED
      BY <3>1, <3>2
  <2> QED
    BY <2>2, <2>3
<1>2. UNCHANGED <<env, m_handlers, m_client_events, m_server_fd, fd, kernel, peer, lines, subject, at, starts, told>>
  BY DEF WorkWake, server, net
<1>0. TypeOK /\ PcType /\ PlacesInv /\ LocksInv /\ HandlersInv /\ NewInv /\ ServedInv /\ QueueInv /\ TruthInv
  BY DEF Inv
<1>3. TypeOK'
  <2>1. lock' \in [Mutexes -> Threads \union {Nobody}]
    BY <1>0, <1>1, ThreadsDiffer DEF TypeOK, Mutexes
  <2> QED
    BY <1>0, <1>1, <1>2, <2>1 DEF TypeOK, PcType
<1>4. PlacesInv'
  BY <1>0, <1>1, <1>2 DEF PlacesInv, WorkMoved, UserSteps
<1>5. LocksInv'
  <2>1. /\ lock'["handlers"] = lock["handlers"] /\ lock'["log"] = lock["log"]
        /\ lock'["listeners"] = lock["listeners"]
        /\ lock'["client"] = IF s \in {"wait", "off"} THEN lock["client"] ELSE "work"
    BY <1>0, <1>1 DEF TypeOK, Mutexes, LocksInv, WorkMoved
  <2>2. \A t \in Threads : pc'[t] \in Holding <=> pc[t] \in Holding
    BY <1>1 DEF Threads, WorkMoved, Holding, HandlersStay, WritersStay
  <2> QED
    BY <1>0, <1>1, <1>2, <2>1, <2>2 DEF LocksInv, WorkMoved, WritersStay
<1>6. HandlersInv'
  BY <1>1, <1>2, ThreadsDiffer, HandlersKept DEF Inv, WorkMoved, HandlersStay, ClosedAt
<1>7. NewInv'
    BY <1>1, <1>2, ThreadsDiffer DEF Inv, NewInv, Fresh, New, ClosedAt, Listed, WorkMoved,
      HandlersStay
<1>8. ServedInv'
  BY <1>0, <1>1, <1>2 DEF ServedInv, WorkMoved, Telling
<1>9. QueueInv'
  BY <1>1, <1>2, QueueKept DEF Inv, WorkMoved, HandlersStay, WritersStay
<1>10. TruthInv'
  BY <1>0, <1>1, <1>2, TruthKept DEF WorkMoved, New, UserSteps
<1> QED
  BY <1>1, <1>3, <1>4, <1>5, <1>6, <1>7, <1>8, <1>9, <1>10 DEF Inv

LEMMA GivenUpKeeps ==
    ASSUME Inv, GivenUp
    PROVE  Inv'
<1>1. PICK s \in {"accept", "off"} :
           /\ ListenMoved("joinNew", s) /\ PcType'
           /\ state' \in [Workers -> {"STOPPED", "RUNNING", "STOPPING"}]
           /\ state'["work"] = state["work"]
           /\ s = "accept" => state["listen"] = "RUNNING" /\ state' = state
           /\ s = "off" => state["listen"] # "RUNNING"
  BY ListenLoops DEF Inv, GivenUp
<1>2. UNCHANGED <<env, m_client_events, m_server_fd, fd, peer, lines, subject, at, starts, told>>
  BY DEF GivenUp, server, net
<1>0. TypeOK /\ PcType /\ PlacesInv /\ LocksInv /\ HandlersInv /\ NewInv /\ ServedInv /\ QueueInv /\ TruthInv
  BY DEF Inv
<1> DEFINE h == subject["listen"]
<1>3. /\ h \in Conns /\ m_handlers # <<>> /\ m_handlers[Len(m_handlers)] = h /\ pc[h] = "off"
      /\ m_handlers' = SubSeq(m_handlers, 1, Len(m_handlers) - 1)
      /\ kernel' = [kernel EXCEPT ![fd[h]] = Nobody]
  BY <1>0, <1>1 DEF NewInv, ListenMoved, GivenUp, Joined, CloseFd
<1>4. m_handlers \in Seq(Conns)
  BY <1>0 DEF TypeOK
<1>5. /\ m_handlers' \in Seq(Conns) /\ DOMAIN m_handlers' = 1 .. Len(m_handlers) - 1
      /\ Len(m_handlers) \in Nat \ {0}
      /\ \A i \in 1 .. Len(m_handlers) - 1 : m_handlers'[i] = m_handlers[i]
  BY <1>3, <1>4
<1>6. pc["work"] # "erase" /\ pc["user"] \notin {"closeEach", "joinEach", "tellEach"}
  BY <1>0, <1>1, ThreadsDiffer DEF LocksInv, Holding, ListenMoved
<1>7. \A i : ~ClosedAt(i) /\ ~ClosedAt(i)'
  BY <1>1, <1>6 DEF ClosedAt, ListenMoved
<1>8. Len(m_handlers) \in DOMAIN m_handlers /\ Listed(h) /\ kernel[fd[h]] = h /\ fd[h] \in Fd
  <2>1. Len(m_handlers) \in DOMAIN m_handlers /\ Listed(h)
    BY <1>0, <1>3, <1>5, Sequences DEF Listed
  <2> QED
    BY <1>0, <1>3, <1>7, <2>1, HandlerHasFd DEF HandlersInv
<1>9. \A i \in DOMAIN m_handlers' :
          i \in DOMAIN m_handlers /\ m_handlers'[i] = m_handlers[i] /\ m_handlers[i] # h
          /\ m_handlers[i] \in Conns /\ Listed(m_handlers[i])
  BY <1>0, <1>3, <1>5, <1>8, Sequences DEF HandlersInv, Listed
<1>10. ASSUME NEW c, Listed(c), c # h PROVE Listed(c)'
  <2>1. PICK i \in DOMAIN m_handlers : m_handlers[i] = c
    BY <1>10 DEF Listed
  <2>2. DOMAIN m_handlers = 1 .. Len(m_handlers) /\ i # Len(m_handlers)
    BY <1>0, <1>3, <1>10, <2>1, Sequences
  <2>3. i \in 1 .. Len(m_handlers) - 1
    BY <1>5, <2>2
  <2> QED
    BY <1>5, <2>1, <2>3 DEF Listed
<1>11. \A c : Listed(c)' => Listed(c)
  BY <1>9 DEF Listed
<1> HIDE DEF h
<1>12. TypeOK'
  <2>1. kernel' \in [Fd -> Conns \union {Nobody}] /\ lock' \in [Mutexes -> Threads \union {Nobody}]
    BY <1>0, <1>3 DEF TypeOK, GivenUp, Release
  <2> QED
    BY <1>0, <1>1, <1>2, <1>5, <2>1 DEF TypeOK, PcType
<1>13. PlacesInv'
  BY <1>0, <1>1, <1>2 DEF PlacesInv, ListenMoved, UserSteps
<1>14. LocksInv'
  BY <1>1, <1>2, ThreadsDiffer, HandlersReleased DEF Inv, GivenUp, ListenMoved, HandlersStay, WritersStay, Holding, SameSide, Threads
<1>15. HandlersInv'
  <2>1. ASSUME NEW i \in DOMAIN m_handlers' PROVE kernel'[fd'[m_handlers'[i]]] = m_handlers'[i]
    <3>1. kernel[fd[m_handlers[i]]] = m_handlers[i]
      BY <1>0, <1>7, <1>9 DEF HandlersInv
    <3>2. fd[m_handlers[i]] \in Fd /\ fd[m_handlers[i]] # fd[h]
      BY <1>0, <1>8, <1>9, <3>1, HandlerHasFd
    <3> QED
      BY <1>0, <1>2, <1>3, <1>9, <3>1, <3>2 DEF TypeOK
  <2>2. \A c \in Conns : pc'[c] # "off" => Listed(c)'
    BY <1>0, <1>1, <1>3, <1>10 DEF HandlersInv, ListenMoved, HandlersStay
  <2>3. pc["work"] # "join" /\ pc'["work"] \notin {"join", "erase"}
    BY <1>0, <1>1, ThreadsDiffer DEF LocksInv, Holding, ListenMoved
  <2>4. \A i, j \in DOMAIN m_handlers' : m_handlers'[i] = m_handlers'[j] => i = j
    BY <1>0, <1>9 DEF HandlersInv
  <2> QED
    BY <1>7, <2>1, <2>2, <2>3, <2>4 DEF HandlersInv
<1>16. NewInv'
  <2>1. ASSUME NEW f \in Fd, kernel'[f] # Nobody
         PROVE  /\ fd'[kernel'[f]] = f
                /\ \E i \in DOMAIN m_handlers' : m_handlers'[i] = kernel'[f] /\ ~ClosedAt(i)'
    <3>1. f # fd[h] /\ kernel'[f] = kernel[f]
      BY <1>0, <1>3, <1>8, <2>1 DEF TypeOK
    <3>2. fd[kernel[f]] = f /\ Listed(kernel[f])
      BY <1>0, <1>1, <2>1, <3>1 DEF NewInv, New, ListenMoved, Listed
    <3>3. Listed(kernel[f])'
      BY <1>10, <3>1, <3>2
    <3> QED
      BY <1>2, <1>7, <3>1, <3>2, <3>3 DEF Listed
  <2>2. \A c \in Conns : Fresh(c) => Fresh(c)'
    BY <1>1, <1>2, <1>11, FreshKept DEF ListenMoved, HandlersStay
  <2> QED
    BY <1>0, <1>1, <1>2, <2>1, <2>2 DEF NewInv, New, ListenMoved
<1>17. ServedInv'
  BY <1>1, <1>2 DEF Inv, ServedInv, Telling, ListenMoved
<1>18. QueueInv'
  BY <1>1, <1>2, QueueKept DEF Inv, ListenMoved, HandlersStay, WritersStay
<1>19. TruthInv'
  <2>1. ~env.prompt
    BY <1>0, <1>1 DEF PlacesInv, ListenMoved
  <2> QED
    BY <1>2, <2>1 DEF TruthInv, PromptInv
<1> QED
  BY <1>1, <1>12, <1>13, <1>14, <1>15, <1>16, <1>17, <1>18, <1>19 DEF Inv

LEMMA PutLogKeeps ==
    ASSUME Inv, NEW w \in Writers, PutLog(w)
    PROVE  Inv'
<1>1. WriterMoved(w, "idle", "write") /\ PcType'
  BY WriterMoves DEF Inv, PutLog, GoFrom, WriterSteps
<1>2. UNCHANGED <<env, state, m_handlers, m_client_events, m_server_fd, fd, kernel, peer, lines, subject, at, starts, told>>
  BY DEF PutLog, server, net
<1>0. TypeOK /\ PcType /\ PlacesInv /\ LocksInv /\ HandlersInv /\ NewInv /\ ServedInv /\ QueueInv /\ TruthInv
  BY DEF Inv
<1>3. TypeOK'
    BY <1>1, <1>2, ThreadsDiffer DEF Inv, PutLog, TypeOK, PcType, Take, Mutexes
<1>4. PlacesInv'
    BY <1>1, <1>2 DEF Inv, PlacesInv, WriterMoved
<1>5. LocksInv'
    BY <1>1, <1>2, ThreadsDiffer DEF Inv, PutLog, LocksInv, Holding, Threads, WriterMoved,
      HandlersStay, WritersStay, Take, Mutexes
<1>6. HandlersInv'
  BY <1>1, <1>2, ThreadsDiffer, HandlersKept DEF Inv, WriterMoved, HandlersStay, ClosedAt
<1>7. NewInv'
    BY <1>1, <1>2 DEF Inv, NewInv, Fresh, New, ClosedAt, Listed, WriterMoved, HandlersStay
<1>8. ServedInv'
  BY <1>1, <1>2 DEF Inv, ServedInv, Telling, WriterMoved
<1>9. QueueInv'
  BY <1>1, <1>2, QueueKept DEF Inv, WriterMoved, HandlersStay, WritersStay
<1>10. TruthInv'
  BY <1>0, <1>1, <1>2, TruthKept DEF WriterMoved, New, UserSteps
<1> QED
  BY <1>1, <1>3, <1>4, <1>5, <1>6, <1>7, <1>8, <1>9, <1>10 DEF Inv

LEMMA NotifyKeeps ==
    ASSUME Inv, NEW w \in Writers, Notify(w)
    PROVE  Inv'
<1>1. WriterMoved(w, "idle", "send") /\ PcType'
  BY WriterMoves DEF Inv, Notify, GoFrom, WriterSteps
<1>2. UNCHANGED <<env, state, m_handlers, m_client_events, m_server_fd, fd, kernel, peer, lines, subject, at, starts, told>>
  BY DEF Notify, server, net
<1>0. TypeOK /\ PcType /\ PlacesInv /\ LocksInv /\ HandlersInv /\ NewInv /\ ServedInv /\ QueueInv /\ TruthInv
  BY DEF Inv
<1>3. TypeOK'
    BY <1>1, <1>2, ThreadsDiffer DEF Inv, Notify, TypeOK, PcType, Take, Mutexes
<1>4. PlacesInv'
    BY <1>1, <1>2 DEF Inv, PlacesInv, WriterMoved
<1>5. LocksInv'
  BY <1>1, <1>2, ThreadsDiffer, HandlersTaken DEF Inv, Notify, WriterMoved, HandlersStay, WritersStay, Holding, SameSide, Threads
<1>6. HandlersInv'
  BY <1>1, <1>2, ThreadsDiffer, HandlersKept DEF Inv, WriterMoved, HandlersStay, ClosedAt
<1>7. NewInv'
    BY <1>1, <1>2 DEF Inv, NewInv, Fresh, New, ClosedAt, Listed, WriterMoved, HandlersStay
<1>8. ServedInv'
  BY <1>1, <1>2 DEF Inv, ServedInv, Telling, WriterMoved
<1>9. QueueInv'
  BY <1>1, <1>2, QueueKept DEF Inv, WriterMoved, HandlersStay, WritersStay
<1>10. TruthInv'
  BY <1>0, <1>1, <1>2, TruthKept DEF WriterMoved, New, UserSteps
<1> QED
  BY <1>1, <1>3, <1>4, <1>5, <1>6, <1>7, <1>8, <1>9, <1>10 DEF Inv

LEMMA WriteLockKeeps ==
    ASSUME Inv, NEW w \in Writers, WriteLock(w)
    PROVE  Inv'
<1>1. WriterMoved(w, "write", "send") /\ PcType'
  BY WriterMoves DEF Inv, WriteLock, GoFrom, WriterSteps
<1>2. UNCHANGED <<env, state, m_handlers, m_client_events, m_server_fd, fd, kernel, peer, lines, subject, at, starts, told>>
  BY DEF WriteLock, server, net
<1>0. TypeOK /\ PcType /\ PlacesInv /\ LocksInv /\ HandlersInv /\ NewInv /\ ServedInv /\ QueueInv /\ TruthInv
  BY DEF Inv
<1>3. TypeOK'
    BY <1>1, <1>2, ThreadsDiffer DEF Inv, WriteLock, TypeOK, PcType, Take, Mutexes
<1>4. PlacesInv'
    BY <1>1, <1>2 DEF Inv, PlacesInv, WriterMoved
<1>5. LocksInv'
  BY <1>1, <1>2, ThreadsDiffer, HandlersTaken DEF Inv, WriteLock, WriterMoved, HandlersStay, WritersStay, Holding, SameSide, Threads
<1>6. HandlersInv'
  BY <1>1, <1>2, ThreadsDiffer, HandlersKept DEF Inv, WriterMoved, HandlersStay, ClosedAt
<1>7. NewInv'
    BY <1>1, <1>2 DEF Inv, NewInv, Fresh, New, ClosedAt, Listed, WriterMoved, HandlersStay
<1>8. ServedInv'
  BY <1>1, <1>2 DEF Inv, ServedInv, Telling, WriterMoved
<1>9. QueueInv'
  BY <1>1, <1>2, QueueKept DEF Inv, WriterMoved, HandlersStay, WritersStay
<1>10. TruthInv'
  BY <1>0, <1>1, <1>2, TruthKept DEF WriterMoved, New, UserSteps
<1> QED
  BY <1>1, <1>3, <1>4, <1>5, <1>6, <1>7, <1>8, <1>9, <1>10 DEF Inv

LEMMA WriteSendKeeps ==
    ASSUME Inv, NEW w \in Writers, WriteSend(w)
    PROVE  Inv'
<1>1. WriterMoved(w, "send", "idle") /\ PcType'
  BY WriterMoves DEF Inv, WriteSend, GoFrom, WriterSteps
<1>2. UNCHANGED <<env, state, m_handlers, m_client_events, m_server_fd, fd, kernel, peer, lines, subject, at, starts, told>>
  BY DEF WriteSend, server, net
<1>0. TypeOK /\ PcType /\ PlacesInv /\ LocksInv /\ HandlersInv /\ NewInv /\ ServedInv /\ QueueInv /\ TruthInv
  BY DEF Inv
<1>3. TypeOK'
  <2>1. lock' \in [Mutexes -> Threads \union {Nobody}]
    BY <1>0 DEF WriteSend, ReleaseAll, TypeOK
  <2> QED
    BY <1>0, <1>1, <1>2, <2>1 DEF TypeOK, PcType
<1>4. PlacesInv'
    BY <1>1, <1>2 DEF Inv, PlacesInv, WriterMoved
<1>5. LocksInv'
    BY <1>1, <1>2, ThreadsDiffer DEF Inv, WriteSend, LocksInv, Holding, Threads, Logs, WriterMoved,
      HandlersStay, WritersStay, ReleaseAll, Mutexes
<1>6. HandlersInv'
  BY <1>1, <1>2, ThreadsDiffer, HandlersKept DEF Inv, WriterMoved, HandlersStay, ClosedAt
<1>7. NewInv'
    BY <1>1, <1>2 DEF Inv, NewInv, Fresh, New, ClosedAt, Listed, WriterMoved, HandlersStay
<1>8. ServedInv'
  BY <1>1, <1>2 DEF Inv, ServedInv, Telling, WriterMoved
<1>9. QueueInv'
  BY <1>1, <1>2, QueueKept DEF Inv, WriterMoved, HandlersStay, WritersStay
<1>10. TruthInv'
  BY <1>0, <1>1, <1>2, TruthKept DEF WriterMoved, New, UserSteps
<1> QED
  BY <1>1, <1>3, <1>4, <1>5, <1>6, <1>7, <1>8, <1>9, <1>10 DEF Inv

\* The new handler's thread is started, and its handler listed.
LEMMA CreateKeeps ==
    ASSUME Inv, Create
    PROVE  Inv'
<1> DEFINE h == subject["listen"]
           n == Len(m_handlers) + 1
<1>0. TypeOK /\ PcType /\ PlacesInv /\ LocksInv /\ HandlersInv /\ NewInv /\ ServedInv /\ QueueInv /\ TruthInv
  BY DEF Inv
<1>1. pc["listen"] = "create" /\ New
  BY DEF Create, New
<1>2. UNCHANGED <<env, lock, state, m_client_events, m_server_fd, fd, kernel, peer, lines, subject, at, starts, told>>
  BY DEF Create, net
<1>3. h \in Conns /\ Fresh(h) /\ kernel[fd[h]] = h /\ peer[h] # "absent" /\ fd[h] \in Fd
  BY <1>0, <1>1 DEF NewInv
<1>4. pc' = [pc EXCEPT !["listen"] = "await", ![h] = "born"] /\ m_handlers' = Append(m_handlers, h)
  BY DEF Create
<1> HIDE DEF h, n
<1>5. pc'["listen"] = "await" /\ pc'[h] = "born" /\ pc'["user"] = pc["user"] /\ pc'["work"] = pc["work"]
      /\ (\A c \in Conns : c # h => pc'[c] = pc[c]) /\ WritersStay
  BY <1>0, <1>3, <1>4, ThreadsDiffer DEF PcType, WritersStay
<1>6. PcType'
  BY <1>0, <1>3, <1>4, <1>5 DEF PcType, WritersStay, ListenSteps, HandlerSteps
<1>7. pc["user"] \notin Holding /\ pc["work"] \notin Holding
  BY <1>0, <1>1, ThreadsDiffer DEF LocksInv, Holding
<1>8. \A i : ~ClosedAt(i) /\ ~ClosedAt(i)'
  BY <1>5, <1>7 DEF ClosedAt, Holding
<1>9. /\ m_handlers' \in Seq(Conns) /\ n \in Nat /\ DOMAIN m_handlers' = 1 .. n /\ Len(m_handlers') = n
      /\ m_handlers' # <<>> /\ n \in DOMAIN m_handlers' /\ m_handlers'[n] = h
      /\ \A i \in DOMAIN m_handlers : i \in DOMAIN m_handlers' /\ m_handlers'[i] = m_handlers[i]
      /\ \A i \in DOMAIN m_handlers' : i = n \/ i \in DOMAIN m_handlers
  <2>1. m_handlers \in Seq(Conns)
    BY <1>0 DEF TypeOK
  <2> QED
    BY <1>3, <1>4, <2>1 DEF n
<1>10. \A c : Listed(c)' <=> Listed(c) \/ c = h
  BY <1>9 DEF Listed
<1>11. TypeOK'
  BY <1>0, <1>2, <1>6, <1>9 DEF TypeOK, PcType
<1>12. PlacesInv'
  BY <1>0, <1>1, <1>2, <1>5, <1>7 DEF PlacesInv, UserSteps, Holding
<1>13. LocksInv'
  <2>1. \A t \in Threads : pc'[t] \in Holding <=> pc[t] \in Holding
    BY <1>0, <1>1, <1>3, <1>5 DEF Threads, Holding, WritersStay, Fresh
  <2> QED
    BY <1>0, <1>2, <1>5, <2>1 DEF LocksInv, WritersStay
<1>14. HandlersInv'
  <2>1. \A i \in DOMAIN m_handlers : m_handlers[i] # h
    BY <1>3 DEF Fresh, Listed
  <2>2. \A i, j \in DOMAIN m_handlers' : m_handlers'[i] = m_handlers'[j] => i = j
    BY <1>0, <1>9, <2>1 DEF HandlersInv
  <2>3. \A c \in Conns : pc'[c] # "off" => Listed(c)'
    BY <1>0, <1>5, <1>10 DEF HandlersInv
  <2>4. \A i \in DOMAIN m_handlers' : kernel'[fd'[m_handlers'[i]]] = m_handlers'[i]
    BY <1>0, <1>2, <1>3, <1>8, <1>9 DEF HandlersInv
  <2>5. pc'["work"] \notin {"join", "erase"}
    BY <1>5, <1>7 DEF Holding
  <2> QED
    BY <1>8, <2>2, <2>3, <2>4, <2>5 DEF HandlersInv
<1>15. NewInv'
  <2>1. ASSUME NEW c \in Conns, peer'[c] = "absent" PROVE Fresh(c)'
    <3>1. c # h /\ Fresh(c)
      BY <1>0, <1>2, <1>3, <2>1 DEF NewInv
    <3>2. pc'[c] = pc[c] /\ told'[c] = told[c] /\ (Listed(c)' => Listed(c))
      BY <1>2, <1>5, <1>10, <3>1
    <3> QED
      BY <1>2, <3>1, <3>2, FreshKept
  <2>2. ~New'
    BY <1>5 DEF New
  <2>3. m_handlers'[Len(m_handlers')] = subject'["listen"] /\ subject'["listen"] = h
    BY <1>2, <1>9 DEF h
  <2>4. ASSUME NEW f \in Fd, kernel'[f] # Nobody
        PROVE  /\ fd'[kernel'[f]] = f
               /\ \E i \in DOMAIN m_handlers' : m_handlers'[i] = kernel'[f] /\ ~ClosedAt(i)'
    <3>1. kernel'[f] = kernel[f] /\ fd[kernel[f]] = f /\ fd' = fd
      BY <1>0, <1>2, <2>4 DEF NewInv
    <3>2. kernel[f] = h \/ \E i \in DOMAIN m_handlers : m_handlers[i] = kernel[f]
      BY <1>0, <1>2, <2>4 DEF NewInv, h
    <3> QED
      BY <1>8, <1>9, <3>1, <3>2
  <2> QED
    BY <1>0, <1>2, <1>3, <1>9, <2>1, <2>2, <2>3, <2>4 DEF NewInv
<1>16. ServedInv'
  BY <1>0, <1>2, <1>5 DEF ServedInv, Telling
<1>17. QueueInv'
  <2>1. \A i \in DOMAIN m_client_events : m_client_events[i].from \in Conns /\ m_client_events[i].from # h
    BY <1>0, <1>3, Sequences DEF Fresh
  <2> QED
    BY <1>0, <1>2, <1>5, <2>1 DEF QueueInv
<1>18. TruthInv'
  <2>1. PromptInv'
    <3>1. \A i \in DOMAIN m_client_events : m_client_events[i].from # h
      BY <1>3 DEF Fresh
    <3>2. m_client_events # <<>> => Head(m_client_events).from # h
      <4>1. m_client_events # <<>> => 1 \in DOMAIN m_client_events /\ Head(m_client_events) = m_client_events[1]
        BY <1>0 DEF TypeOK
      <4> QED
        BY <3>1, <4>1
    <3>3. pc["work"] = "tellGone" => m_client_events # <<>>
      BY <1>0 DEF ServedInv
    <3> QED
      BY <1>0, <1>2, <1>5, <1>7, <1>10, <3>1, <3>2, <3>3 DEF TruthInv, PromptInv, Holding
  <2>2. ASSUME NEW c \in Conns, Account(c) PROVE Account(c)'
    <3>1. Greeted(c)' <=> Greeted(c)
      BY <1>1, <1>2, <1>5 DEF Greeted
    <3>2. Left(c)' <=> Left(c)
      <4>1. CASE c = h
        BY <1>1, <1>2, <1>5, <1>7, <1>9, <4>1 DEF Left, Holding, h
      <4>2. CASE c # h
        <5>1. (\E i \in DOMAIN m_handlers' : m_handlers'[i] = c) <=> (\E i \in DOMAIN m_handlers : m_handlers[i] = c)
          BY <1>9, <4>2
        <5>2. ~(New /\ subject["listen"] = c) /\ ~(New' /\ subject'["listen"] = c)
          BY <1>5, <4>2 DEF New, h
        <5> QED
          BY <1>2, <1>5, <1>7, <5>1, <5>2 DEF Left, Holding
      <4> QED
        BY <4>1, <4>2
    <3> QED
      BY <1>2, <2>2, <3>1, <3>2, AccountKept
  <2> QED
    BY <1>0, <1>2, <2>1, <2>2 DEF TruthInv
<1> QED
  BY <1>6, <1>11, <1>12, <1>13, <1>14, <1>15, <1>16, <1>17, <1>18 DEF Inv

\* A client hangs up: nothing the server reads is changed.
LEMMA HangUpKeeps ==
    ASSUME Inv, NEW c \in Conns, HangUp(c)
    PROVE  Inv'
<1>0. TypeOK /\ PcType /\ PlacesInv /\ LocksInv /\ HandlersInv /\ NewInv /\ ServedInv /\ QueueInv /\ TruthInv
  BY DEF Inv
<1>1. UNCHANGED <<env, lock, pc, state, m_handlers, m_client_events, m_server_fd, fd, kernel, lines, subject, at, starts, told>>
  BY DEF HangUp, server
<1>2. peer' \in [Conns -> {"absent", "linked", "hungup"}] /\ \A d \in Conns : peer'[d] = "absent" <=> peer[d] = "absent"
  BY <1>0 DEF HangUp, TypeOK
<1>3. TypeOK' /\ PcType'
  BY <1>0, <1>1, <1>2 DEF TypeOK, PcType
<1>4. PlacesInv' /\ LocksInv' /\ ServedInv' /\ QueueInv'
  BY <1>0, <1>1 DEF PlacesInv, LocksInv, ServedInv, QueueInv
<1>5. \A i : ClosedAt(i)' <=> ClosedAt(i)
  BY <1>1 DEF ClosedAt
<1>6. \A d : (Listed(d)' <=> Listed(d)) /\ (Fresh(d)' <=> Fresh(d))
  BY <1>1 DEF Listed, Fresh
<1>7. HandlersInv'
  BY <1>0, <1>1, <1>5, <1>6 DEF HandlersInv
<1>8. NewInv'
  BY <1>0, <1>1, <1>2, <1>5, <1>6 DEF NewInv, New
<1>9. TruthInv'
  BY <1>0, <1>1, <1>2, TruthKept DEF New
<1> QED
  BY <1>3, <1>4, <1>7, <1>8, <1>9 DEF Inv

---------------------------------------------------------------------------
\* All of it together.
LEMMA InitHas ==
    ASSUME Init
    PROVE  Inv
<1>1. /\ pc["user"] = "idle" /\ pc["listen"] = "off" /\ pc["work"] = "wait"
      /\ \A c \in Conns : pc[c] = "off"
      /\ \A w \in Writers : pc[w] = "idle"
  BY ThreadsDiffer DEF Init
<1>2. PcType
  <2>1. pc \in [Threads -> {"idle", "off", "wait"}]
    BY DEF Init
  <2> QED
    BY <1>1, <2>1 DEF PcType, UserSteps, ListenSteps, WorkSteps, HandlerSteps, WriterSteps
<1>3. /\ m_handlers = <<>> /\ m_client_events = <<>> /\ state["listen"] = "STOPPED"
      /\ state["work"] = "RUNNING" /\ \A m \in Mutexes : lock[m] = Nobody
      /\ \A f \in Fd : kernel[f] = Nobody
      /\ \A c \in Conns : peer[c] = "absent" /\ told[c] = <<>>
  BY ThreadsDiffer DEF Init, Workers
<1>4. TypeOK
  <2>1. /\ env \in Env /\ lock \in [Mutexes -> Threads \union {Nobody}]
        /\ state \in [Workers -> {"STOPPED", "RUNNING", "STOPPING"}]
        /\ kernel \in [Fd -> Conns \union {Nobody}]
        /\ subject \in [{"listen", "work"} -> Conns \union {Nobody}]
    BY DEF Init
  <2>2. m_handlers \in Seq(Conns) /\ m_client_events \in Seq(Event)
    BY <1>3
  <2>5. at \in Nat \ {0} /\ starts \in 0 .. MaxStarts
    <3>1. at = 1 /\ starts = 0
      BY DEF Init
    <3> QED
      BY <3>1
  <2>6. m_server_fd \in BOOLEAN
    BY DEF Init
  <2>3. /\ fd \in [Conns -> Fd \union {None}]
        /\ peer \in [Conns -> {"absent", "linked", "hungup"}]
        /\ lines \in [Conns -> 0 .. MaxLines]
    BY DEF Init
  <2>4. told \in [Conns -> Seq({"hello", "data", "gone"})]
    <3>1. <<>> \in Seq({"hello", "data", "gone"})
      OBVIOUS
    <3> QED
      BY <3>1 DEF Init
  <2> QED
    BY <1>2, <2>1, <2>2, <2>3, <2>4, <2>5, <2>6 DEF TypeOK, PcType
<1>5. PlacesInv
  BY <1>1, <1>3 DEF PlacesInv
<1>6. LocksInv
  BY <1>1, <1>3, ThreadsDiffer DEF LocksInv, Holding, Mutexes, Threads
<1>7. HandlersInv
  BY <1>1, <1>3 DEF HandlersInv
<1>8. \A c \in Conns : Fresh(c)
  <2>1. DOMAIN m_handlers = {} /\ DOMAIN m_client_events = {}
    BY <1>3
  <2> QED
    BY <1>1, <1>3, <2>1 DEF Fresh, Listed
<1>9. NewInv
  BY <1>1, <1>3, <1>8 DEF NewInv, New
<1>10. ServedInv /\ QueueInv
  BY <1>1, <1>3 DEF ServedInv, QueueInv
<1>11. TruthInv
  <2>1. PromptInv
    BY <1>1, <1>3 DEF PromptInv
  <2>2. ASSUME NEW c \in Conns PROVE Account(c)
    <3>1. Heard(c, "hello") = {} /\ Heard(c, "gone") = {}
      BY <1>3 DEF Heard
    <3>2. ~Greeted(c) /\ ~Left(c)
      BY <1>3 DEF Greeted, Left
    <3> QED
      BY <3>1, <3>2 DEF Account, Once
  <2> QED
    BY <2>1, <2>2 DEF TruthInv
<1> QED
  BY <1>2, <1>4, <1>5, <1>6, <1>7, <1>9, <1>10, <1>11 DEF Inv

LEMMA NextKeeps ==
    ASSUME Inv, [Next]_vars
    PROVE  Inv'
<1>1. CASE StartFails \/ StartSucceeds \/ Stop
  BY <1>1, StartFailsKeeps, StartSucceedsKeeps, StopKeeps
<1>2. CASE User
  BY <1>2, StopWorkKeeps, StopListeningSocketKeeps, CloseAllKeeps, CloseEachKeeps, JoinEachKeeps,
     TellEachKeeps, CloseAllDoneKeeps DEF User
<1>3. CASE Listen
  BY <1>3, AcceptFailsKeeps, AcceptKeeps, InsertKeeps, CreateKeeps, HandlerReadyKeeps,
     HandlerLateKeeps, GivenUpKeeps, GreetKeeps DEF Listen
<1>4. CASE Work
  BY <1>4, WorkWakeKeeps, TellDataKeeps, ReplyLockKeeps, ReplySendKeeps, CallbackReturnsKeeps,
     CloseClientKeeps, FindHandlerKeeps, FindNoneKeeps, JoinHandlerKeeps, EraseHandlerKeeps,
     TellGoneKeeps DEF Work
<1>5. CASE \E c \in Conns : HangUp(c) \/ Handler(c)
  <2>1. PICK c \in Conns : HangUp(c) \/ Handler(c)
    BY <1>5
  <2> QED
    BY <2>1, HangUpKeeps, HandlerBeginKeeps, RecvKeeps, PostLineKeeps, PostGoneKeeps, LeaveKeeps
       DEF Handler
<1>6. CASE \E w \in Writers : PutLog(w) \/ Notify(w) \/ Writer(w)
  <2>1. PICK w \in Writers : PutLog(w) \/ Notify(w) \/ Writer(w)
    BY <1>6
  <2> QED
    BY <2>1, PutLogKeeps, NotifyKeeps, WriteLockKeeps, WriteSendKeeps DEF Writer
<1>7. CASE UNCHANGED vars
  <2>0. TypeOK /\ PcType /\ PlacesInv /\ LocksInv /\ HandlersInv /\ NewInv /\ ServedInv /\ QueueInv /\ TruthInv
    BY DEF Inv
  <2>1. UNCHANGED <<env, lock, pc, state, m_handlers, m_client_events, m_server_fd, fd, kernel,
                    peer, lines, subject, at, starts, told>>
    BY <1>7 DEF vars, server, net
  <2>2. TypeOK' /\ PcType'
    BY <2>0, <2>1 DEF TypeOK, PcType
  <2>3. PlacesInv' /\ LocksInv' /\ ServedInv' /\ QueueInv'
    BY <2>0, <2>1 DEF PlacesInv, LocksInv, ServedInv, QueueInv
  <2>4. \A i : (ClosedAt(i)' <=> ClosedAt(i)) /\ (Listed(i)' <=> Listed(i)) /\ (Fresh(i)' <=> Fresh(i))
    BY <2>1 DEF ClosedAt, Listed, Fresh
  <2>5. HandlersInv' /\ NewInv'
    BY <2>0, <2>1, <2>4 DEF HandlersInv, NewInv, New
  <2>6. TruthInv'
    BY <2>0, <2>1, TruthKept DEF New
  <2> QED
    BY <2>2, <2>3, <2>5, <2>6 DEF Inv
<1> QED
  BY <1>1, <1>2, <1>3, <1>4, <1>5, <1>6, <1>7 DEF Next

LEMMA InvHolds == Spec => []Inv
<1>1. Init => Inv
  BY InitHas
<1>2. Inv /\ [Next]_vars => Inv'
  BY NextKeeps
<1> QED
  BY <1>1, <1>2, PTL DEF Spec

---------------------------------------------------------------------------
\* Every variable keeps its type: descriptors are those the kernel gave,
\* events name the client they came from.
THEOREM ServerTypes == Spec => []TypeOK
<1>1. Inv => TypeOK
  BY DEF Inv
<1> QED
  BY <1>1, InvHolds, PTL

\* A thread that serves a client reads the descriptor of that client.
LEMMA ReadsOwn ==
    ASSUME Inv
    PROVE  ReadsItsOwn
<1> SUFFICES ASSUME NEW c \in Conns, pc[c] # "off" PROVE kernel[fd[c]] = c
  BY DEF ReadsItsOwn
<1>1. PICK i \in DOMAIN m_handlers : m_handlers[i] = c
  BY DEF Inv, HandlersInv, Listed
<1> QED
  BY <1>1 DEF Inv, HandlersInv

\* Descriptors and events belong to the client they are taken for, and every
\* client that was let in is reported once as connected and once as gone, with
\* no data after that (SocketServer.cpp, listening_thread(), worker_thread()
\* and closeAllClients()).
THEOREM ClientsHold == Spec => []ClientsTrue
<1>1. ASSUME Inv PROVE ClientsTrue
  <2>0. TypeOK /\ PcType /\ PlacesInv /\ NewInv /\ ServedInv /\ TruthInv
    BY <1>1 DEF Inv
  <2>1. OwnDescriptors
    <3>1. ReadsItsOwn
      BY <1>1, ReadsOwn
    <3>2. env.prompt => ClosesItsOwn
      BY <2>0 DEF TruthInv, PromptInv, ClosesItsOwn
    <3> QED
      BY <3>1, <3>2 DEF OwnDescriptors
  <2>2. ASSUME env.prompt, NEW c \in Conns
        PROVE  \A i \in Heard(c, "gone") : \A j \in DOMAIN told[c] : j > i => told[c][j] = "hello"
    BY <2>0, <2>2 DEF TruthInv, Account
  <2>3. ASSUME env.prompt, Stopped
        PROVE  /\ m_handlers = <<>> /\ \A f \in Fd : kernel[f] = Nobody
               /\ \A c \in Conns : peer[c] # "absent" =>
                      \E i, j \in DOMAIN told[c] :
                          Heard(c, "hello") = {i} /\ Heard(c, "gone") = {j}
    <3>1. m_handlers = <<>> /\ pc["user"] = "idle" /\ pc["listen"] = "off" /\ pc["work"] = "off"
      BY <2>0, <2>3 DEF Stopped, Joined, PlacesInv
    <3>2. \A f \in Fd : kernel[f] = Nobody
      BY <2>0, <3>1 DEF NewInv, New
    <3>3. ASSUME NEW c \in Conns, peer[c] # "absent"
          PROVE  \E i, j \in DOMAIN told[c] : Heard(c, "hello") = {i} /\ Heard(c, "gone") = {j}
      <4>1. Greeted(c) /\ Left(c)
        BY <3>1, <3>3 DEF Greeted, Left, New
      <4>2. Account(c)
        BY <2>0, <2>3 DEF TruthInv
      <4>3. PICK i \in Heard(c, "hello") : Heard(c, "hello") = {i}
        BY <4>1, <4>2 DEF Account, Once
      <4>4. PICK j \in Heard(c, "gone") : Heard(c, "gone") = {j}
        BY <4>1, <4>2 DEF Account, Once
      <4>5. i \in DOMAIN told[c] /\ j \in DOMAIN told[c]
        BY <4>3, <4>4 DEF Heard
      <4> QED
        BY <4>3, <4>4, <4>5
    <3> QED
      BY <3>1, <3>2, <3>3
  <2>4. PromptFarewell
    BY <2>2, <2>3 DEF PromptFarewell
  <2> QED
    BY <2>1, <2>4 DEF ClientsTrue
<1> QED
  BY <1>1, InvHolds, PTL

\* No circle of threads that wait for each other's mutexes or ends, with a
\* server that is not the Logger's front end and threads that start in time.
\* The worker is the one to look at: what it wants is free, or held by the
\* listening thread, which then goes on, and the handler it joins has nothing
\* left to do but to leave.
THEOREM NoCircle == Spec => []PlainNoDeadlock
<1>1. ASSUME Inv PROVE PlainNoDeadlock
  <2>0. TypeOK /\ PcType /\ PlacesInv /\ LocksInv /\ HandlersInv /\ ServedInv /\ QueueInv /\ TruthInv
    BY <1>1 DEF Inv
  <2> SUFFICES ASSUME env.prompt, ~env.front, NEW S \in (SUBSET Threads) \ {{}},
                      \A t \in S : \E s \in S : WaitsFor(t, s)
               PROVE  FALSE
    BY DEF PlainNoDeadlock
  <2>1. /\ lock["log"] = Nobody
        /\ lock["listeners"] = IF pc["work"] \in {"reply", "send", "return"} THEN "work" ELSE Nobody
        /\ lock["client"] = IF pc["work"] \in {"off", "wait"} THEN Nobody ELSE "work"
        /\ \A t \in Threads : pc[t] \in Holding <=> lock["handlers"] = t
    BY <2>0 DEF LocksInv
  <2>2. Nobody \notin S /\ S \subseteq Threads
    BY ThreadsDiffer
  <2>3. ASSUME NEW w \in Writers PROVE w \notin S
    <3>1. pc[w] \in {"idle", "send"}
      BY <2>0 DEF PcType, WriterSteps, LocksInv
    <3>2. Wanted(w) \subseteq {"log"} /\ Joining(w) = {}
      BY <3>1, ThreadsDiffer DEF Wanted, Joining
    <3> QED
      BY <2>1, <2>2, <3>2 DEF WaitsFor
  <2>4. ASSUME NEW c \in Conns, c \in S PROVE pc[c] \in {"post", "postGone"} /\ "work" \in S
    <3>1. pc[c] \in HandlerSteps
      BY <2>0 DEF PcType
    <3>2. Joining(c) = {} /\ Wanted(c) = IF pc[c] \in {"post", "postGone"} THEN {"client"} ELSE {}
      BY <3>1, ThreadsDiffer DEF Wanted, Joining, HandlerSteps
    <3> QED
      BY <2>1, <2>2, <2>4, <3>2 DEF WaitsFor
  <2>5. ASSUME NEW t \in S, pc[t] \in Holding
        PROVE  t \in {"user", "listen", "work"}
    <3>1. t \notin Writers /\ \A c \in Conns : pc[c] \notin Holding
      BY <2>0, <2>3, <2>5 DEF PcType, Holding, HandlerSteps
    <3> QED
      BY <2>5, <3>1 DEF Threads
  <2>6. pc["listen"] \in {"off", "accept", "create", "await"} => "listen" \notin S
    <3>1. pc["listen"] \in {"off", "accept", "create", "await"} =>
              Wanted("listen") \subseteq {"log"} /\ Joining("listen") = {}
      BY DEF Wanted, Joining
    <3> QED
      BY <2>1, <2>2, <3>1 DEF WaitsFor
  <2>7. "work" \notin S
    <3> SUFFICES ASSUME "work" \in S PROVE FALSE
      OBVIOUS
    <3>1. PICK s \in S : WaitsFor("work", s)
      OBVIOUS
    <3>2. pc["work"] \in {"reply", "closeClient", "join"}
      <4>1. pc["work"] \in WorkSteps \ {"reply", "closeClient", "join"} =>
                /\ Joining("work") = {}
                /\ \A m \in Wanted("work") : lock[m] \in {Nobody, "work"}
        BY <2>1 DEF Wanted, Joining, WorkSteps
      <4> QED
        BY <2>0, <2>2, <3>1, <4>1 DEF WaitsFor, PcType
    <3>3. CASE pc["work"] \in {"reply", "closeClient"}
      <4>1. lock["handlers"] = s /\ s # "work"
        BY <3>1, <3>3 DEF WaitsFor, Wanted, Joining
      <4>2. pc[s] \in Holding /\ s \in {"user", "listen"}
        BY <2>1, <2>5, <4>1
      <4>3. pc["user"] \notin Holding
        BY <2>0, <3>3 DEF PlacesInv, PcType, UserSteps, Holding
      <4>4. pc["listen"] \in {"create", "await"}
        BY <2>0, <4>2, <4>3 DEF PlacesInv, PcType, ListenSteps, Holding
      <4> QED
        BY <2>6, <4>2, <4>3, <4>4
    <3>4. CASE pc["work"] = "join"
      <4>1. s = subject["work"] /\ pc[s] # "off"
        BY <3>1, <3>4 DEF WaitsFor, Wanted, Joining
      <4>2. /\ m_client_events # <<>> /\ Head(m_client_events).kind # "data"
            /\ s = Head(m_client_events).from
        BY <2>0, <3>4, <4>1 DEF ServedInv, Telling, TruthInv, PromptInv
      <4>3. 1 \in DOMAIN m_client_events /\ Head(m_client_events) = m_client_events[1]
        BY <2>0, <4>2 DEF TypeOK
      <4>4. Head(m_client_events).kind = "gone" /\ s \in Conns
        BY <2>0, <4>2, <4>3, Sequences
      <4>5. pc[s] \in {"leave", "off"}
        BY <2>0, <4>2, <4>3, <4>4 DEF QueueInv
      <4> QED
        BY <2>4, <3>1, <4>4, <4>5
    <3> QED
      BY <3>2, <3>3, <3>4
  <2>8. \A c \in Conns : c \notin S
    BY <2>4, <2>7
  <2>9. "listen" \notin S
    <3> SUFFICES ASSUME "listen" \in S PROVE FALSE
      OBVIOUS
    <3>1. PICK s \in S : WaitsFor("listen", s)
      OBVIOUS
    <3>2. pc["listen"] \in {"insert", "greet"}
      BY <2>0, <2>6 DEF PcType, ListenSteps, PlacesInv
    <3>3. lock["handlers"] = s /\ s # "listen"
      BY <2>1, <2>2, <2>7, <3>1, <3>2 DEF WaitsFor, Wanted, Joining
    <3>4. s = "user" /\ pc["user"] \in Holding
      BY <2>1, <2>5, <2>7, <3>3
    <3> QED
      BY <2>0, <3>2, <3>4 DEF PlacesInv, PcType, UserSteps, Holding
  <2>10. \A t \in S : t = "user"
    BY <2>3, <2>7, <2>8, <2>9 DEF Threads
  <2>11. WaitsFor("user", "user")
    <3>0. S # {}
      OBVIOUS
    <3>1. PICK t \in S : TRUE
      BY <3>0
    <3>2. PICK s \in S : WaitsFor(t, s)
      BY <3>1
    <3> QED
      BY <2>10, <3>1, <3>2
  <2>12. "user" \in Joining("user")
    BY <2>11 DEF WaitsFor
  <2>13. pc["user"] = "joinEach" => m_handlers[at] \in Conns
    <3>1. pc["user"] = "joinEach" => at <= Len(m_handlers) /\ at \in Nat \ {0}
      BY <2>0 DEF PlacesInv, TypeOK
    <3> QED
      BY <2>0, <3>1, Sequences
  <2> QED
    BY <2>12, <2>13, ThreadsDiffer DEF Joining
<1> QED
  BY <1>1, InvHolds, PTL

=============================================================================
