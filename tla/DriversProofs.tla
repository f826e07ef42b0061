--------------------------- MODULE DriversProofs ---------------------------
(***************************************************************************)
(* Proofs about the drivers behind a port, for any number of descriptors,  *)
(* processes, lines, sockets and calling threads: type correctness, the    *)
(* descriptors and losses of the serial port, the ends and the silence of  *)
(* commands, the events and the calls of the TCP client.                   *)
(***************************************************************************)
EXTENDS Drivers, TLAPS

---------------------------------------------------------------------------
(* The serial port *)

LEMMA SerialTypeInit == Init => TypeOK
<1> SUFFICES ASSUME Init PROVE TypeOK
  OBVIOUS
<1>1. plugged \in BOOLEAN /\ dying \in BOOLEAN
  BY Zenon DEF Init
<1>2. QED
  BY <1>1, ConstantsAssumption
     DEF Init, TypeOK, OwnerSteps, ThreadSteps, WorkerInit, WorkerTypeOK

LEMMA SerialTypeStep == TypeOK /\ [Next]_vars => TypeOK'
<1> SUFFICES ASSUME TypeOK, [Next]_vars PROVE TypeOK'
  OBVIOUS
<1> USE DEF TypeOK, OwnerSteps, ThreadSteps, WorkerTypeOK, driver, workerVars, OwnerAt, ThreadAt
<1>1. CASE Construct
  BY <1>1 DEF Construct, Spawn
<1>2. CASE Constructed
  BY <1>2 DEF Constructed
<1>3. CASE OpenDevice
  BY <1>3 DEF OpenDevice
<1>4. CASE SetupFails
  BY <1>4 DEF SetupFails, Closed
<1>5. CASE RequestOpen
  BY <1>5 DEF RequestOpen
<1>6. CASE AwaitOpen
  BY <1>6 DEF AwaitOpen
<1>7. CASE Close
  BY <1>7 DEF Close
<1>8. CASE RequestClose
  BY <1>8 DEF RequestClose
<1>9. CASE AwaitClose
  BY <1>9 DEF AwaitClose
<1>10. CASE Destroy
  BY <1>10 DEF Destroy
<1>11. CASE DestroyClosing
  BY <1>11 DEF DestroyClosing
<1>12. CASE DestroyStop
  BY <1>12 DEF DestroyStop, RequestStop
<1>13. CASE DestroyJoin
  BY <1>13 DEF DestroyJoin, Join
<1>14. CASE DestroyWorker
  BY <1>14 DEF DestroyWorker, RequestStop
<1>15. CASE ThreadEnters
  BY <1>15 DEF ThreadEnters, Enter
<1>16. CASE ThreadLoops
  BY <1>16 DEF ThreadLoops, Leave
<1>17. CASE ThreadWakes
  BY <1>17 DEF ThreadWakes, Leave
<1>18. CASE ThreadServes
  BY <1>18 DEF ThreadServes
<1>19. CASE ThreadReads
  BY <1>19 DEF ThreadReads, Notify
<1>20. CASE ThreadNotified
  BY <1>20 DEF ThreadNotified, After
<1>21. CASE ThreadSetsIdle
  BY <1>21 DEF ThreadSetsIdle
<1>22. CASE ThreadCloses
  <2>1. tty' \in [Fd -> {"unused", "live", "dead", "closed"}]
    BY <1>22 DEF ThreadCloses, Closed
  <2>2. QED
    BY <1>22, <2>1 DEF ThreadCloses
<1>23. CASE ThreadClears
  BY <1>23 DEF ThreadClears
<1>24. CASE Plug
  BY <1>24 DEF Plug
<1>25. CASE UNCHANGED vars
  BY <1>25 DEF vars
<1>26. QED
  BY <1>1, <1>2, <1>3, <1>4, <1>5, <1>6, <1>7, <1>8, <1>9, <1>10, <1>11, <1>12,
     <1>13, <1>14, <1>15, <1>16, <1>17, <1>18, <1>19, <1>20, <1>21, <1>22, <1>23,
     <1>24, <1>25 DEF Next, Thread, OwnerProceeds

LEMMA LossesInit == Init => LossesInv
BY ConstantsAssumption DEF Init, LossesInv, LossesAreReal, Fd, None

LEMMA LossesStep == TypeOK /\ LossesInv /\ [Next]_vars => LossesInv'
<1> SUFFICES ASSUME TypeOK, LossesInv, [Next]_vars PROVE LossesInv'
  OBVIOUS
<1> USE ConstantsAssumption
    DEF TypeOK, LossesInv, LossesAreReal, Fd, None, IsOpen, IsLive, driver, OwnerAt, ThreadAt
<1>1. CASE Construct
  BY <1>1 DEF Construct, Spawn
<1>2. CASE Constructed
  BY <1>2 DEF Constructed, Started
<1>3. CASE OpenDevice
  BY <1>3 DEF OpenDevice, MayOpen, MayCall
<1>4. CASE SetupFails
  BY <1>4 DEF SetupFails, Closed
<1>5. CASE RequestOpen
  BY <1>5 DEF RequestOpen
<1>6. CASE AwaitOpen
  BY <1>6 DEF AwaitOpen
<1>7. CASE Close
  BY <1>7 DEF Close, MayCall
<1>8. CASE RequestClose
  BY <1>8 DEF RequestClose
<1>9. CASE AwaitClose
  BY <1>9 DEF AwaitClose
<1>10. CASE Destroy
  BY <1>10 DEF Destroy, MayCall
<1>11. CASE DestroyClosing
  BY <1>11 DEF DestroyClosing
<1>12. CASE DestroyStop
  BY <1>12 DEF DestroyStop, RequestStop
<1>13. CASE DestroyJoin
  BY <1>13 DEF DestroyJoin, Join
<1>14. CASE DestroyWorker
  BY <1>14 DEF DestroyWorker, RequestStop, First
<1>15. CASE ThreadEnters
  BY <1>15 DEF ThreadEnters, Enter
<1>16. CASE ThreadLoops
  BY <1>16 DEF ThreadLoops, Leave
<1>17. CASE ThreadWakes
  BY <1>17 DEF ThreadWakes, Leave, Exits
<1>18. CASE ThreadServes
  BY <1>18 DEF ThreadServes
<1>19. CASE ThreadReads
  BY SMTT(30), <1>19 DEF ThreadReads, Notify, Noticed
<1>20. CASE ThreadNotified
  BY <1>20 DEF ThreadNotified, After
<1>21. CASE ThreadSetsIdle
  BY <1>21 DEF ThreadSetsIdle
<1>22. CASE ThreadCloses
  BY <1>22 DEF ThreadCloses, Closed
<1>23. CASE ThreadClears
  BY <1>23 DEF ThreadClears
<1>24. CASE Plug
  BY <1>24 DEF Plug
<1>25. CASE UNCHANGED vars
  BY <1>25 DEF vars
<1>26. QED
  BY <1>1, <1>2, <1>3, <1>4, <1>5, <1>6, <1>7, <1>8, <1>9, <1>10, <1>11,
     <1>12, <1>13, <1>14, <1>15, <1>16, <1>17, <1>18, <1>19, <1>20,
     <1>21, <1>22, <1>23, <1>24, <1>25 DEF Next, Thread, OwnerProceeds

LEMMA OrderlyInit == Init => OrderlyInv
BY ConstantsAssumption DEF Init, OrderlyInv, Resting, IsOpen, Fd, None

LEMMA OrderlyStep == TypeOK /\ OrderlyInv /\ [Next]_vars => OrderlyInv'
<1> SUFFICES ASSUME TypeOK, OrderlyInv, [Next]_vars, env'.orderly PROVE OrderlyInv'
  BY DEF OrderlyInv
<1> USE ConstantsAssumption
    DEF TypeOK, OrderlyInv, Resting, Fd, None, IsOpen, IsLive, isOpened, driver, OwnerAt, ThreadAt
<1>1. CASE Construct
  BY <1>1 DEF Construct, Spawn
<1>2. CASE Constructed
  BY <1>2 DEF Constructed, Started
<1>3. CASE OpenDevice
  BY <1>3 DEF OpenDevice, MayOpen, MayCall
<1>4. CASE SetupFails
  BY <1>4 DEF SetupFails, Closed
<1>5. CASE RequestOpen
  BY <1>5 DEF RequestOpen
<1>6. CASE AwaitOpen
  BY <1>6 DEF AwaitOpen
<1>7. CASE Close
  BY <1>7 DEF Close, MayCall
<1>8. CASE RequestClose
  BY <1>8 DEF RequestClose
<1>9. CASE AwaitClose
  BY <1>9 DEF AwaitClose
<1>10. CASE Destroy
  BY <1>10 DEF Destroy, MayCall
<1>11. CASE DestroyClosing
  BY <1>11 DEF DestroyClosing
<1>12. CASE DestroyStop
  BY <1>12 DEF DestroyStop, RequestStop
<1>13. CASE DestroyJoin
  BY <1>13 DEF DestroyJoin, Join
<1>14. CASE DestroyWorker
  BY <1>14 DEF DestroyWorker, RequestStop, First
<1>15. CASE ThreadEnters
  BY <1>15 DEF ThreadEnters, Enter
<1>16. CASE ThreadLoops
  BY <1>16 DEF ThreadLoops, Leave
<1>17. CASE ThreadWakes
  BY <1>17 DEF ThreadWakes, Leave, Exits
<1>18. CASE ThreadServes
  BY <1>18 DEF ThreadServes
<1>19. CASE ThreadReads
  BY <1>19 DEF ThreadReads, Notify, Noticed
<1>20. CASE ThreadNotified
  BY <1>20 DEF ThreadNotified, After
<1>21. CASE ThreadSetsIdle
  BY <1>21 DEF ThreadSetsIdle
<1>22. CASE ThreadCloses
  BY <1>22 DEF ThreadCloses, Closed
<1>23. CASE ThreadClears
  BY <1>23 DEF ThreadClears
<1>24. CASE Plug
  BY <1>24 DEF Plug
<1>25. CASE UNCHANGED vars
  BY <1>25 DEF vars
<1>26. QED
  BY <1>1, <1>2, <1>3, <1>4, <1>5, <1>6, <1>7, <1>8, <1>9, <1>10, <1>11,
     <1>12, <1>13, <1>14, <1>15, <1>16, <1>17, <1>18, <1>19, <1>20,
     <1>21, <1>22, <1>23, <1>24, <1>25 DEF Next, Thread, OwnerProceeds

LEMMA PromptInit == Init => PromptInv
BY DEF Init, PromptInv, WorkerInit, isRunning

LEMMA PromptStep == TypeOK /\ PromptInv /\ [Next]_vars => PromptInv'
<1> SUFFICES ASSUME TypeOK, PromptInv, [Next]_vars, env'.prompt PROVE PromptInv'
  BY DEF PromptInv
<1> USE DEF TypeOK, WorkerTypeOK, PromptInv, isRunning, MayCall, workerVars, OwnerAt, ThreadAt
<1>1. CASE Construct
  BY <1>1 DEF Construct, Spawn
<1>2. CASE Constructed
  BY <1>2 DEF Constructed, Started
<1>3. CASE OpenDevice
  BY <1>3 DEF OpenDevice, MayOpen, MayCall
<1>4. CASE SetupFails
  BY <1>4 DEF SetupFails, Closed
<1>5. CASE RequestOpen
  BY <1>5 DEF RequestOpen
<1>6. CASE AwaitOpen
  BY <1>6 DEF AwaitOpen
<1>7. CASE Close
  BY <1>7 DEF Close, MayCall
<1>8. CASE RequestClose
  BY <1>8 DEF RequestClose
<1>9. CASE AwaitClose
  BY <1>9 DEF AwaitClose
<1>10. CASE Destroy
  BY <1>10 DEF Destroy, MayCall
<1>11. CASE DestroyClosing
  BY <1>11 DEF DestroyClosing
<1>12. CASE DestroyStop
  BY <1>12 DEF DestroyStop, RequestStop
<1>13. CASE DestroyJoin
  BY <1>13 DEF DestroyJoin, Join
<1>14. CASE DestroyWorker
  BY <1>14 DEF DestroyWorker, RequestStop, First
<1>15. CASE ThreadEnters
  BY <1>15 DEF ThreadEnters, Enter
<1>16. CASE ThreadLoops
  BY <1>16 DEF ThreadLoops, Leave
<1>17. CASE ThreadWakes
  BY <1>17 DEF ThreadWakes, Leave, Exits
<1>18. CASE ThreadServes
  BY <1>18 DEF ThreadServes
<1>19. CASE ThreadReads
  BY <1>19 DEF ThreadReads, Notify, Noticed
<1>20. CASE ThreadNotified
  BY <1>20 DEF ThreadNotified, After
<1>21. CASE ThreadSetsIdle
  BY <1>21 DEF ThreadSetsIdle
<1>22. CASE ThreadCloses
  BY <1>22 DEF ThreadCloses, Closed
<1>23. CASE ThreadClears
  BY <1>23 DEF ThreadClears
<1>24. CASE Plug
  BY <1>24 DEF Plug
<1>25. CASE UNCHANGED vars
  BY <1>25 DEF vars
<1>26. QED
  BY <1>1, <1>2, <1>3, <1>4, <1>5, <1>6, <1>7, <1>8, <1>9, <1>10, <1>11,
     <1>12, <1>13, <1>14, <1>15, <1>16, <1>17, <1>18, <1>19, <1>20,
     <1>21, <1>22, <1>23, <1>24, <1>25 DEF Next, Thread, OwnerProceeds

---------------------------------------------------------------------------
(* Commands *)

LEMMA CommandsTypeInit == C!Init => C!TypeOK
<1> SUFFICES ASSUME C!Init PROVE C!TypeOK
  OBVIOUS
<1>1. cDying \in BOOLEAN
  BY Zenon DEF C!Init
<1>2. QED
  BY <1>1, CommandsAssumption
     DEF C!Init, C!TypeOK, C!WorkerInit, C!WorkerTypeOK, C!ConstantsSound, C!Env, C!None

LEMMA CommandsTypeStep ==
    C!TypeOK /\ C!ServingInv /\ [C!Next]_C!vars => C!TypeOK'
<1> SUFFICES ASSUME C!TypeOK, C!ServingInv, [C!Next]_C!vars PROVE C!TypeOK'
  OBVIOUS
<1> USE CommandsAssumption
    DEF C!TypeOK, C!ServingInv, C!WorkerTypeOK, C!ConstantsSound, C!Process, C!None,
        C!owner, C!reader, C!procs, C!log, C!workerVars,
        C!OwnerAt, C!ThreadAt
<1>1. CASE C!Construct
  BY SMTT(30), <1>1 DEF C!Construct, C!Spawn
<1>2. CASE C!Constructed
  BY SMTT(30), <1>2 DEF C!Constructed, C!Started
<1>3. CASE C!Start
  BY SMTT(30), <1>3 DEF C!Start
<1>4. CASE C!AwaitStart
  BY SMTT(30), <1>4 DEF C!AwaitStart
<1>5. CASE C!Stop
  BY SMTT(30), <1>5 DEF C!Stop
<1>6. CASE C!RequestStopping
  BY SMTT(30), <1>6 DEF C!RequestStopping
<1>7. CASE C!AwaitStop
  BY SMTT(30), <1>7 DEF C!AwaitStop
<1>8. CASE C!Destroy
  BY SMTT(30), <1>8 DEF C!Destroy
<1>9. CASE C!DestroyExiting
  BY SMTT(30), <1>9 DEF C!DestroyExiting
<1>10. CASE C!DestroyStop
  BY SMTT(30), <1>10 DEF C!DestroyStop, C!RequestStop
<1>11. CASE C!DestroyJoin
  BY SMTT(30), <1>11 DEF C!DestroyJoin, C!Join
<1>12. CASE C!DestroyWorker
  BY SMTT(30), <1>12 DEF C!DestroyWorker, C!RequestStop, C!First
<1>13. CASE C!ThreadEnters
  BY SMTT(30), <1>13 DEF C!ThreadEnters, C!Enter
<1>14. CASE C!ThreadLoops
  BY SMTT(30), <1>14 DEF C!ThreadLoops, C!Leave, C!Orphaned
<1>15. CASE C!ThreadStarts
  <2>1. cAsked \in 1 .. MaxStarts
    BY <1>15 DEF C!ThreadStarts
  <2>2. cProc' \in [1 .. MaxStarts -> {"none", "child", "command", "dead"}]
    BY <1>15, <2>1 DEF C!ThreadStarts
  <2>3. cExecutor' \in (1 .. MaxStarts) \union {0} /\ cUnread' \in Nat
    BY <1>15, <2>1 DEF C!ThreadStarts
  <2>4. QED
    BY <1>15, <2>2, <2>3 DEF C!ThreadStarts
<1>16. CASE C!ThreadStops
  BY SMTT(30), <1>16 DEF C!ThreadStops
<1>17. CASE C!ThreadExits
  BY SMTT(30), <1>17 DEF C!ThreadExits, C!Leave, C!Orphaned
<1>18. CASE C!ThreadServes
  BY SMTT(30), <1>18 DEF C!ThreadServes, C!Notify
<1>19. CASE C!ThreadChecks
  BY SMTT(30), <1>19 DEF C!ThreadChecks
<1>20. CASE C!ThreadReads
  BY SMTT(30), <1>20 DEF C!ThreadReads, C!Notify
<1>21. CASE C!ThreadFindsNothing
  BY SMTT(30), <1>21 DEF C!ThreadFindsNothing, C!Silent
<1>22. CASE C!ThreadLooksAlive
  <2>1. cExecutor \in 1 .. MaxStarts /\ cEvent = "NONE"
    BY <1>22 DEF C!ThreadLooksAlive
  <2>2. cTold' \in [1 .. MaxStarts -> Nat]
    BY SMTT(30), <1>22, <2>1 DEF C!ThreadLooksAlive
  <2>3. QED
    BY SMTT(30), <1>22, <2>1, <2>2 DEF C!ThreadLooksAlive, C!Notify
<1>23. CASE C!ThreadNotified
  <2>1. cExecutor \in 1 .. MaxStarts
    BY <1>23 DEF C!ThreadNotified
  <2>2. cHeard' \in [1 .. MaxStarts -> Nat]
    <3>1. cHeard[cExecutor] + 1 \in Nat
      BY <2>1
    <3>2. cHeard' = [cHeard EXCEPT ![cExecutor] = @ + 1] \/ cHeard' = cHeard
      BY <1>23 DEF C!ThreadNotified
    <3>3. QED
      BY <2>1, <3>1, <3>2
  <2>3. cGot' \in Nat /\ (cGot' > 0 <=> cEvent' = "DATA_RECEIVED")
    BY <1>23 DEF C!ThreadNotified
  <2>4. QED
    BY SMTT(30), <1>23, <2>1, <2>2, <2>3 DEF C!ThreadNotified, C!After
<1>24. CASE C!ThreadSetsStopped
  BY SMTT(30), <1>24 DEF C!ThreadSetsStopped
<1>25. CASE C!ThreadKills
  BY SMTT(30), <1>25 DEF C!ThreadKills, C!Interrupted
<1>26. CASE C!ThreadCloses
  BY SMTT(30), <1>26 DEF C!ThreadCloses, C!Interrupted
<1>27. CASE C!ProcessRuns
  BY SMTT(30), <1>27 DEF C!ProcessRuns
<1>28. CASE C!ProcessWrites
  BY SMTT(30), <1>28 DEF C!ProcessWrites
<1>29. CASE C!ProcessEnds
  <2>1. cProc' \in [1 .. MaxStarts -> {"none", "child", "command", "dead"}]
    BY <1>29 DEF C!ProcessEnds
  <2>2. QED
    BY SMTT(30), <1>29, <2>1 DEF C!ProcessEnds
<1>30. CASE UNCHANGED C!vars
  BY SMTT(30), <1>30 DEF C!vars
<1>31. QED
  BY <1>1, <1>2, <1>3, <1>4, <1>5, <1>6, <1>7, <1>8, <1>9, <1>10, <1>11,
     <1>12, <1>13, <1>14, <1>15, <1>16, <1>17, <1>18, <1>19, <1>20,
     <1>21, <1>22, <1>23, <1>24, <1>25, <1>26, <1>27, <1>28, <1>29,
     <1>30 DEF C!Next, C!Thread, C!OwnerProceeds

LEMMA ServingInit == C!Init => C!ServingInv
BY CommandsAssumption DEF C!Init, C!ServingInv, C!ConstantsSound, C!Process, C!None

LEMMA ServingStep == C!TypeOK /\ C!ServingInv /\ [C!Next]_C!vars => C!ServingInv'
<1> SUFFICES ASSUME C!TypeOK, C!ServingInv, [C!Next]_C!vars PROVE C!ServingInv'
  OBVIOUS
<1> USE CommandsAssumption
    DEF C!TypeOK, C!ServingInv, C!ConstantsSound, C!Process, C!None, C!Alive,
        C!owner, C!reader, C!procs, C!log, C!workerVars,
        C!OwnerAt, C!ThreadAt, C!isStarted
<1>1. CASE C!Construct
  BY SMTT(30), <1>1 DEF C!Construct, C!Spawn
<1>2. CASE C!Constructed
  BY SMTT(30), <1>2 DEF C!Constructed, C!Started
<1>3. CASE C!Start
  BY SMTT(30), <1>3 DEF C!Start
<1>4. CASE C!AwaitStart
  BY SMTT(30), <1>4 DEF C!AwaitStart
<1>5. CASE C!Stop
  BY SMTT(30), <1>5 DEF C!Stop
<1>6. CASE C!RequestStopping
  BY SMTT(30), <1>6 DEF C!RequestStopping
<1>7. CASE C!AwaitStop
  BY SMTT(30), <1>7 DEF C!AwaitStop
<1>8. CASE C!Destroy
  BY SMTT(30), <1>8 DEF C!Destroy
<1>9. CASE C!DestroyExiting
  BY SMTT(30), <1>9 DEF C!DestroyExiting
<1>10. CASE C!DestroyStop
  BY SMTT(30), <1>10 DEF C!DestroyStop, C!RequestStop
<1>11. CASE C!DestroyJoin
  BY SMTT(30), <1>11 DEF C!DestroyJoin, C!Join
<1>12. CASE C!DestroyWorker
  BY SMTT(30), <1>12 DEF C!DestroyWorker, C!RequestStop, C!First
<1>13. CASE C!ThreadEnters
  BY SMTT(30), <1>13 DEF C!ThreadEnters, C!Enter
<1>14. CASE C!ThreadLoops
  <2>1. CASE C!isRunning
    BY <1>14, <2>1 DEF C!ThreadLoops
  <2>2. CASE ~C!isRunning
    <3>1. \A p \in 1 .. MaxStarts :
              cProc'[p] = IF C!Alive(p) THEN "dead" ELSE cProc[p]
      BY <1>14, <2>2 DEF C!ThreadLoops, C!Orphaned
    <3>2. QED
      BY <1>14, <2>2, <3>1 DEF C!ThreadLoops
  <2>3. QED
    BY <2>1, <2>2
<1>15. CASE C!ThreadStarts
  BY SMTT(30), <1>15 DEF C!ThreadStarts
<1>16. CASE C!ThreadStops
  BY SMTT(30), <1>16 DEF C!ThreadStops
<1>17. CASE C!ThreadExits
  BY SMTT(30), <1>17 DEF C!ThreadExits, C!Leave, C!Orphaned
<1>18. CASE C!ThreadServes
  BY SMTT(30), <1>18 DEF C!ThreadServes, C!Notify
<1>19. CASE C!ThreadChecks
  BY SMTT(30), <1>19 DEF C!ThreadChecks
<1>20. CASE C!ThreadReads
  BY SMTT(30), <1>20 DEF C!ThreadReads, C!Notify
<1>21. CASE C!ThreadFindsNothing
  BY SMTT(30), <1>21 DEF C!ThreadFindsNothing, C!Silent
<1>22. CASE C!ThreadLooksAlive
  BY SMTT(30), <1>22 DEF C!ThreadLooksAlive, C!Notify
<1>23. CASE C!ThreadNotified
  BY SMTT(30), <1>23 DEF C!ThreadNotified, C!After
<1>24. CASE C!ThreadSetsStopped
  BY SMTT(30), <1>24 DEF C!ThreadSetsStopped
<1>25. CASE C!ThreadKills
  BY SMTT(30), <1>25 DEF C!ThreadKills, C!Interrupted
<1>26. CASE C!ThreadCloses
  BY SMTT(30), <1>26 DEF C!ThreadCloses, C!Interrupted
<1>27. CASE C!ProcessRuns
  BY SMTT(30), <1>27 DEF C!ProcessRuns
<1>28. CASE C!ProcessWrites
  BY SMTT(30), <1>28 DEF C!ProcessWrites
<1>29. CASE C!ProcessEnds
  BY <1>29 DEF C!ProcessEnds
<1>30. CASE UNCHANGED C!vars
  BY <1>30 DEF C!vars
<1>31. QED
  BY <1>1, <1>2, <1>3, <1>4, <1>5, <1>6, <1>7, <1>8, <1>9, <1>10, <1>11,
     <1>12, <1>13, <1>14, <1>15, <1>16, <1>17, <1>18, <1>19, <1>20,
     <1>21, <1>22, <1>23, <1>24, <1>25, <1>26, <1>27, <1>28, <1>29,
     <1>30 DEF C!Next, C!Thread, C!OwnerProceeds

LEMMA AccountInit == C!Init => C!AccountInv
BY CommandsAssumption
   DEF C!Init, C!AccountInv, C!StoppedIsTheEnd, C!ConstantsSound, C!Process, C!None

LEMMA AccountStep ==
    C!TypeOK /\ C!ServingInv /\ C!AccountInv /\ [C!Next]_C!vars => C!AccountInv'
<1> SUFFICES ASSUME C!TypeOK, C!ServingInv, C!AccountInv, [C!Next]_C!vars
             PROVE C!AccountInv'
  OBVIOUS
<1> USE CommandsAssumption
    DEF C!TypeOK, C!ServingInv, C!AccountInv, C!StoppedIsTheEnd, C!ConstantsSound,
        C!Process, C!None, C!Alive,
        C!owner, C!reader, C!procs, C!log, C!workerVars,
        C!OwnerAt, C!ThreadAt
<1>1. CASE C!Construct
  BY <1>1 DEF C!Construct, C!Spawn
<1>2. CASE C!Constructed
  BY <1>2 DEF C!Constructed, C!Started
<1>3. CASE C!Start
  BY <1>3 DEF C!Start
<1>4. CASE C!AwaitStart
  BY <1>4 DEF C!AwaitStart
<1>5. CASE C!Stop
  BY <1>5 DEF C!Stop
<1>6. CASE C!RequestStopping
  BY <1>6 DEF C!RequestStopping
<1>7. CASE C!AwaitStop
  BY <1>7 DEF C!AwaitStop
<1>8. CASE C!Destroy
  BY <1>8 DEF C!Destroy
<1>9. CASE C!DestroyExiting
  BY <1>9 DEF C!DestroyExiting
<1>10. CASE C!DestroyStop
  BY <1>10 DEF C!DestroyStop, C!RequestStop
<1>11. CASE C!DestroyJoin
  BY <1>11 DEF C!DestroyJoin, C!Join
<1>12. CASE C!DestroyWorker
  BY <1>12 DEF C!DestroyWorker, C!RequestStop, C!First
<1>13. CASE C!ThreadEnters
  BY <1>13 DEF C!ThreadEnters, C!Enter
<1>14. CASE C!ThreadLoops
  <2>1. CASE C!isRunning
    BY <1>14, <2>1 DEF C!ThreadLoops
  <2>2. CASE ~C!isRunning
    <3>1. \A p \in 1 .. MaxStarts :
              cProc'[p] = IF C!Alive(p) THEN "dead" ELSE cProc[p]
      BY <1>14, <2>2 DEF C!ThreadLoops, C!Orphaned
    <3>2. QED
      BY <1>14, <2>2, <3>1 DEF C!ThreadLoops
  <2>3. QED
    BY <2>1, <2>2
<1>15. CASE C!ThreadStarts
  BY SMTT(30), <1>15 DEF C!ThreadStarts
<1>16. CASE C!ThreadStops
  BY <1>16 DEF C!ThreadStops
<1>17. CASE C!ThreadExits
  BY <1>17 DEF C!ThreadExits, C!Leave, C!Orphaned
<1>18. CASE C!ThreadServes
  BY <1>18 DEF C!ThreadServes, C!Notify
<1>19. CASE C!ThreadChecks
  BY <1>19 DEF C!ThreadChecks
<1>20. CASE C!ThreadReads
  BY <1>20 DEF C!ThreadReads, C!Notify
<1>21. CASE C!ThreadFindsNothing
  BY <1>21 DEF C!ThreadFindsNothing, C!Silent
<1>22. CASE C!ThreadLooksAlive
  <2>1. cExecutor \in 1 .. MaxStarts /\ cEvent = "NONE" /\ cGot = 0
    BY <1>22 DEF C!ThreadLooksAlive
  <2>2. CASE C!Alive(cExecutor)
    BY <1>22, <2>2 DEF C!ThreadLooksAlive
  <2>3. CASE ~C!Alive(cExecutor)
    <3>1. cTold[cExecutor] = 0 /\ cProc[cExecutor] = "dead"
      BY SMTT(30), <1>22, <2>1, <2>3 DEF C!ThreadLooksAlive
    <3>2. cEnv.lingers => cHeard[cExecutor] = cWritten[cExecutor]
      BY <1>22, <2>1, <2>3 DEF C!ThreadLooksAlive
    <3>3. QED
      BY SMTT(30), <1>22, <2>1, <2>3, <3>1, <3>2 DEF C!ThreadLooksAlive, C!Notify
  <2>4. QED
    BY <2>2, <2>3
<1>23. CASE C!ThreadNotified
  <2>1. cExecutor \in 1 .. MaxStarts
    BY <1>23 DEF C!ThreadNotified
  <2>2. CASE cGot > 0
    <3>1. cTold[cExecutor] = 0
      BY SMTT(30), <1>23, <2>1, <2>2 DEF C!ThreadNotified
    <3>2. cHeard'[cExecutor] = cHeard[cExecutor] + 1 /\ cGot' = cGot - 1
      BY <1>23, <2>1, <2>2 DEF C!ThreadNotified
    <3>3. \A p \in 1 .. MaxStarts : p # cExecutor => cHeard'[p] = cHeard[p]
      BY <1>23, <2>1, <2>2 DEF C!ThreadNotified
    <3>4. QED
      BY SMTT(30), <1>23, <2>1, <2>2, <3>1, <3>2, <3>3 DEF C!ThreadNotified, C!After
  <2>3. CASE ~(cGot > 0)
    BY <1>23, <2>1, <2>3 DEF C!ThreadNotified, C!After
  <2>4. QED
    BY <2>2, <2>3
<1>24. CASE C!ThreadSetsStopped
  BY <1>24 DEF C!ThreadSetsStopped
<1>25. CASE C!ThreadKills
  BY <1>25 DEF C!ThreadKills, C!Interrupted
<1>26. CASE C!ThreadCloses
  <2>1. cExecutor' = 0 /\ cWpc' = "loop" /\ cUnread' = 0
    BY <1>26 DEF C!ThreadCloses
  <2>2. \A p \in 1 .. MaxStarts : cProc[p] = "dead" => cProc'[p] = "dead"
    BY <1>26 DEF C!ThreadCloses, C!Interrupted
  <2>3. QED
    BY <1>26, <2>1, <2>2 DEF C!ThreadCloses
<1>27. CASE C!ProcessRuns
  BY <1>27 DEF C!ProcessRuns
<1>28. CASE C!ProcessWrites
  <2>1. PICK p \in 1 .. MaxStarts :
            /\ cProc[p] = "command" /\ p = cExecutor
            /\ cWritten' = [cWritten EXCEPT ![p] = @ + 1]
            /\ cUnread' = cUnread + 1
    BY <1>28 DEF C!ProcessWrites
  <2>2. cWritten'[p] = cWritten[p] + 1 /\ \A q \in 1 .. MaxStarts : q # p => cWritten'[q] = cWritten[q]
    BY <2>1
  <2>3. UNCHANGED <<cEnv, cWpc, cExecutor, cGot, cEvent, cProc, cHeard, cTold>>
    BY <1>28 DEF C!ProcessWrites
  <2>4. cTold[p] = 0 /\ (cWpc = "alive" => C!Alive(p))
    BY SMTT(30), <2>1
  <2>5. C!StoppedIsTheEnd'
    BY <2>2, <2>3, <2>4
  <2>6. ASSUME NEW q \in 1 .. MaxStarts, cExecutor = q
        PROVE  cHeard[q] + cGot + cUnread' = cWritten'[q]
    <3>1. q = p /\ cWritten[p] \in Nat /\ cHeard[p] \in Nat /\ cGot \in Nat /\ cUnread \in Nat
      BY <2>1, <2>6
    <3>2. cHeard[p] + cGot + cUnread = cWritten[p]
      BY <2>1
    <3>3. QED
      BY <2>1, <2>2, <3>1, <3>2
  <2>7. QED
    BY <2>1, <2>3, <2>4, <2>5, <2>6
<1>29. CASE C!ProcessEnds
  BY <1>29 DEF C!ProcessEnds
<1>30. CASE UNCHANGED C!vars
  BY <1>30 DEF C!vars
<1>31. QED
  BY <1>1, <1>2, <1>3, <1>4, <1>5, <1>6, <1>7, <1>8, <1>9, <1>10, <1>11,
     <1>12, <1>13, <1>14, <1>15, <1>16, <1>17, <1>18, <1>19, <1>20,
     <1>21, <1>22, <1>23, <1>24, <1>25, <1>26, <1>27, <1>28, <1>29,
     <1>30 DEF C!Next, C!Thread, C!OwnerProceeds

LEMMA QuietInit == C!Init => C!PromptInv
BY DEF C!Init, C!PromptInv

LEMMA QuietStep ==
    C!TypeOK /\ C!ServingInv /\ C!PromptInv /\ [C!Next]_C!vars => C!PromptInv'
<1> SUFFICES ASSUME C!TypeOK, C!ServingInv, C!PromptInv, [C!Next]_C!vars, cEnv'.prompt
             PROVE C!PromptInv'
  BY DEF C!PromptInv
<1> USE DEF C!TypeOK, C!ServingInv, C!PromptInv, C!isStarted,
        C!owner, C!reader, C!procs, C!log, C!workerVars,
        C!OwnerAt, C!ThreadAt
<1>1. CASE C!Construct
  BY <1>1 DEF C!Construct, C!Spawn
<1>2. CASE C!Constructed
  BY <1>2 DEF C!Constructed, C!Started
<1>3. CASE C!Start
  BY <1>3 DEF C!Start
<1>4. CASE C!AwaitStart
  BY <1>4 DEF C!AwaitStart
<1>5. CASE C!Stop
  BY <1>5 DEF C!Stop
<1>6. CASE C!RequestStopping
  BY <1>6 DEF C!RequestStopping
<1>7. CASE C!AwaitStop
  BY <1>7 DEF C!AwaitStop
<1>8. CASE C!Destroy
  BY <1>8 DEF C!Destroy
<1>9. CASE C!DestroyExiting
  BY <1>9 DEF C!DestroyExiting
<1>10. CASE C!DestroyStop
  BY <1>10 DEF C!DestroyStop, C!RequestStop
<1>11. CASE C!DestroyJoin
  BY <1>11 DEF C!DestroyJoin, C!Join
<1>12. CASE C!DestroyWorker
  BY <1>12 DEF C!DestroyWorker, C!RequestStop, C!First
<1>13. CASE C!ThreadEnters
  BY <1>13 DEF C!ThreadEnters, C!Enter
<1>14. CASE C!ThreadLoops
  BY <1>14 DEF C!ThreadLoops, C!Leave, C!Orphaned
<1>15. CASE C!ThreadStarts
  BY <1>15 DEF C!ThreadStarts
<1>16. CASE C!ThreadStops
  BY <1>16 DEF C!ThreadStops
<1>17. CASE C!ThreadExits
  BY <1>17 DEF C!ThreadExits, C!Leave, C!Orphaned
<1>18. CASE C!ThreadServes
  BY <1>18 DEF C!ThreadServes, C!Notify
<1>19. CASE C!ThreadChecks
  BY <1>19 DEF C!ThreadChecks
<1>20. CASE C!ThreadReads
  BY <1>20 DEF C!ThreadReads, C!Notify
<1>21. CASE C!ThreadFindsNothing
  BY <1>21 DEF C!ThreadFindsNothing, C!Silent
<1>22. CASE C!ThreadLooksAlive
  BY <1>22 DEF C!ThreadLooksAlive, C!Notify
<1>23. CASE C!ThreadNotified
  BY <1>23 DEF C!ThreadNotified, C!After
<1>24. CASE C!ThreadSetsStopped
  BY <1>24 DEF C!ThreadSetsStopped
<1>25. CASE C!ThreadKills
  BY <1>25 DEF C!ThreadKills, C!Interrupted
<1>26. CASE C!ThreadCloses
  BY <1>26 DEF C!ThreadCloses, C!Interrupted
<1>27. CASE C!ProcessRuns
  BY <1>27 DEF C!ProcessRuns
<1>28. CASE C!ProcessWrites
  BY <1>28 DEF C!ProcessWrites
<1>29. CASE C!ProcessEnds
  BY <1>29 DEF C!ProcessEnds
<1>30. CASE UNCHANGED C!vars
  BY <1>30 DEF C!vars
<1>31. QED
  BY <1>1, <1>2, <1>3, <1>4, <1>5, <1>6, <1>7, <1>8, <1>9, <1>10, <1>11,
     <1>12, <1>13, <1>14, <1>15, <1>16, <1>17, <1>18, <1>19, <1>20,
     <1>21, <1>22, <1>23, <1>24, <1>25, <1>26, <1>27, <1>28, <1>29,
     <1>30 DEF C!Next, C!Thread, C!OwnerProceeds


---------------------------------------------------------------------------
(* The TCP client *)

LEMMA ClientTypeInit == S!Init => S!TypeOK
<1> USE DEF S!States, S!SockStates, S!WorkerSteps, S!Ops, S!CallerSteps,
            S!vars, S!callerVars, S!workerVars, S!Goto, S!ClearedFd, S!KeepsServing,
            S!Started, S!ListenersFree, S!WakesTo, S!AfterCallback
<1> SUFFICES ASSUME S!Init
             PROVE  S!TypeOK
  OBVIOUS
<1>1. sEnv \in S!Env
  BY ClientAssumption DEF S!Init, S!ConstantsSound, S!Env
<1>2. m_sock_fd \in S!Fd \union {S!None} /\ sock \in [S!Fd -> S!SockStates]
  BY DEF S!Init
<1>3. gone \in [S!Fd -> Nat] /\ taken \subseteq S!Fd \union {S!None}
  BY DEF S!Init
<1>4. QED
  BY <1>1, <1>2, <1>3 DEF S!Init, S!TypeOK

LEMMA ClientTypeStep == S!TypeOK /\ [S!Next]_S!vars => S!TypeOK'
<1> USE DEF S!States, S!SockStates, S!WorkerSteps, S!Ops, S!CallerSteps,
            S!vars, S!callerVars, S!workerVars, S!Goto, S!ClearedFd, S!KeepsServing,
            S!Started, S!ListenersFree, S!WakesTo, S!AfterCallback
<1> SUFFICES ASSUME S!TypeOK, [S!Next]_S!vars
             PROVE  S!TypeOK'
  OBVIOUS
<1> USE DEF S!TypeOK
<1>1. CASE S!Worker
  <2>1. CASE S!WorkerLoop
    BY <2>1 DEF S!WorkerLoop
  <2>2. CASE S!WorkerWake
    BY <2>2 DEF S!WorkerWake
  <2>3. CASE S!WorkerServe
    BY <2>3 DEF S!WorkerServe
  <2>4. CASE S!WorkerRecv
    BY <2>4 DEF S!WorkerRecv, S!IsOpen
  <2>5. CASE S!WorkerCallbackReturns
    BY <2>5 DEF S!WorkerCallbackReturns
  <2>6. CASE S!WorkerSetIdle
    BY <2>6 DEF S!WorkerSetIdle
  <2>7. CASE S!WorkerClose
    BY <2>7 DEF S!WorkerClose, S!Closed, S!IsOpen
  <2>8. CASE S!WorkerClear
    BY <2>8 DEF S!WorkerClear
  <2>9. QED
    BY <1>1, <2>1, <2>2, <2>3, <2>4, <2>5, <2>6, <2>7, <2>8 DEF S!Worker
<1>2. ASSUME NEW c \in Callers, S!CallerProceeds(c)
      PROVE  S!TypeOK'
  <2>1. CASE S!ConnectSocket(c)
    BY <2>1 DEF S!ConnectSocket
  <2>2. CASE S!ConnectSetupOk(c)
    <3>1. sock' \in [S!Fd -> S!SockStates]
      BY <2>2 DEF S!ConnectSetupOk
    <3>2. sPc' \in [Callers -> S!CallerSteps]
      BY <2>2 DEF S!ConnectSetupOk
    <3>3. QED
      BY <2>2, <3>1, <3>2 DEF S!ConnectSetupOk
  <2>3. CASE S!ConnectSetupFails(c)
    <3>1. sock' \in [S!Fd -> S!SockStates]
      BY <2>3 DEF S!ConnectSetupFails, S!Closed, S!IsOpen
    <3>2. sPc' \in [Callers -> S!CallerSteps]
      BY <2>3 DEF S!ConnectSetupFails
    <3>3. QED
      BY <2>3, <3>1, <3>2 DEF S!ConnectSetupFails
  <2>4. CASE S!ConnectRequest(c)
    BY <2>4 DEF S!ConnectRequest
  <2>5. CASE S!ConnectAwait(c)
    <3>1. ret' \in [Callers -> BOOLEAN]
      BY <2>5 DEF S!ConnectAwait
    <3>2. sPc' \in [Callers -> S!CallerSteps]
      BY <2>5 DEF S!ConnectAwait
    <3>3. QED
      BY <2>5, <3>1, <3>2 DEF S!ConnectAwait
  <2>6. CASE S!DisconnectCheck(c)
    BY <2>6 DEF S!DisconnectCheck, S!AfterDisconnect
  <2>7. CASE S!DisconnectSet(c)
    BY <2>7 DEF S!DisconnectSet
  <2>8. CASE S!DisconnectAwait(c)
    BY <2>8 DEF S!DisconnectAwait, S!AfterDisconnect
  <2>9. CASE S!DestroyClosing(c)
    BY <2>9 DEF S!DestroyClosing
  <2>10. CASE S!DestroyStop(c)
    BY <2>10 DEF S!DestroyStop
  <2>11. CASE S!DestroyJoin(c)
    BY <2>11 DEF S!DestroyJoin
  <2>12. CASE S!Return(c)
    BY <2>12 DEF S!Return
  <2>13. QED
    BY <1>2, <2>1, <2>2, <2>3, <2>4, <2>5, <2>6, <2>7, <2>8, <2>9, <2>10,
       <2>11, <2>12 DEF S!CallerProceeds
<1>3. ASSUME NEW c \in Callers, S!CallerStarts(c)
      PROVE  S!TypeOK'
  <2>1. CASE S!ConnectCall(c)
    BY <2>1 DEF S!ConnectCall
  <2>2. CASE S!DisconnectCall(c)
    BY <2>2 DEF S!DisconnectCall
  <2>3. CASE S!DestroyCall(c)
    BY <2>3 DEF S!DestroyCall
  <2>4. CASE S!ChangeListener(c)
    BY <2>4 DEF S!ChangeListener
  <2>5. QED
    BY <1>3, <2>1, <2>2, <2>3, <2>4 DEF S!CallerStarts
<1>4. ASSUME NEW f \in S!Fd, S!ServerCloses(f)
      PROVE  S!TypeOK'
  BY <1>4 DEF S!ServerCloses
<1>5. CASE UNCHANGED S!vars
  BY <1>5
<1>6. QED
  BY <1>1, <1>2, <1>3, <1>4, <1>5 DEF S!Next

\* -1 is not a descriptor.
LEMMA NoneIsNoFd == S!None \notin S!Fd
BY ClientAssumption DEF S!None, S!Fd, S!ConstantsSound

LEMMA EveryEnvInit == S!Init => S!EveryEnvInv
BY DEF S!Init, S!EveryEnvInv, S!IdleMeansQuiet, S!NoCallbackAfterRemoval

LEMMA EveryEnvStep == S!TypeOK /\ S!EveryEnvInv /\ [S!Next]_S!vars => S!EveryEnvInv'
<1> USE DEF S!States, S!SockStates, S!WorkerSteps, S!Ops, S!CallerSteps,
            S!vars, S!callerVars, S!workerVars, S!Goto, S!ClearedFd, S!KeepsServing,
            S!Started, S!ListenersFree, S!WakesTo, S!AfterCallback
<1> SUFFICES ASSUME S!TypeOK, S!EveryEnvInv, [S!Next]_S!vars
             PROVE  S!EveryEnvInv'
  OBVIOUS
<1> USE NoneIsNoFd DEF S!TypeOK, S!EveryEnvInv, S!IdleMeansQuiet, S!NoCallbackAfterRemoval
<1>1. CASE S!Worker
  <2>1. CASE S!WorkerLoop
    BY <2>1 DEF S!WorkerLoop
  <2>2. CASE S!WorkerWake
    BY <2>2 DEF S!WorkerWake
  <2>3. CASE S!WorkerServe
    BY <2>3 DEF S!WorkerServe
  <2>4. CASE S!WorkerRecv
    BY <2>4 DEF S!WorkerRecv, S!IsOpen
  <2>5. CASE S!WorkerCallbackReturns
    BY <2>5 DEF S!WorkerCallbackReturns
  <2>6. CASE S!WorkerSetIdle
    BY <2>6 DEF S!WorkerSetIdle
  <2>7. CASE S!WorkerClose
    BY <2>7 DEF S!WorkerClose, S!Closed, S!IsOpen
  <2>8. CASE S!WorkerClear
    BY <2>8 DEF S!WorkerClear
  <2>9. QED
    BY <1>1, <2>1, <2>2, <2>3, <2>4, <2>5, <2>6, <2>7, <2>8 DEF S!Worker
<1>2. ASSUME NEW c \in Callers, S!CallerProceeds(c)
      PROVE  S!EveryEnvInv'
  <2>1. CASE S!ConnectSocket(c)
    BY <2>1 DEF S!ConnectSocket
  <2>2. CASE S!ConnectSetupOk(c)
    BY <2>2 DEF S!ConnectSetupOk, S!IsOpen
  <2>3. CASE S!ConnectSetupFails(c)
    BY <2>3 DEF S!ConnectSetupFails, S!Closed, S!IsOpen
  <2>4. CASE S!ConnectRequest(c)
    BY <2>4 DEF S!ConnectRequest
  <2>5. CASE S!ConnectAwait(c)
    BY <2>5 DEF S!ConnectAwait
  <2>6. CASE S!DisconnectCheck(c)
    BY <2>6 DEF S!DisconnectCheck, S!AfterDisconnect
  <2>7. CASE S!DisconnectSet(c)
    BY <2>7 DEF S!DisconnectSet
  <2>8. CASE S!DisconnectAwait(c)
    BY <2>8 DEF S!DisconnectAwait, S!AfterDisconnect
  <2>9. CASE S!DestroyClosing(c)
    BY <2>9 DEF S!DestroyClosing
  <2>10. CASE S!DestroyStop(c)
    BY <2>10 DEF S!DestroyStop
  <2>11. CASE S!DestroyJoin(c)
    BY <2>11 DEF S!DestroyJoin
  <2>12. CASE S!Return(c)
    BY <2>12 DEF S!Return
  <2>13. QED
    BY <1>2, <2>1, <2>2, <2>3, <2>4, <2>5, <2>6, <2>7, <2>8, <2>9, <2>10, <2>11, <2>12 DEF S!CallerProceeds
<1>3. ASSUME NEW c \in Callers, S!CallerStarts(c)
      PROVE  S!EveryEnvInv'
  <2>1. CASE S!ConnectCall(c)
    BY <2>1 DEF S!ConnectCall
  <2>2. CASE S!DisconnectCall(c)
    BY <2>2 DEF S!DisconnectCall
  <2>3. CASE S!DestroyCall(c)
    BY <2>3 DEF S!DestroyCall
  <2>4. CASE S!ChangeListener(c)
    BY <2>4 DEF S!ChangeListener
  <2>5. QED
    BY <1>3, <2>1, <2>2, <2>3, <2>4 DEF S!CallerStarts
<1>4. ASSUME NEW f \in S!Fd, S!ServerCloses(f)
      PROVE  S!EveryEnvInv'
  BY <1>4 DEF S!ServerCloses
<1>5. CASE UNCHANGED S!vars
  BY <1>5
<1>6. QED
  BY <1>1, <1>2, <1>3, <1>4, <1>5 DEF S!Next

\* The environment is chosen once.
LEMMA EnvConstant == [S!Next]_S!vars => sEnv' = sEnv
<1> USE DEF S!States, S!SockStates, S!WorkerSteps, S!Ops, S!CallerSteps,
            S!vars, S!callerVars, S!workerVars, S!Goto, S!ClearedFd, S!KeepsServing,
            S!Started, S!ListenersFree, S!WakesTo, S!AfterCallback
<1> SUFFICES ASSUME [S!Next]_S!vars PROVE sEnv' = sEnv
  OBVIOUS
<1>1. ASSUME S!Worker PROVE sEnv' = sEnv
  BY <1>1 DEF S!Worker, S!WorkerLoop, S!WorkerWake, S!WorkerServe, S!WorkerRecv,
     S!WorkerCallbackReturns, S!WorkerSetIdle, S!WorkerClose, S!WorkerClear
<1>2. ASSUME NEW c \in Callers, S!CallerProceeds(c) PROVE sEnv' = sEnv
  BY <1>2 DEF S!CallerProceeds, S!ConnectSocket, S!ConnectSetupOk,
     S!ConnectSetupFails, S!ConnectRequest, S!ConnectAwait, S!DisconnectCheck,
     S!DisconnectSet, S!DisconnectAwait, S!DestroyClosing, S!DestroyStop,
     S!DestroyJoin, S!Return
<1>3. ASSUME NEW c \in Callers, S!CallerStarts(c) PROVE sEnv' = sEnv
  <2>1. CASE S!ConnectCall(c) \/ S!DisconnectCall(c)
    BY <2>1 DEF S!ConnectCall, S!DisconnectCall
  <2>2. CASE S!DestroyCall(c) \/ S!ChangeListener(c)
    BY <2>2 DEF S!DestroyCall, S!ChangeListener
  <2>3. QED
    BY <1>3, <2>1, <2>2 DEF S!CallerStarts
<1>4. ASSUME NEW f \in S!Fd, S!ServerCloses(f) PROVE sEnv' = sEnv
  BY <1>4 DEF S!ServerCloses
<1>5. QED
  BY <1>1, <1>2, <1>3, <1>4 DEF S!Next

LEMMA CallsInit == S!Init => S!OrderlyIInv
BY NoneIsNoFd DEF S!Init, S!OrderlyIInv, S!OrderlyInv, S!Serial, S!EndsByDestroy, S!Preparing,
   S!SocketOfWorker, S!NoLeak, S!ConnectTruth, S!Undone, S!IsOpen, S!Ending

LEMMA CallsStep ==
    S!TypeOK /\ S!EveryEnvInv /\ S!OrderlyIInv /\ [S!Next]_S!vars => S!OrderlyIInv'
<1> USE DEF S!States, S!SockStates, S!WorkerSteps, S!Ops, S!CallerSteps,
            S!vars, S!callerVars, S!workerVars, S!Goto, S!ClearedFd, S!KeepsServing,
            S!Started, S!ListenersFree, S!WakesTo, S!AfterCallback
<1> SUFFICES ASSUME S!TypeOK, S!EveryEnvInv, S!OrderlyInv, [S!Next]_S!vars, sEnv.orderly
             PROVE  S!OrderlyInv'
  BY EnvConstant DEF S!OrderlyIInv
<1> USE NoneIsNoFd DEF S!TypeOK, S!EveryEnvInv, S!IdleMeansQuiet, S!OrderlyInv,
        S!Serial, S!EndsByDestroy, S!Preparing, S!SocketOfWorker, S!NoLeak,
        S!ConnectTruth, S!Undone, S!IsOpen, S!Alive, S!Ending
<1>1. CASE S!Worker
  <2>1. CASE S!WorkerLoop
    <3>1. sThread = "RUNNING" => S!OrderlyInv'
      BY <2>1 DEF S!WorkerLoop
    <3>2. CASE sThread # "RUNNING"
      <4>1. PICK d \in Callers : sPc[d] \in S!Ending
        BY <3>2
      <4>2. \A c \in Callers : sPc[c] \notin {"socket", "setup", "request"}
        BY <4>1
      <4>3. \A c \in Callers : sPc[c] = "return" => op[c] # "connect"
        BY <4>1
      <4>4. QED
        BY <2>1, <3>2, <4>2, <4>3 DEF S!WorkerLoop
    <3>3. QED
      BY <3>1, <3>2
  <2>2. CASE S!WorkerWake
    BY <2>2 DEF S!WorkerWake
  <2>3. CASE S!WorkerServe
    BY <2>3 DEF S!WorkerServe
  <2>4. CASE S!WorkerRecv
    BY <2>4 DEF S!WorkerRecv
  <2>5. CASE S!WorkerCallbackReturns
    BY <2>5 DEF S!WorkerCallbackReturns
  <2>6. CASE S!WorkerSetIdle
    BY <2>6 DEF S!WorkerSetIdle
  <2>7. CASE S!WorkerClose
    BY <2>7 DEF S!WorkerClose, S!Closed
  <2>8. CASE S!WorkerClear
    BY <2>8 DEF S!WorkerClear
  <2>9. QED
    BY <1>1, <2>1, <2>2, <2>3, <2>4, <2>5, <2>6, <2>7, <2>8 DEF S!Worker
<1>2. ASSUME NEW c \in Callers, S!CallerProceeds(c)
      PROVE  S!OrderlyInv'
  <2>1. CASE S!ConnectSocket(c)
    BY <2>1 DEF S!ConnectSocket
  <2>2. CASE S!ConnectSetupOk(c)
    BY <2>2 DEF S!ConnectSetupOk
  <2>3. CASE S!ConnectSetupFails(c)
    BY <2>3 DEF S!ConnectSetupFails, S!Closed
  <2>4. CASE S!ConnectRequest(c)
    BY <2>4 DEF S!ConnectRequest
  <2>5. CASE S!ConnectAwait(c)
    BY <2>5 DEF S!ConnectAwait
  <2>6. CASE S!DisconnectCheck(c)
    BY <2>6 DEF S!DisconnectCheck, S!AfterDisconnect, S!isConnected
  <2>7. CASE S!DisconnectSet(c)
    BY <2>7 DEF S!DisconnectSet
  <2>8. CASE S!DisconnectAwait(c)
    BY <2>8 DEF S!DisconnectAwait, S!AfterDisconnect
  <2>9. CASE S!DestroyClosing(c)
    BY <2>9 DEF S!DestroyClosing
  <2>10. CASE S!DestroyStop(c)
    BY <2>10 DEF S!DestroyStop
  <2>11. CASE S!DestroyJoin(c)
    BY <2>11 DEF S!DestroyJoin
  <2>12. CASE S!Return(c)
    BY <2>12 DEF S!Return
  <2>13. QED
    BY <1>2, <2>1, <2>2, <2>3, <2>4, <2>5, <2>6, <2>7, <2>8, <2>9, <2>10, <2>11, <2>12 DEF S!CallerProceeds
<1>3. ASSUME NEW c \in Callers, S!CallerStarts(c)
      PROVE  S!OrderlyInv'
  <2>1. CASE S!ConnectCall(c)
    BY <2>1 DEF S!ConnectCall, S!MayStart, S!isConnected, S!TearingDown
  <2>2. CASE S!DisconnectCall(c)
    BY <2>2 DEF S!DisconnectCall, S!MayStart
  <2>3. CASE S!DestroyCall(c)
    BY <2>3 DEF S!DestroyCall, S!MayStart, S!isConnected
  <2>4. CASE S!ChangeListener(c)
    BY <2>4 DEF S!ChangeListener, S!MayStart
  <2>5. QED
    BY <1>3, <2>1, <2>2, <2>3, <2>4 DEF S!CallerStarts
<1>4. ASSUME NEW f \in S!Fd, S!ServerCloses(f)
      PROVE  S!OrderlyInv'
  BY <1>4 DEF S!ServerCloses
<1>5. CASE UNCHANGED S!vars
  BY <1>5
<1>6. QED
  BY <1>1, <1>2, <1>3, <1>4, <1>5 DEF S!Next

---------------------------------------------------------------------------
(* All three: a step of one driver leaves the others as they are. *)

DriversInv ==
    /\ TypeOK /\ LossesInv /\ OrderlyInv /\ PromptInv
    /\ C!TypeOK /\ C!ServingInv /\ C!AccountInv /\ C!PromptInv
    /\ S!TypeOK /\ S!EveryEnvInv /\ S!OrderlyIInv

LEMMA DriversInvInductive ==
    /\ DriversInit => DriversInv
    /\ DriversInv /\ [DriversNext]_allVars => DriversInv'
<1>1. DriversInit => DriversInv
  BY SerialTypeInit, LossesInit, OrderlyInit, PromptInit,
     CommandsTypeInit, ServingInit, AccountInit, QuietInit,
     ClientTypeInit, EveryEnvInit, CallsInit DEF DriversInit, DriversInv
<1>2. DriversInv /\ [DriversNext]_allVars => DriversInv'
  <2> SUFFICES ASSUME DriversInv, [DriversNext]_allVars PROVE DriversInv'
    OBVIOUS
  <2>1. [Next]_vars /\ [C!Next]_C!vars /\ [S!Next]_S!vars
    <3>1. UNCHANGED commands => UNCHANGED C!vars
      BY DEF commands, C!vars, C!owner, C!reader, C!procs, C!log, C!workerVars
    <3>2. UNCHANGED client => UNCHANGED S!vars
      BY DEF client, S!vars
    <3>3. QED
      BY <3>1, <3>2 DEF DriversNext, SerialOnly, CommandsOnly, ClientOnly, allVars
  <2>2. TypeOK' /\ LossesInv' /\ OrderlyInv' /\ PromptInv'
    BY <2>1, SerialTypeStep, LossesStep, OrderlyStep, PromptStep DEF DriversInv
  <2>3. C!TypeOK' /\ C!ServingInv' /\ C!AccountInv' /\ C!PromptInv'
    BY <2>1, CommandsTypeStep, ServingStep, AccountStep, QuietStep DEF DriversInv
  <2>4. S!TypeOK' /\ S!EveryEnvInv' /\ S!OrderlyIInv'
    BY <2>1, ClientTypeStep, EveryEnvStep, CallsStep DEF DriversInv
  <2>5. QED
    BY <2>2, <2>3, <2>4 DEF DriversInv
<1>3. QED
  BY <1>1, <1>2

LEMMA DriversInvariant == DriversSpec => []DriversInv
BY DriversInvInductive, PTL DEF DriversSpec

\* The variables of the drivers and of their workers keep their types; a
\* thread is in its function just while its worker runs it.
THEOREM TypeCorrect == DriversSpec => []TypesOK
<1>1. DriversInv => TypesOK
  BY DEF DriversInv, TypesOK
<1>2. QED
  BY <1>1, DriversInvariant, PTL

\* The serial port uses no descriptor and no member that another owns, closed
\* or destroyed, and reports a loss once, of a device that went.
THEOREM SerialIsSound == DriversSpec => []SerialSound
<1>1. DriversInv => SerialSound
  <2> SUFFICES ASSUME DriversInv PROVE SerialSound
    OBVIOUS
  <2>1. OrderlySound
    BY DEF DriversInv, OrderlyInv, OrderlySound
  <2>2. PromptMembersOutlive
    BY DEF DriversInv, TypeOK, PromptInv, PromptMembersOutlive
  <2>3. QED
    BY <2>1, <2>2 DEF DriversInv, LossesInv, SerialSound, OwnershipSound
<1>2. QED
  BY <1>1, DriversInvariant, PTL

\* PROCESS_STOPPED comes once for a process, when it is dead and, without
\* output in the gap before the check, after all its lines.
THEOREM StopsAreTheEnd == DriversSpec => []StoppedIsTheEnd
<1>1. DriversInv => StoppedIsTheEnd
  BY DEF DriversInv, C!AccountInv, StoppedIsTheEnd
<1>2. QED
  BY <1>1, DriversInvariant, PTL

\* Without timeouts nothing is reported once stop() returned, and only of the
\* process asked for last.
THEOREM PromptStopsAreQuiet == DriversSpec => []PromptStopIsQuiet
<1>1. DriversInv => PromptStopIsQuiet
  BY DEF DriversInv, C!ServingInv, C!PromptInv, PromptStopIsQuiet, C!PromptStopIsQuiet
<1>2. QED
  BY <1>1, DriversInvariant, PTL

\* Listeners of the TCP client hear nothing in IDLE or after their removal, and
\* a lost connection once, in every environment.
THEOREM ClientEventsAreSound == DriversSpec => []ClientEventsSound
<1>1. DriversInv => ClientEventsSound
  <2> SUFFICES ASSUME DriversInv PROVE ClientEventsSound
    OBVIOUS
  <2>1. S!OneDisconnectPerSocket
    BY DEF DriversInv, S!TypeOK, S!EveryEnvInv, S!OneDisconnectPerSocket
  <2>2. QED
    BY <2>1 DEF DriversInv, S!EveryEnvInv, ClientEventsSound, S!EventsSound
<1>2. QED
  BY <1>1, DriversInvariant, PTL

\* Calls of the TCP client that do not overlap a teardown never leak a socket,
\* are served the one they asked for, and connect() returns the truth.
THEOREM ClientCallsAreSound == DriversSpec => []ClientCallsSound
<1>1. DriversInv => ClientCallsSound
  <2> SUFFICES ASSUME DriversInv, S!OrderlyIInv PROVE ClientCallsSound
    BY DEF DriversInv
  <2>1. S!OrderlyNoLeak /\ S!OrderlyTruth
    BY DEF S!OrderlyIInv, S!OrderlyInv, S!OrderlyNoLeak, S!OrderlyTruth
  <2>2. S!OrderlyOwn
    BY DEF S!OrderlyIInv, S!OrderlyInv, S!SocketOfWorker, S!OrderlyOwn, S!ServesItsOwnSocket
  <2>3. S!PromptFalsehood
    BY DEF S!OrderlyIInv, S!OrderlyInv, S!Undone, S!PromptFalsehood, S!ConnectFalsehood
  <2>4. QED
    BY <2>1, <2>2, <2>3 DEF ClientCallsSound, S!OrderlySound
<1>2. QED
  BY <1>1, DriversInvariant, PTL
=============================================================================
