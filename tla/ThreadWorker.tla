---------------------------- MODULE ThreadWorker ----------------------------
(***************************************************************************)
(* The thread behind a driver (src/sw/Utilities/source/ThreadWorker.cpp):  *)
(* m_state and the std::thread, and a step for each critical section of    *)
(* m_lock.  It is an open component: the module of the driver extends it,  *)
(* says when its owner and its thread take these steps, and what the       *)
(* thread does between Enter and Leave.                                    *)
(***************************************************************************)
VARIABLES
    worker,  \* ThreadWorker::m_state
    thread   \* the std::thread: "none", "born", "running", "over" until joined

workerVars == <<worker, thread>>

WorkerInit == worker = "STOPPED" /\ thread = "none"

WorkerTypeOK ==
    /\ worker \in {"STOPPED", "RUNNING", "STOPPING"}
    /\ thread \in {"none", "born", "running", "over"}

\* start() up to its wait, the end of the wait, and isRunning().
Spawn ==
    /\ thread = "none"
    /\ thread' = "born"
    /\ worker' = "STOPPED"

Started == worker = "RUNNING"
isRunning == worker = "RUNNING"

\* execute(): before and after the function.
Enter ==
    /\ thread = "born"
    /\ thread' = "running"
    /\ worker' = "RUNNING"

Leave ==
    /\ thread = "running"
    /\ thread' = "over"
    /\ worker' = "STOPPED"

\* stop(): the critical section, and the join of whoever was first in it.
First == worker # "STOPPING"

RequestStop ==
    /\ worker' = "STOPPING"
    /\ UNCHANGED thread

SlipJoin == thread' = "none" /\ UNCHANGED worker
Join ==
    /\ thread \in {"none", "over"}
    /\ thread' = "none"
    /\ UNCHANGED worker
=============================================================================
