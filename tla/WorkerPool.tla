----------------------------- MODULE WorkerPool -----------------------------
(***************************************************************************)
(* class TaskManager of xrCore/Threading/TaskManager.cpp: the life of the  *)
(* worker threads.  Workers register in the vector "workers", look for     *)
(* tasks in each other's queues, sleep on the event newWorkArrived, can be *)
(* paused, and leave the vector one by one when the manager is destroyed.  *)
(*                                                                         *)
(* A queue is the number of tasks in it; what pop() and steal() do inside  *)
(* is the matter of TaskQueue, from which this module keeps that a pop may *)
(* fail on a queue that holds tasks when another thread pops meanwhile.    *)
(***************************************************************************)
EXTENDS Integers, Sequences, SequencesExt, FiniteSets

CONSTANTS
    Main,           \* the thread that owns the manager
    Workers,        \* the threads SpawnThreads() starts
    MaxPush,        \* bound on the number of tasks pushed
    DrainedWait,    \* may a body call Wait() when its thread is draining?
    None            \* the lock has no owner

Threads == {Main} \cup Workers

ASSUME PoolAssumption ==
    Workers # {} /\ IsFiniteSet(Workers) /\ Main \notin Workers /\ None \notin Threads
ASSUME MaxPushAssumption == MaxPush \in Nat
ASSUME DrainedWaitAssumption == DrainedWait \in BOOLEAN

VARIABLES
    workers,            \* the vector of registered threads
    workersLock,        \* the thread that holds workersLock
    activeWorkersCount,
    shouldPause,
    shouldStop,
    signaled,           \* newWorkArrived: an event that resets itself
    queue,              \* how many tasks each thread's own queue holds
    pushed,             \* how many tasks were pushed so far
    pc,                 \* where each thread is
    calls,              \* who is waiting for the body or scan in progress
    toWake              \* Set() calls the destructor's loop still has to make

vars == <<workers, workersLock, activeWorkersCount, shouldPause, shouldStop,
          signaled, queue, pushed, pc, calls, toWake>>
flags == <<activeWorkersCount, shouldPause, shouldStop>>
tasks == <<queue, pushed>>

PCs == {"run", "register", "activate", "checkStop", "checkPause", "scan", "exec",
        "sleep", "asleep", "awake", "retire", "drain", "lock", "awaitIdle", "erase",
        "unpause", "exit", "notify", "awaitEmpty", "join", "gone"}

Goto(t, where) == pc' = [pc EXCEPT ![t] = where]
Caller(t) == calls[t][Len(calls[t])]
Enter(t, caller) == calls' = [calls EXCEPT ![t] = Append(@, caller)]
Leave(t) == calls' = [calls EXCEPT ![t] = Front(@)]

\* Where the thread is below all bodies and searches in progress.
Base(t) == IF calls[t] = <<>> THEN pc[t] ELSE calls[t][1]

\* TaskManager(): the thread that creates the manager registers itself.
Init ==
    /\ workers = <<Main>>
    /\ workersLock = None
    /\ activeWorkersCount = 0
    /\ shouldPause = FALSE
    /\ shouldStop = FALSE
    /\ signaled = FALSE
    /\ queue = [t \in Threads |-> 0]
    /\ pushed = 0
    /\ pc = [t \in Threads |-> IF t = Main THEN "run" ELSE "register"]
    /\ calls = [t \in Threads |-> <<>>]
    /\ toWake = 0

-----------------------------------------------------------------------------
(***************************************************************************)
(* Tasks.                                                                  *)
(***************************************************************************)

\* PushTask(), from the device loop or from a task body.
PushTask(t) ==
    /\ pc[t] \in {"run", "exec"}
    /\ pushed < MaxPush
    /\ pushed' = pushed + 1
    /\ queue' = [queue EXCEPT ![t] = @ + 1]
    /\ signaled' = TRUE
    /\ UNCHANGED <<workers, workersLock, flags, pc, calls, toWake>>

\* Wait(): ExecuteOneTask() is called while the task waited for is elsewhere.
Wait(t) ==
    /\ pc[t] \in {"run", "exec"}
    /\ DrainedWait \/ Base(t) # "drain"
    /\ \E u \in Threads : queue[u] > 0 \/ (u # t /\ pc[u] = "exec")
    /\ Goto(t, "scan")
    /\ Enter(t, pc[t])
    /\ UNCHANGED <<workers, workersLock, flags, signaled, tasks, toWake>>

Scanning == {t \in Threads : pc[t] = "scan"}

\* pop() on the queue of u by t returns nullptr.
PopMayFail(t, u) == queue[u] = 0 \/ Scanning \ {t} # {}

\* ExecuteOneTask(): own queue first, then workers[0], then TryToSteal(),
\* which sets the event when it leaves tasks behind.
ScanTakes(t) ==
    /\ pc[t] = "scan"
    /\ \E u \in ToSet(workers) :
        /\ queue[u] > 0
        /\ u # t => PopMayFail(t, t)
        /\ queue' = [queue EXCEPT ![u] = @ - 1]
        /\ \/ u \in {t, workers[1]} /\ signaled' = signaled
           \/ u # t /\ PopMayFail(t, workers[1])
                    /\ signaled' = (signaled \/ queue[u] > 1)
    /\ Goto(t, "exec")
    /\ UNCHANGED <<workers, workersLock, flags, pushed, calls, toWake>>

\* ExecuteOneTask() returns false: the five victims TryToSteal() drew gave
\* nothing.  It draws until they are not the thread itself, so it returns
\* only when another thread is registered.
ScanFails(t) ==
    /\ pc[t] = "scan"
    /\ PopMayFail(t, t)
    /\ PopMayFail(t, workers[1])
    /\ ToSet(workers) # {t}
    /\ Goto(t, IF Caller(t) = "loop" THEN "sleep" ELSE Caller(t))
    /\ Leave(t)
    /\ UNCHANGED <<workers, workersLock, flags, signaled, tasks, toWake>>

\* The task body returns to whoever executed it.
TaskDone(t) ==
    /\ pc[t] = "exec"
    /\ Goto(t, IF Caller(t) = "loop" THEN "checkStop" ELSE Caller(t))
    /\ Leave(t)
    /\ UNCHANGED <<workers, workersLock, flags, signaled, tasks, toWake>>

-----------------------------------------------------------------------------
(***************************************************************************)
(* TaskWorkerStart().                                                      *)
(***************************************************************************)
RegisterThisThreadAsWorker(t) ==
    /\ pc[t] = "register"
    /\ workersLock = None
    /\ workers' = Append(workers, t)
    /\ Goto(t, "activate")
    /\ UNCHANGED <<workersLock, flags, signaled, tasks, calls, toWake>>

SetThreadStatus(t, from, change, to) ==
    /\ pc[t] = from
    /\ activeWorkersCount' = activeWorkersCount + change
    /\ Goto(t, to)
    /\ UNCHANGED <<workers, workersLock, shouldPause, shouldStop, signaled, tasks,
                   calls, toWake>>

Activate(t) == SetThreadStatus(t, "activate", 1, "checkStop")

\* while (!shouldStop)
CheckStop(t) ==
    /\ pc[t] = "checkStop"
    /\ Goto(t, IF shouldStop THEN "retire" ELSE "checkPause")
    /\ UNCHANGED <<workers, workersLock, flags, signaled, tasks, calls, toWake>>

\* if (!shouldPause) ExecuteOneTask()
CheckPause(t) ==
    /\ pc[t] = "checkPause"
    /\ \/ /\ ~shouldPause
          /\ Goto(t, "scan")
          /\ Enter(t, "loop")
       \/ /\ shouldPause
          /\ Goto(t, "sleep")
          /\ UNCHANGED calls
    /\ UNCHANGED <<workers, workersLock, flags, signaled, tasks, toWake>>

\* Mutant: a thread goes to sleep without being uncounted.
FallAsleepCounted(t) == SetThreadStatus(t, "sleep", 0, "asleep")

FallAsleep(t) == SetThreadStatus(t, "sleep", -1, "asleep")

\* newWorkArrived.Wait() returns and resets the event ...
Wake(t) ==
    /\ pc[t] = "asleep"
    /\ signaled
    /\ signaled' = FALSE
    /\ Goto(t, "awake")
    /\ UNCHANGED <<workers, workersLock, flags, tasks, calls, toWake>>

\* ... while (shouldPause)
CheckWake(t) ==
    /\ pc[t] = "awake"
    /\ Goto(t, IF shouldPause THEN "asleep" ELSE "activate")
    /\ UNCHANGED <<workers, workersLock, flags, signaled, tasks, calls, toWake>>

Retire(t) == SetThreadStatus(t, "retire", -1, "drain")

-----------------------------------------------------------------------------
(***************************************************************************)
(* Leaving: "finish all pending tasks", then UnregisterThisThreadAsWorker. *)
(***************************************************************************)
DrainTakes(t) ==
    /\ pc[t] = "drain"
    /\ queue[t] > 0
    /\ queue' = [queue EXCEPT ![t] = @ - 1]
    /\ Goto(t, "exec")
    /\ Enter(t, "drain")
    /\ UNCHANGED <<workers, workersLock, flags, signaled, pushed, toWake>>

\* pop() returned nullptr; the lock is then taken.
DrainEnds(t) ==
    /\ pc[t] = "drain"
    /\ PopMayFail(t, t)
    /\ Goto(t, "lock")
    /\ UNCHANGED <<workers, workersLock, flags, signaled, tasks, calls, toWake>>

LockWorkers(t) ==
    /\ pc[t] = "lock"
    /\ workersLock = None
    /\ workersLock' = t
    /\ shouldPause' = TRUE
    /\ Goto(t, "awaitIdle")
    /\ UNCHANGED <<workers, activeWorkersCount, shouldStop, signaled, tasks, calls,
                   toWake>>

\* Mutant: the vector is changed without waiting for the others.
SeeAnything(t) ==
    /\ pc[t] = "awaitIdle"
    /\ Goto(t, "erase")
    /\ UNCHANGED <<workers, workersLock, flags, signaled, tasks, calls, toWake>>

\* while (activeWorkersCount) Sleep(2)
SeeIdle(t) ==
    /\ pc[t] = "awaitIdle"
    /\ activeWorkersCount = 0
    /\ Goto(t, "erase")
    /\ UNCHANGED <<workers, workersLock, flags, signaled, tasks, calls, toWake>>

\* workers.erase(std::find(...)), if it was found
EraseWorker(t) ==
    /\ pc[t] = "erase"
    /\ \/ \E k \in DOMAIN workers : workers[k] = t /\ workers' = RemoveAt(workers, k)
       \/ t \notin ToSet(workers) /\ UNCHANGED workers
    /\ Goto(t, "unpause")
    /\ UNCHANGED <<workersLock, flags, signaled, tasks, calls, toWake>>

UnlockWorkers(t) ==
    /\ pc[t] = "unpause"
    /\ shouldPause' = FALSE
    /\ workersLock' = None
    /\ Goto(t, IF t = Main THEN "awaitEmpty" ELSE "exit")
    /\ UNCHANGED <<workers, activeWorkersCount, shouldStop, signaled, tasks, calls,
                   toWake>>

-----------------------------------------------------------------------------
(***************************************************************************)
(* The owner: Pause() when the window loses or gains focus, and the        *)
(* destructor.                                                             *)
(***************************************************************************)
Pause(pause) ==
    /\ pc[Main] = "run"
    /\ shouldPause' = pause
    /\ UNCHANGED <<workers, workersLock, activeWorkersCount, shouldStop, signaled,
                   tasks, pc, calls, toWake>>

\* ~TaskManager(): shouldStop, then one Set() for every thread.
Destroy ==
    /\ pc[Main] = "run"
    /\ shouldStop' = TRUE
    /\ toWake' = Cardinality(Workers)
    /\ Goto(Main, "notify")
    /\ UNCHANGED <<workers, workersLock, activeWorkersCount, shouldPause, signaled,
                   tasks, calls>>

Notify ==
    /\ pc[Main] = "notify"
    /\ IF toWake > 0
       THEN /\ signaled' = TRUE
            /\ toWake' = toWake - 1
            /\ UNCHANGED pc
       ELSE /\ Goto(Main, "drain")
            /\ UNCHANGED <<signaled, toWake>>
    /\ UNCHANGED <<workers, workersLock, flags, tasks, calls>>

\* Mutant: the destructor waits for the vector to empty without Set().
AwaitEmptySilently ==
    /\ pc[Main] = "awaitEmpty"
    /\ workers = <<>>
    /\ Goto(Main, "join")
    /\ UNCHANGED <<workers, workersLock, flags, signaled, tasks, calls, toWake>>

\* while (!workers.empty()) { Set(); Sleep(0); }
AwaitEmpty ==
    /\ pc[Main] = "awaitEmpty"
    /\ IF workers = <<>>
       THEN Goto(Main, "join") /\ UNCHANGED signaled
       ELSE signaled' = TRUE /\ UNCHANGED pc
    /\ UNCHANGED <<workers, workersLock, flags, tasks, calls, toWake>>

Join ==
    /\ pc[Main] = "join"
    /\ \A t \in Workers : pc[t] = "exit"
    /\ Goto(Main, "gone")
    /\ UNCHANGED <<workers, workersLock, flags, signaled, tasks, calls, toWake>>

Gone == pc[Main] = "gone" /\ UNCHANGED vars

Body(t) == PushTask(t) \/ Wait(t)

ThreadStep(t) ==
    \/ ScanTakes(t) \/ ScanFails(t)
    \/ RegisterThisThreadAsWorker(t) \/ Activate(t)
    \/ CheckStop(t) \/ CheckPause(t)
    \/ FallAsleep(t) \/ Wake(t) \/ CheckWake(t) \/ Retire(t)
    \/ DrainTakes(t) \/ DrainEnds(t)
    \/ LockWorkers(t) \/ SeeIdle(t) \/ EraseWorker(t) \/ UnlockWorkers(t)

OwnerStep == Notify \/ AwaitEmpty \/ Join

Next ==
    \/ \E t \in Threads : Body(t) \/ TaskDone(t) \/ ThreadStep(t)
    \/ \E pause \in BOOLEAN : Pause(pause)
    \/ Destroy
    \/ OwnerStep
    \/ Gone

\* Threads are scheduled, bodies terminate.
Fairness ==
    /\ \A t \in Threads : WF_vars(ThreadStep(t)) /\ SF_vars(TaskDone(t))
    /\ WF_vars(OwnerStep)

Spec == Init /\ [][Next]_vars /\ Fairness

-----------------------------------------------------------------------------
\* SetThreadStatus(true) was called last.
Searching == {"checkStop", "checkPause", "sleep", "retire", "loop"}
Counted(t) == Base(t) \in Searching
CountedThreads == {t \in Threads : Counted(t)}

Unregistering == {"awaitIdle", "erase", "unpause"}

\* The thread is in the vector.
Away == {"register", "unpause", "awaitEmpty", "join", "gone", "exit"}
Registered(t) == pc[t] \notin Away

TypeOK ==
    /\ workers \in Seq(Threads)
    /\ workersLock \in Threads \cup {None}
    /\ activeWorkersCount \in Nat
    /\ shouldPause \in BOOLEAN /\ shouldStop \in BOOLEAN /\ signaled \in BOOLEAN
    /\ queue \in [Threads -> Nat] /\ pushed \in Nat
    /\ pc \in [Threads -> PCs]
    /\ calls \in [Threads -> Seq({"loop", "run", "drain", "exec"})]
    /\ toWake \in Nat

\* A thread runs or searches for a body exactly when somebody waits for it:
\* the bottom is a loop, and above it are bodies that wait.
CallsNest ==
    \A t \in Threads :
        /\ calls[t] = <<>> <=> pc[t] \notin {"scan", "exec"}
        /\ \A k \in DOMAIN calls[t] : k > 1 <=> calls[t][k] = "exec"

Leaving == {"drain", "lock"} \cup Unregistering
OwnerPlaces == {"run", "notify", "awaitEmpty", "join", "gone"}

\* The owner is in its loop or in the destructor, a worker in TaskWorkerStart(),
\* and nobody leaves before the destructor has started.
PlacesApart ==
    /\ Base(Main) \in Leaving \cup OwnerPlaces
    /\ shouldStop <=> Base(Main) # "run"
    /\ \A t \in Workers :
        /\ Base(t) \notin OwnerPlaces
        /\ Base(t) \in Leaving \cup {"retire", "exit"} => shouldStop

\* The count says how many threads look for work, ...
CountAgrees == activeWorkersCount = Cardinality(CountedThreads)

\* ... the vector who may be looked at, each once, ...
VectorAgrees ==
    /\ IsInjective(workers)
    /\ ToSet(workers) = {t \in Threads : Registered(t)}

\* ... and the lock who is leaving.
LockAgrees == \A t \in Threads : pc[t] \in Unregistering <=> workersLock = t

\* The count, the vector and the lock say what the threads of TaskWorkerStart()
\* and of the destructor are doing.
PoolInv ==
    /\ TypeOK
    /\ CallsNest
    /\ PlacesApart
    /\ CountAgrees
    /\ VectorAgrees
    /\ LockAgrees

\* The vector is erased from only when nobody is reading it, and workers[0]
\* exists whenever somebody reads it.
VectorStable ==
    /\ \A t \in Threads : pc[t] = "erase" => Scanning = {}
    /\ Scanning # {} => workers # <<>>

\* "Finish all pending tasks": a worker that has left leaves no task behind.
PendingTasksFinished == \A t \in Threads : ~Registered(t) => queue[t] = 0

\* The destructor returns: every sleeper is woken, every worker leaves.
ShutdownCompletes == shouldStop ~> pc[Main] = "gone"
=============================================================================
