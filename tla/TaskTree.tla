------------------------------ MODULE TaskTree ------------------------------
(***************************************************************************)
(* xrCore/Threading/Task.hpp and the part of TaskManager.cpp that creates, *)
(* runs and waits for tasks: a task counts its own body and its children   *)
(* in m_data.jobs, whoever drops a counter to zero goes on to the parent,  *)
(* and a thread that waits for a task executes other tasks meanwhile.      *)
(*                                                                         *)
(* Task memory is a ring per thread (TaskAllocator).  A task is named by   *)
(* its thread and its allocation number; Cell gives the memory it lives    *)
(* in, which a later task of the same thread will take over.               *)
(*                                                                         *)
(* The queues are the set "queued": which worker takes which task is left  *)
(* open (the order within one queue is the matter of TaskQueue).           *)
(***************************************************************************)
EXTENDS Integers, Sequences, SequencesExt, FiniteSets

CONSTANTS
    Main,       \* the thread that runs the device loop
    Workers,    \* the threads that run TaskWorkerStart
    RingSize,   \* TASK_STORAGE_SIZE of TaskAllocator
    MaxTasks,   \* bound on the number of tasks created
    Quiesced,   \* TRUE: a cell is reused only when no thread looks at it
    None        \* nullptr

Threads == {Main} \cup Workers

ASSUME ThreadsAssumption == Main \notin Workers /\ IsFiniteSet(Workers)
ASSUME RingAssumption == RingSize \in Nat \ {0}
ASSUME MaxTasksAssumption == MaxTasks \in Nat
ASSUME QuiescedAssumption == Quiesced \in BOOLEAN
ASSUME NoneAssumption == None \notin Threads \X Nat

VARIABLES
    m_allocated,    \* TaskAllocator::m_allocated of each thread
    parent,         \* m_data.parent of each cell
    jobs,           \* m_data.jobs of each cell
    queued,         \* tasks pushed and not yet taken
    stack,          \* the frames of each thread, the running one last
    done,           \* history: tasks whose body has returned
    under           \* history: <<d, a>> when task d is a or was created under a

vars == <<m_allocated, parent, jobs, queued, stack, done, under>>

TaskIds == Threads \X (0 .. MaxTasks)
Cells == Threads \X (0 .. RingSize - 1)
Cell(x) == <<x[1], x[2] % RingSize>>

(***************************************************************************)
(* A frame is a call in progress on a thread:                              *)
(*   "loop"    the base of a worker, looking for work;                     *)
(*   "body"    m_data.call of frame.task, or the device loop (task None);  *)
(*   "wait"    TaskManager::Wait(it), called by that body;                 *)
(*   "release" Task::operator() about to decrement it->m_data.jobs;        *)
(*   "climb"   Task::operator() about to read it->m_data.parent.           *)
(* fresh is a task the body has created and neither pushed nor run yet,    *)
(* kept are the tasks it holds a reference to and may wait for.            *)
(***************************************************************************)
Frame(x, where) ==
    [task |-> x, pc |-> where, it |-> x, fresh |-> None, kept |-> {}]

Top(t) == Last(stack[t])
SetTop(t, frame) == [stack EXCEPT ![t][Len(stack[t])] = frame]
Return(t) == [stack EXCEPT ![t] = Front(@)]
Call(t, caller, frame) == [SetTop(t, caller) EXCEPT ![t] = Append(@, frame)]
Frames == UNION {ToSet(stack[t]) : t \in Threads}

Init ==
    /\ m_allocated = [t \in Threads |-> 0]
    /\ parent = [c \in Cells |-> None]
    /\ jobs = [c \in Cells |-> 0]
    /\ queued = {}
    /\ stack = [t \in Threads |->
                    <<Frame(None, IF t = Main THEN "body" ELSE "loop")>>]
    /\ done = {}
    /\ under = {}

-----------------------------------------------------------------------------
Created == {x \in TaskIds : x[2] < m_allocated[x[1]]}

\* What the callers must guarantee before a cell is taken for a new task.
\* TaskAllocator::allocate() asserts the first conjunct and no more.
MayReuse(c) ==
    /\ jobs[c] = 0
    /\ Quiesced => \A f \in Frames :
        /\ f.pc \in {"wait", "climb"} => Cell(f.it) # c
        /\ \A x \in f.kept : Cell(x) # c

\* Mutant: the new task is not counted in its parent.
CountAlone(c, p) == [jobs EXCEPT ![c] = 1]

\* The constructor: a job for the task itself, and one more for its parent.
CountJobs(c, p) ==
    [d \in Cells |-> IF d = c THEN 1
                     ELSE IF p # None /\ d = Cell(p) THEN jobs[d] + 1 ELSE jobs[d]]

\* CreateTask(): allocate(), then the constructor.  A body creates children of
\* its own task, or root tasks.
CreateTask(t) ==
    LET x == <<t, m_allocated[t]>>
        c == Cell(x)
    IN  /\ Top(t).pc = "body"
        /\ Top(t).fresh = None
        /\ Cardinality(Created) < MaxTasks
        /\ MayReuse(c)
        /\ \E p \in {None, Top(t).task} :
            /\ parent' = [parent EXCEPT ![c] = p]
            /\ jobs' = CountJobs(c, p)
            /\ under' = under \cup {<<x, x>>}
                    \cup {<<x, a[2]>> : a \in {b \in under : b[1] = p}}
        /\ m_allocated' = [m_allocated EXCEPT ![t] = @ + 1]
        /\ stack' = SetTop(t, [Top(t) EXCEPT !.fresh = x])
        /\ UNCHANGED <<queued, done>>

\* The caller may keep the reference it was given, to wait on it later.
Handed(frame, x) ==
    {[frame EXCEPT !.fresh = None],
     [frame EXCEPT !.fresh = None, !.kept = @ \cup {x}]}

PushTask(t) ==
    /\ Top(t).pc = "body"
    /\ Top(t).fresh # None
    /\ queued' = queued \cup {Top(t).fresh}
    /\ \E f \in Handed(Top(t), Top(t).fresh) : stack' = SetTop(t, f)
    /\ UNCHANGED <<m_allocated, parent, jobs, done, under>>

RunTask(t) ==
    /\ Top(t).pc = "body"
    /\ Top(t).fresh # None
    /\ \E f \in Handed(Top(t), Top(t).fresh) :
        stack' = Call(t, f, Frame(Top(t).fresh, "body"))
    /\ UNCHANGED <<m_allocated, parent, jobs, queued, done, under>>

\* Wait(): entered for a task the body holds a reference to.
Wait(t) ==
    /\ Top(t).pc = "body"
    /\ Top(t).fresh = None
    /\ \E x \in Top(t).kept :
        stack' = SetTop(t, [Top(t) EXCEPT !.pc = "wait", !.it = x])
    /\ UNCHANGED <<m_allocated, parent, jobs, queued, done, under>>

\* Wait(): while (!task.IsFinished()) is left.
WaitReturn(t) ==
    /\ Top(t).pc = "wait"
    /\ jobs[Cell(Top(t).it)] = 0
    /\ stack' = SetTop(t, [Top(t) EXCEPT !.pc = "body", !.it = Top(t).task,
                                         !.kept = @ \ {Top(t).it}])
    /\ UNCHANGED <<m_allocated, parent, jobs, queued, done, under>>

\* Mutant: only the worker's loop executes tasks, Wait() just polls.
ExecuteFromLoop(t) ==
    /\ Top(t).pc = "loop"
    /\ \E x \in queued :
        /\ queued' = queued \ {x}
        /\ stack' = Call(t, Top(t), Frame(x, "body"))
    /\ UNCHANGED <<m_allocated, parent, jobs, done, under>>

\* ExecuteOneTask(), from the worker's loop or from Wait() (which may have
\* looked at IsFinished() before the task it waits for finished).
ExecuteOneTask(t) ==
    /\ Top(t).pc \in {"loop", "wait"}
    /\ \E x \in queued :
        /\ queued' = queued \ {x}
        /\ stack' = Call(t, Top(t), Frame(x, "body"))
    /\ UNCHANGED <<m_allocated, parent, jobs, done, under>>

\* Task::operator(): m_data.call(*this) returns.
FinishBody(t) ==
    /\ Top(t).pc = "body"
    /\ Top(t).task # None
    /\ Top(t).fresh = None
    /\ stack' = SetTop(t, Frame(Top(t).task, "release"))
    /\ done' = done \cup {Top(t).task}
    /\ UNCHANGED <<m_allocated, parent, jobs, queued, under>>

\* Mutant: the parent is released even if jobs remain.
ReleaseAndClimb(t) ==
    /\ Top(t).pc = "release"
    /\ jobs' = [jobs EXCEPT ![Cell(Top(t).it)] = @ - 1]
    /\ stack' = SetTop(t, [Top(t) EXCEPT !.pc = "climb"])
    /\ UNCHANGED <<m_allocated, parent, queued, done, under>>

\* Task::operator(): it->m_data.jobs.fetch_sub(1), leave if jobs remain.
ReleaseJob(t) ==
    LET c == Cell(Top(t).it) IN
    /\ Top(t).pc = "release"
    /\ jobs' = [jobs EXCEPT ![c] = @ - 1]
    /\ stack' = IF jobs[c] # 1
                THEN Return(t)
                ELSE SetTop(t, [Top(t) EXCEPT !.pc = "climb"])
    /\ UNCHANGED <<m_allocated, parent, queued, done, under>>

\* Task::operator(): leave if there is no parent, else it = it->m_data.parent.
ReadParent(t) ==
    LET p == parent[Cell(Top(t).it)] IN
    /\ Top(t).pc = "climb"
    /\ stack' = IF p = None
                THEN Return(t)
                ELSE SetTop(t, [Top(t) EXCEPT !.pc = "release", !.it = p])
    /\ UNCHANGED <<m_allocated, parent, jobs, queued, done, under>>

ThreadStep(t) ==
    \/ CreateTask(t) \/ PushTask(t) \/ RunTask(t)
    \/ Wait(t) \/ WaitReturn(t) \/ ExecuteOneTask(t)
    \/ FinishBody(t) \/ ReleaseJob(t) \/ ReadParent(t)

AllQuiet == queued = {} /\ \A t \in Threads : Len(stack[t]) = 1 /\ Top(t).pc # "wait"

\* The bound on tasks is reached and nothing is left to do.
Finished ==
    /\ AllQuiet
    /\ UNCHANGED vars

Next == Finished \/ \E t \in Threads : ThreadStep(t)

\* Every thread runs: the operating system schedules it and bodies terminate.
Fairness == \A t \in Threads : WF_vars(ThreadStep(t))

Spec == Init /\ [][Next]_vars /\ Fairness

-----------------------------------------------------------------------------
TypeOK ==
    /\ m_allocated \in [Threads -> 0 .. MaxTasks]
    /\ parent \in [Cells -> TaskIds \cup {None}]
    /\ jobs \in [Cells -> Int]
    /\ queued \subseteq Created
    /\ \A f \in Frames :
        /\ f.task \in Created \cup {None}
        /\ f.it \in Created \cup {None}
        /\ f.pc \in {"loop", "body", "wait", "release", "climb"}
        /\ f.fresh \in Created \cup {None}
        /\ f.kept \subseteq Created
    /\ done \subseteq Created
    /\ under \subseteq Created \X Created

\* No counter is decremented more often than it was incremented (VERIFY2 in
\* Task::operator(): "The same task was executed two times.").
JobsNotNegative == \A c \in Cells : jobs[c] >= 0

\* The counter of a task is what is still owed to it: one for its own body
\* until it has been released, one for every child that has not propagated.
Owed(x) ==
    Cardinality({t \in Threads : \E i \in DOMAIN stack[t] :
                    stack[t][i].pc = "release" /\ stack[t][i].it = x})

Latest(x) == x[2] + RingSize >= m_allocated[x[1]]

Pending(x) ==   \* its own release is still to be reached
    \/ x \in queued
    \/ \E f \in Frames : f.fresh = x \/ (f.task = x /\ f.pc \in {"body", "wait"})

UnreportedChildren(x) ==
    {y \in Created : /\ Latest(y) /\ parent[Cell(y)] = x
                     /\ \/ jobs[Cell(y)] > 0
                        \/ \E f \in Frames : f.pc = "climb" /\ f.it = y}

JobsAccounted ==
    \A x \in Created : Latest(x) =>
        jobs[Cell(x)] = (IF Pending(x) THEN 1 ELSE 0) + Owed(x)
                        + Cardinality(UnreportedChildren(x))

TreeInv == TypeOK /\ JobsNotNegative /\ JobsAccounted

\* When the counter that a waiting thread polls is zero, the body of the task
\* it waits for and of every task created under it have returned.
WaitCoversSubtree ==
    \A f \in Frames :
        f.pc = "wait" /\ jobs[Cell(f.it)] = 0 =>
            \A b \in under : b[2] = f.it => b[1] \in done

\* No Wait() hangs and no task is forgotten, although waiting threads pile
\* other waiting tasks upon the ones that are waited for.
AllTasksFinish == <>[]AllQuiet
=============================================================================
