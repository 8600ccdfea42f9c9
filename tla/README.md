# A verification project for the X-Ray engine (OpenXRay, Android port)

TLA+ models of the engine's own concurrency and scheduling core, and of the
protocols by which its game server, client and creatures share one world frame
by frame, model-checked with TLC and, where noted, proved with TLAPS. Paths below are relative to the
repository; the C++ sources live under `src/` of it.

## 1. Inventory

The repository is a game engine with its game, about 6500 files. Most of it is
content code (weapons, AI behaviours, UI, rendering), numeric code (physics,
particles, animation) or vendored libraries. What makes the engine *one
program* are the parts that decide who runs, when, and on which objects. They
are small, stateful, entered from everywhere, and hardly testable.

| Part | State it keeps | Operations | Talks to |
|---|---|---|---|
| **Task queue** `xrCore/Threading/TaskManager.cpp` | head and tail positions, ring of task pointers | push, pop, steal | workers share it with no lock |
| **Task tree and task memory** `Task.hpp`, `TaskManager.cpp/.hpp` | per thread a ring of cells; per task its parent and job counter | CreateTask, PushTask, RunTask, Wait, `Task::operator()` | bodies create, run and wait for further tasks |
| **Worker pool** `TaskManager.cpp`, `Event.cpp` | vector of workers, active counter, pause and stop flags, event | register, search, sleep, wake, pause, destroy | device loop (Pause), every task client |
| **Object scheduler** `xrEngine/xrSheduler.cpp` | heap, real-time vector, processed list, queue of registrations, current object | Register, Unregister, EnsureOrder, Update, Destroy | clients are called back and call in again |
| **Object list** `xrEngine/xr_object_list.cpp` | active, sleeping, crow lists, destroy queue | Create, activate, sleep, Update, setDestroy, Destroy | game objects, scheduler, tasks (crow lists per worker) |
| **Message registry** `xrEngine/pure.h` | priority list, in-process flag | Add, Remove, Process | device loop; callbacks change the list |
| **Event API** `xrEngine/EventAPI.cpp` | reference counts, handlers, deferred queue | attach, detach, Signal, Defer, OnFrame | console, game |
| **Device loop** `xrEngine/device.cpp` | frame counter, focus, pause | one frame: seqFrame, scheduler, render, parallel phase | all of the above |
| **Sound emitter** `xrSound/SoundRender_Emitter.cpp` | play state, prefilled blocks, prefill task | start, update, stop, dispatch_prefill, wait_prefill | task manager |
| **Game objects** `xrGame/GameObject.cpp` | id, parent, flags, count of activations, frames of last update and last crow | net_Spawn, H_SetParent, MakeMeCrow, setDestroy, DestroyObject, net_Destroy | object list, scheduler, server |
| **Path building** `movement_manager*.cpp`, `*_path_builder.h` | state of the path, wait flag, time of the last failure | update_path, register_to_process, process, remove | the creature's updates, `Device.seqParallel` |
| **Game server** `xrGame/xrServer_process_*.cpp` | tree of entities | spawn, take, reject, destroy | client (messages), ALife, id generator |
| **Game client** `Level*.cpp`, object list | objects by id, queue of messages | receive, request | server (calls), objects |
| **ALife** `xrGame/alife_*` | online and offline objects | switch online, switch offline, create, release | server, id generator |
| **Id generator** `xrGame/id_generator.h` | free ids in blocks with a time stamp | tfGetID, vfFreeID | server |

The remaining components (file system, strings, console, AI, physics, particles,
scripts, UI, materials, network, renderers) are listed with the reason for
leaving them out in `PROJECT.json`.

What is hard about these parts: lock-free interleavings (queue); memory that is
reused when a counter says it may be (task tree); flags that stand in for a
lock (pool); sleeping and waking at shutdown (pool); callbacks that change the
list that is being iterated over (scheduler, registry, event API, object list);
queued operations that are applied later and out of order (scheduler); two
copies of one world, one a frame behind the other, with requests made on the
older one (server and client); results that arrive when the question has
changed (paths); ids that are freed and claimed again on several paths (server).
`PROJECT.json` lists each such hazard at its line with the property that
guards it.

What makes them correct, in a sentence each: the queue hands out every task
once and in order; a waiting thread returns exactly when the whole subtree is
done, and does return; the worker vector never changes under a reader and
shutdown ends; the scheduler knows exactly the objects its clients registered,
updates them at most once a frame, never after they left, and starves nobody;
the client shows the server's world once it has handled the messages on their
way, under ids nobody else has; every object that became a crow is updated in
time and none after its destruction; a creature that waits for a path gets one.

## 2. Modules

| Module | Models | Composes |
|---|---|---|
| `TaskFifo` | abstract specification: what a task queue promises | |
| `TaskQueue` | `class TaskQueue`, one step per atomic access | implements `TaskFifo` |
| `TaskQueueProofs` | theorems about `TaskQueue` | |
| `TaskTree` | `Task.hpp`, task memory, Create/Push/Run/Wait | queue abstracted to a set |
| `TaskTreeProofs` | theorems about `TaskTree` | |
| `WorkerPool` | life of the worker threads | queue abstracted to a count |
| `WorkerPoolProofs` | theorems about `WorkerPool` | |
| `Scheduler` | `CSheduler` and its clients | |
| `SchedulerProofs` | theorems about `Scheduler` | |
| `IdGenerator` | `CID_Generator` | |
| `EntityServer` | `xrServer`'s entities and ALife's switching | `IdGenerator` |
| `ClientObjects` | the client's objects by id and its message handlers | |
| `WorldMirror` | abstract specification: what the server promises to the client | |
| `WorldSync` | the single-player world: server, ALife, client, messages, frames | `EntityServer`, `ClientObjects`; implements `WorldMirror` |
| `PathBuilder` | `CMovementManager` and its two builders | |
| `EngineFrame` | the device loop with the object list, rendering and `seqParallel` | `PathBuilder` |
| `EngineFrameProofs` | theorems about `EngineFrame`'s paths and `seqParallel` | |
| `ObjectListProofs` | theorems about `EngineFrame`'s objects and crows | |
| `WorldSyncProofs` | theorems about `WorldSync`: the server, the client, what it shows | |
| `SequenceFacts` | lemmas for the proofs: sequences without repetition, what `FlattenSeq` joins, what `FoldLeft` does step by step | |
| `MC*` | the instances TLC checks | |

### TaskQueue
`push()` is `PushClaim` (fetch_add) and `PushStore`; `pop()` is `PopLoadHead`,
`PopLoadSlot`, `PopCasOk` or `PopCasFail` (a weak exchange may always fail) and
`PopClear`. `steal()` is `pop()` by another thread. A task is named by its push
number. The history variable `taken` records the won tasks.

The code relies on its callers never to push into a slot that is still in use;
`MayPush` says what they must keep. With `Spare = 0` it is exactly what the two
assertions in `push()` and `TaskAllocator::allocate()` permit. That is one slot
too many: see `task_queue_asserted`. With `Spare = 1` everything holds.

### TaskTree
Each thread has a stack of frames, because `Wait()` executes other tasks on top
of the task that waits. A task is named by its thread and allocation number;
`Cell` maps it to the ring cell it lives in, which a later task shares, so that
`parent` and `jobs` are looked up through a possibly stale name as the code
does through a stale pointer. The decrement of the counter and the read of the
parent pointer are two steps. Bodies are arbitrary: they create children of
their own task or roots, push or run them, keep references and wait, in any
order; that is what `ParallelFor`, the renderers and the sound code do.
`Quiesced` is the discipline under which reuse is safe: a cell is reused only
when no thread still looks at it. With 4096 cells per thread it holds unless a
thread allocates 4096 tasks while another one is delayed inside
`Task::operator()`.

### WorkerPool
`pc` follows `TaskWorkerStart()`, `~TaskManager()` and
`UnregisterThisThreadAsWorker()`; `calls` is the chain of callers above the
body or search in progress (loop, drain, Wait). A queue is the number of its
tasks; a pop of it may fail although it is not empty exactly when another
thread is popping at that time, which is what the exchange in `TaskQueue`
gives. A thread that is searching reads the vector `workers` without the lock:
its `pc` is "scan" all that time, so that `VectorStable` can speak of it.

### Scheduler
`pc` names the places of `Update()` where control passes between the scheduler
and a client: between frames, in a real-time object's `shedule_Update()`, and in
an ordinary one's. There a client may register, unregister or mark for
destruction any object. Times are relative to the present frame. The range-for
over `ItemsRT` keeps the end it took at its start; `rt.left` is what an erase
leaves in the memory behind the vector's new end, which the loop still reads.
`EraseInLoop = FALSE` keeps real-time objects from being unregistered inside
their own loop. `SetDestroy` may come between any two frames and stay: that is more
than the game does, where `setDestroy()` (Level.cpp:447) and the `net_Destroy()` that
unregisters (the destroy queue, xr_object_list.cpp:332) lie in one `CLevel::OnFrame()`
with no `Update()` between them, and `ProcessStep()` meets an object that is not needed
only if something else makes it so. The properties hold with the additional steps.

### WorldSync and the modules it composes
In a single-player game the server lives in the client's process. A request
(`Level::Send()`) is executed at once, inside the client's code; what the server
broadcasts waits in the client's queue until the next frame's
`ProcessGameEvents()`. So the server runs ahead of the client by up to a frame,
and everything the client asks for, it asks on the older copy.

`IdGenerator`, `EntityServer` and `ClientObjects` hold one operator per handler,
from a record to the next record; handlers nest in each other in the code
(destroying an owner rejects and destroys its items; going offline destroys,
frees ids and claims them again), and so do the operators. `WorldSync` gives them
their variables and the frame. Its actions are the requests (`RequestTake`,
`RequestReject`, `DestroyObject`, `RequestSpawn`, a script's `Create`, whose owner
need not be among the client's objects, and `Release`), one message of `ProcessGameEvents()` (`Receive`), one object of the
destroy queue (`DestroyNext`), one object of ALife's switching (`SwitchObject`)
and `NextFrame`. `server.out` is what has been broadcast in this frame and
`game_events` what is left of the frame before. A spawn has two outcomes: `Spawn`, and
`SpawnFails`, after which the client has no such object and tells nobody. `lost` is the
history of the failures: the objects that net_Spawn() failed to create, until the
message of their destruction is handled. The server goes on with them as with any
entity. Whether an item is accepted by
the owner it is given to is left open (`canTake`): weight, slots and rules of the
game decide it. `add_online()` and `Perform_destroy()` may be called for an object
whose client copy of an earlier life is still there; whether they are is what
`OfflineIsGone` is about.

`WorldMirror` is what all this promises: a tree, messages, and the tree the client
shows. Whoever changes the first appends messages that tell exactly what has
changed (`Tell`); the client handles the first message as it is meant (`Handle`), or
keeps the item at the root and the server takes back what it said, so that the
messages still lead to its tree (`Refuse`), or fails to create the object (`Lose`). An
object that is lost is not shown until its end is told, and what it should hold is shown
at the root (`Without`); the rest of the tree does not depend on it. `Mirror` in
`WorldSync` maps the server's online entities, `game_events \o server.out`, the client's
objects that are not dying, and `lost` to the four variables. `Replica` says where the
messages lead, and that nothing lost has an object; `ImplementsMirror` also how: no
message that has been sent is withdrawn or overtaken, and nothing changes in the tree
the client shows but by the message that says so, an object whose destruction has been
requested included.

A pack of events is the events it holds. An owner holds items, items hold
nothing, so the recursion of `Process_event_destroy()` and `release()` is one
fold over the children. `reject` follows `CActor::OnEvent()`; boxes and stalkers
have the same handler with fewer checks, and a box never refuses. The actor is spawned once and never
destroyed or switched.

### EngineFrame and PathBuilder
`phase` follows `CRenderDevice::ProcessFrame()`. In "events" the scheduler and the
messages of the frame act on the objects, one action each. `CollectCrows`,
`SingleUpdate` and `DestroyLast` are `CObjectList::Update()`; the crows are copied
before the loop (`workload`), so what the loop adds is for the next frame. In
"render" every worker may be inside `MakeMeCrow()` of any object at once
(`Render`, `Exchange`, `Push`, `Flag` are its steps), while one task runs the
delegates of `seqParallel`. `asCrow`, `updated` and `scheduled` say of the frame
numbers the objects keep whether they are this frame's. `due` and `owed` are
history variables: what became a crow since the last update, and what of it the
present update still has to do.

`PathBuilder` holds the operators of the movement manager for paths over the level
graph. A search may find a path or fail, a path may be actual, completed or not:
these are alternatives, so an operator returns the set of records it may lead to.

## 3. What is checked

| Run | Shows | Bounds |
|---|---|---|
| `task_queue` | inductive invariant, each task once, none lost, none overwritten, refinement of `TaskFifo` | 3 threads, ring of 3, 7 pushes: the positions go round twice, with one thread stuck between exchange and clear while two others move |
| `task_queue_asserted` | with the ring filled as the assertions allow, a task is handed out twice | the same, no spare slot |
| `task_tree` | counters exact; Wait() covers the subtree; all tasks finish | device thread and 1 worker, rings of 2 cells, 4 tasks: three generations deep, and cells are reused |
| `task_tree_asserted` | with reuse as the assertion allows, a foreign counter is released | the same |
| `worker_pool` | active counter exact, lock and vector agree, vector stable, shutdown completes | owner and 2 workers, 3 tasks: one leaves, one searches, one sleeps |
| `worker_pool_pending` | pending tasks may be left behind | the same |
| `scheduler` | lists, registrations, lateness, calls | 3 objects (the budget ends a loop at the third), 3 queued calls, ticks and periods of 1 |
| `scheduler_progress` | nobody starves | 3 objects, 2 queued calls |
| `scheduler_erase` | erase inside the real-time loop updates an object twice | 3 objects |
| `world_sync` | one tree, ids neither leaked nor freed twice, the client is the server's tree behind the messages but for what it failed to create, refinement of `WorldMirror`, one object per id, no dying object attached, no object switched online twice, items of events are there, new ids are fresh, stale objects go | the actor and 3 ids in 2 blocks besides, 3 entities, 2 requests or switches a frame: an owner with an item, both asked for in one frame by somebody else, switched off and on again; any spawn, of owner or item, may fail; ids are used again after 2 frames |
| `engine_frame` | each crow listed once, nothing destroyed is called, every crow updated in time, delegates queued once, no undefined path state, no stalker waits for ever | a stalker or monster and an item, 2 threads, 2 events a frame, 2 activations: both threads race for one object, the item hangs on the creature, a path is under way when its order changes or the creature dies |

Every property of a passing run has a mutant in its module: a definition changed
the way a plausible bug would change the code, under which TLC finds the
property violated.

Bounds that are not the code's: `MaxPush`, `MaxTasks`, `MaxQueue`, `MaxItems`
cap counters; `MaxTick`, `MaxPeriod` cap times; `MaxLate` is the claim of
`NotLate`, and 2 is tight for this instance. `MaxEntities`, `MaxRequests`,
`MaxEvents` and `MaxActive` bound the world and the events of a frame; `MaxAge` is
the age from which blocks count as equally old. `RestedBlock` asks for a block
that has been left alone for `MaxAge` frames whenever an id is taken. With 256
blocks there always is one; without it an instance of two or three blocks would
hand out an id its last bearer's client object still has, which `FreshIds` and
`MapExact` would rightly report: it is what the age of blocks is for. Symmetry is used for threads
(`TaskQueue`) and objects (`Scheduler`), in runs without liveness only.

### Fairness
- `TaskTree`: weak fairness of each thread's next step. The operating system
  schedules every thread; bodies end (each has the option to return, and the
  bound on tasks ends its others).
- `WorkerPool`: weak fairness of each thread's steps outside bodies, strong
  fairness of a body's return (a body that may push or wait is not always at
  its end), weak fairness of the owner once it is destroying. Nothing makes the
  owner destroy the pool or toggle the pause.
- `Scheduler`: weak fairness of `Update`: the device loop calls it every frame,
  and client callbacks return.

- `WorldSync`, `EngineFrame`: weak fairness of the frame's own steps (`FrameStep`):
  the main thread runs frame after frame, handles all messages, updates, waits for
  its tasks. No request, event or switch is assumed to happen.

### What the runs with a violation say
1. *A task executed twice* (`TaskQueue`): the exchange at TaskManager.cpp:108
   precedes the clear at :111. With 4096 outstanding tasks in one queue the head
   can come round to the uncleared slot.
2. *A foreign job released* (`TaskTree`): `it->m_data.parent` is read at
   Task.hpp:206 when the cell may already belong to another task.
3. *Pending tasks left* (`WorkerPool`): the loops under "Finish all pending
   tasks" end when `pop()` loses its exchange, not only when the queue is empty.
4. *Updated twice* (`Scheduler`): erasing from `ItemsRT` under the range-for.

None shows in ordinary play: the first two need a full ring of 4096, the third a
shutdown with tasks in flight, the fourth a real-time object that leaves from
its own update.

### Met while modelling
- *A monster that waits for ever.* `CLevelPathBuilder::register_to_process()` sets
  `m_wait_for_distributed_computation` (level_path_builder.h:64) before it returns
  early within `time_to_wait_after_fail` (:65). Nothing is queued, so nobody clears
  the flag, and `update_path()` (movement_manager.cpp:143) returns at once from then
  on: after a failed search a monster that asks again within two seconds stands
  until its restrictions change. In `EngineFrame` the same formula as `WaitServed`
  without `~delay` is violated in a few steps: a level path fails, the next frame's
  `on_frame()` registers again. Stalkers call `use_delay_after_fail(false)`
  (stalker_movement_manager_obstacles.cpp:42), so `WaitServed` holds for them.
- *A wait that ends too early.* `clear_path()` removes the detail builder's delegate
  and resets the wait flag, which may be the level builder's, still queued. A second
  `update_path()` in that frame would queue it twice, and `net_Destroy()` erases one
  of the two. `DelegateOnce` holds because no object is updated again between the
  planner's `clear_path()` and the parallel phase: the scheduler updates it once a
  frame (`UpdatedOncePerFrame`), and `UpdateCL()` once (`Updates`).
- *A failed spawn that nobody hears of.* `CGameObject::net_Spawn()` returns what the
  object's script binder returns (GameObject.cpp:614, script_binder.cpp:92-113), after
  `setID()` (:466) and `net_Register()` (:508). `g_sv_Spawn()` then destroys the object
  and skips its attachment (Level_network_spawn.cpp:109-116), and the server keeps the
  entity online. The binder's own `net_Spawn()` returns true
  (script_binder_object.cpp:24), so it takes a script that refuses. `Replica`,
  `ImplementsMirror` and `EventsFindItem` say what is left of the client's picture: all but that
  object, an owner's items around it, and a reject that finds no item, which the actor
  logs after a VERIFY2 (Actor_Events.cpp:93), a stalker ignores ("how can this
  happen?", ai_stalker_events.cpp:78) and a box does not survive (InventoryBox.cpp:58).
- *A failed spawn hits the actor.* When an id is taken, `g_sv_Spawn()` destroys the
  new object with id 0 (Level_network_spawn.cpp:111-114), and `net_Unregister()`
  clears `map_NETID[0]`. `FreshIds` says why it does not come to that.
- *A refused item's echo.* An owner that refuses an item rejects it at once; the
  server's echo reaches it a frame later, as a reject of an item it never held, and
  `CActor::OnEvent()` has an error branch for it (Actor_Events.cpp:113). Its VERIFY
  at :112 fails. `EventsFindItem` shows that the other branch (:124), where another
  owner holds the item and is cast to an actor, is not reached.

## 4. What is proved

`TaskQueueProofs`, for every set of threads, every ring size, every bound on the
pushes and every `Spare > 0`:

- `QueueInvariance`: `QueueInv` is an invariant. It is inductive as it stands. Its
  parts say that tasks were handed out in the order of their numbers up to the
  head; that the tail is less than a ring ahead of the head and of every thread
  that still has to clear a slot; that a filled slot holds a task of its own
  residue which is either to come or about to be cleared; that every pending
  task is stored or about to be; and that pushers and poppers in the middle of
  an operation hold different positions. The weakest link is `PopCasOk`: from
  the loaded slot and the unmoved head it must follow that the slot still holds
  the task of the head, and this is where the spare slot is needed
  (`PoppersApart` for "cas"). The arithmetic fact under all of it, that two
  positions less than a ring apart have different slots, is `SlotsApart`.
- `TypeCorrect`, `TasksTakenOnce`, `NoTasksLost`, `SlotsNotOverwritten`: follow
  from it.
- `RingImplementsFifo`: every step of the ring is a step of `TaskFifo` or leaves
  its variables alone, with `claimed` the tail, `stored` the positions whose
  store has been made, `delivered` the history.

`WorkerPoolProofs`, for every set of workers, every number of tasks and every
depth of nested waits:

- `PoolIsConsistent`: `PoolInv` is an invariant, inductive as it stands. What has
  to be known besides the count, the vector and the lock is where a thread will
  return to: `CallsNest` says that bodies nest over one bottom place, which
  `Base` names, and `PlacesApart` which places the owner and the workers may be
  at before and after `shouldStop`. A step is reduced to a move of one thread
  (`GotoMoves`, `EnterMoves`, `NestMoves`, `LeaveMoves`); the count then follows
  from where the move starts and ends (`CountMove`), the vector from two lemmas
  on sequences without repetition (`AppendToSet`, `RemoveAtToSet` in
  `SequenceFacts`).
- `VectorIsStable`, if `DrainedWait` is FALSE: `VectorStable` is an invariant. The
  strengthening is `EraseAlone`: while a thread erases itself, whoever is counted
  as active has just been activated or is about to retire, and a thread on its
  way out does not search. It holds when the count is seen to be 0, and
  `shouldStop`, which `PlacesApart` gives whenever somebody leaves, sends every
  thread that wakes up later from "checkStop" to "retire". So the vector is safe
  because threads leave only in the destructor; `shouldPause`, which the code
  raises for this purpose, is not needed for it.

`EngineFrameProofs`, for every set of objects, creatures and threads:

- `NoDefaultHolds`: `NoDefault` is inductive together with the types of the movement
  managers and of the queue (`GoodPath`). `PathBuilder` is a family of operators on
  one record, so there is one lemma for each (`...Good`), from the fields up to
  `process_level_path`, and the frame only has to say which of them it applies.
- `DelegateOnceHolds`: `DelegateOnce` is not inductive, because `clear_path()` may
  reset the wait flag of a builder that is still queued. `OnceInv` says what keeps a
  second delegate away in each phase: in "events" an object the scheduler has not
  yet updated has no delegate at all, so clearing its path is harmless; up to the
  end of "update" a builder that has a delegate is waited for
  (`WaitsForQueued`), and `update_path()` does nothing while it is; a sound player
  is queued by the one `UpdateCL()` that sets `updated`; in the phases after that
  delegates are only taken out. Each operator either leaves the queue
  alone (`Quiet`) or appends one delegate of a builder that was not waited for
  (`Orders`). The objects enter only through two marks and the life of the object,
  which crows and processing leave alone (`Keeps`).
- `PathsTyped`: follows from the first.

`ObjectListProofs`, for every set of objects, creatures and threads:

- `CrowExactHolds`, `NoneDanglingHolds`, `UpdatedInTimeHolds`, `TypeOKHolds`: all four
  follow from one inductive invariant, `ListInv`, which also takes in `OnceInv`
  above. `CrowExact` counts occurrences in the concatenation of all lists;
  `Separate` says the same list by list (none repeats, no two meet) and `Flags`
  that membership is the flag, or a worker about to set it. The exchange is in
  `RendersAt`: of the workers inside `MakeMeCrow()` of one object at most one is
  past it, and while one is, nobody else finds the old value. `Gone` says that a
  destroyed object has no mark, no crow and no delegate left, `Attached` that
  attachment is one level deep and touches nothing that is marked for
  destruction, `Destroyed` that the destroy queue is the marked objects; together
  they let `DestroyLast` remove an object without leaving its name anywhere.
  `UpdatedInTime` needs to know of what is still owed that it is ahead in
  `workload` and will not be skipped there (`Work`), and of what is due that a
  flag or a worker still stands for it (`Dues`). The operators the main thread
  applies to an object outside rendering keep a stronger relation of lists,
  flags and dues (`Fits`) and change only that object (`Changes`).
- That concatenating the workers' lists neither doubles nor loses an entry
  (`FlattenApart`) is a fact about a recursive function. It is not proved by
  induction but by a least counterexample: the first prefix of the list of lists
  for which it fails, which one unfolding refutes.

`SchedulerProofs`, for every set of objects, every length of the queue, every period:

- `SchedulerInvHolds`: an object has one entry in all lists together, and the
  phases of `Update()` allow what they should. `RegistryAgreesHolds`: `Registered()`
  answers what the clients asked for last. The invariant is `IInv`. The lists alone
  are not inductive, because a queued call is applied without looking (`internal_Registration()`
  adds or removes whatever the call says): so it must follow from the queue that an
  addition is never applied to an object that is listed. `QueueInv` says this
  of an object's calls in the queue: they alternate (`Alternate`); the last one is
  what is wanted (`LastCall`); the first one fits the list the object is in
  (`FirstCall`); with none, the list itself is what is wanted (`NoCall`); and inside the
  loops only objects that the loops have passed, or that are new, have calls at
  all (`LoopCall`).
- `NoUpdateAfterUnregisterHolds` and `UpdatedOncePerFrameHolds`, if `EraseInLoop` is
  FALSE: the strengthening is `OnceInv`, by which the vector under the range-for
  stays as it was, whoever has been updated is behind its position, and nobody
  who has been updated is in the heap. The proviso is needed:
  `scheduler_erase` breaks the second property without it.
- `NotLateHolds`, if `3 * (MaxLate + 1) > MaxTick * (Capacity + 2)`: no item is later than
  `MaxLate`. `Capacity` is the most that the heap holds, this frame will push back and the
  queue will add (`Fits`). It is reached when a heap of one item less than `MaxItems`
  meets a frame in which every object has been processed and is then unregistered
  and registered again; that takes two calls of the queue for each, so half the
  queue limits it (`BusyPending`). Two facts make the invariant (`LateInv`). An item is never
  overtaken: what is registered or pushed back is not due yet. And a frame that
  stops early has taken at least three items. So the weight of a due item, three
  times its lateness plus `MaxTick` for every item that is not behind it (`InTurn`),
  pays with the latter for the former; inside a frame it falls item by item
  (`Handled`). That a frame which finds nothing to do leaves nothing due needs the
  least element of the heap (`NothingDue`). The instance of `scheduler` meets the condition
  exactly: its `Capacity` is 6, and TLC refutes a `MaxLate` of 1.

`TaskTreeProofs`, for every set of threads, every number of tasks and of cells, if
`Quiesced` is TRUE:

- `TreeInvHolds`: `TreeInv`, of which `JobsAccounted` is the weight: the counter in a
  cell is what is owed to the task in it. It needs that a task is held by one
  frame of one thread (`HeldOnce`), that whoever takes the last job off is alone
  on the way up (`OneClimber`), and that what a thread still has to do with a task
  is done before its cell is reused (`StillThere`). Most of the proof is about
  the steps that write a cell: that no other task that matters lives there
  (`OneTaskPerCell`, `CellTaken`).
- `WaitCoversSubtreeHolds`: when `Wait()` returns, the bodies of the whole subtree have.
  Along the chain of parents this would be an induction; `ChildBetween` says the same
  in one step: below a task, every unreported descendant descends from an
  unreported *child*. So a task that is owed nothing has no unreported
  descendant. The proviso is needed: see `task_tree_asserted`.

`WorldSyncProofs`, for every finite set of blocks of ids and every bound on entities
and requests. The server, whatever its client does:

- `ServerGoodHolds`: `ServerGood` is inductive. `Linked` is
  the tree, entity by entity: parent and list name each other, both are on one
  side, items hold nothing, what is offline is saved. `Conserved(s, C)` is
  `IdsConserved`, with the exception of ids of `C`, which are free although their
  entities are known: `Perform_destroy()` frees the ids of what goes offline, and
  `remove_online()` claims them one by one. Between two steps `C` is empty. Going
  online breaks the tree on the way, since the owner is online before its items:
  `SidesChanged` says exactly what has been changed so far, and `SideLinked` that it
  is a tree again when the root and all its children are on the other side.
- `TreeConsistentHolds`, `IdsConservedHolds`, `ServerTyped`: follow from it. `ServerTyped`
  is the server's part of `TypeOK`; that the count of blocks is a natural number
  needs `Conserved`, since the code subtracts from it unasked.
- The handlers fold over the children of an owner, and a fold is a recursive
  function. That it has a solution is again a least counterexample (`FoldSolved`);
  from it each fold is a chain of single steps (`DestroyLeafFolds` and its
  relatives), along which `StepByStep` carries what has been reached: the tree is
  linked, and the children still listed are the `Rest`.

The client, and the messages between the two, if there is a pointer for every id:

- `WorldGoodHolds`: `WorldGood` is inductive, given `ServerGood`. A tree says of every id
  who holds that object, or that there is none (`Trees`); the server has one
  (`ServerTree`) and the client shows one (`ClientTree`). A failed spawn breaks the way
  from the latter to the former for good. What goes on is the tree `H` that the client
  would show had it created everything: `WorldGood` says that there is one, that the
  client shows `Hiding(H, lost)`, which is `H` without the lost objects and with the items
  they hold at the root (`Shows`), and that the messages on their way, those of
  `game_events` first and then `server.out`, are a path (`Path`) from `H` to
  the server's tree: each is `Legal` in the tree the messages before it lead to (what is
  spawned is not there, what is taken is held by nobody and its taker is there,
  what is rejected is held by that owner or by nobody, what is destroyed is
  neither held nor holds anything) and leads to the next. "Or by nobody" is a
  refusal: the client has not attached the item, so the path through the messages
  already sent starts one tree lower, and their first take, reject or destruction of
  the item is legal from there as well (`Dropped`).
- Three more facts go with the path. An id that the client or a message still
  speaks of, and whose entity is gone, belongs to a block that has not rested (`Aged`):
  so `Process_spawn()` does not choose it. What a message on its way destroys is not spawned
  behind it (`Fresh`), and is gone from the server or went offline in this very
  update (`Dead`, with `visited`): so an object that is dying is not
  spawned into, and what ALife may put online has no object left.
- The server's handlers come first, one lemma each: whatever messages are on their
  way before a handler, the path goes on to the tree after it (`Follows`, which chains,
  so that recursive destruction and both switches are carried along their folds).
  The client's handlers then take the first message off the path (`Landed` when an
  object arrives or is taken). `ClientGood` says that `map_NETID` and the objects name each
  other, that the destroy queue is the dying objects, and that these
  neither hold nor are held.
- A lost object is never given to an owner again before its end: `Given` and `K.shown` in
  `Told` say that the server takes only what the client shows, since
  `is_object_valid_on_svclient()` asks the client's object (`Valid`). So a take always
  finds its item, and only a reject or a destruction may find none.
- `WorldTyped`, `MapExactHolds`, `AttachedLiveHolds`: from `ClientGood`. `EventsFindItemHolds`: the first
  message is legal in `H`, so that it finds its item unless that is lost.
  `OfflineIsGoneHolds`: from `Dead`. `ReplicaHolds`: along a path `Replay` computes the tree
  it leads to (`PathReplays`; the path solves the recursion of `Replayed`), and it does so
  as well from the tree without the lost objects, but for these (`HiddenReplays`). `FreshIdsHolds`, if `MaxAge >= 2`: from `Aged`. An id is spoken of for up to two
  frames after it was given back, in the frame its message was sent and in the one
  it is received, so that an age of 1 would not do.
- `WorldImplementsMirror`: `WorldSync` implements `WorldMirror`. A path that goes on tells what
  changes behind its first part (`PathSplit`, `PathGoesOn`): so it is enough that the
  path before a step is the beginning of the path after it. For requests and switches
  that is `Sends` (what has been sent stays sent, a part of `Follows`), and that the client
  shows the same (`RequestUnseen`). For the frame, that the destroy queue only deletes what is not
  shown any more, and that `NextFrame` moves messages without changing their order. For a
  message, that its handler ends in the tree the message leads to, without what is lost
  (`HandledView`), or has lost its object, or has refused and rejected (`Answered`).

Assumptions: the constants' named ASSUMEs in `TaskQueue`, `WorkerPool`, `TaskTree`,
`Scheduler`, `EngineFrame`, `IdGenerator`, `EntityServer` and `WorldSync`, which TLC
evaluates (threads, objects and blocks are finite sets, since the code keeps them
in vectors and arrays; blocks are not empty and do not meet; every id can have its
object, since an allocation that fails ends the program; the null values are none
of the others, and the names "root" and "gone" of the view are no ids; bounds are numbers), and the provisos named above: `Spare > 0`,
`~DrainedWait`, `~EraseInLoop`, `Quiesced`, `MaxAge >= 2` and the bound of `NotLateHolds`.

Only model-checked: the liveness properties (`ShutdownCompletes`, `WaitServed`,
`AllTasksFinish`, `NoStarvation`, `StaleObjectsGo`) and the fairness they need, which are outside
the prover's reach. Every other property of a passing run is stated by a theorem.

## 5. What is not modelled

- *Weak memory.* All models are sequentially consistent. Three places of the
  task manager look too weak for ARM64 (hazards at TaskManager.cpp:98, :206,
  :215); no property here speaks about them.
- `GetData()` results, statistics, SDL event pumping in `Wait()`, timed waits.
- The scheduler's interval arithmetic and load feedback: an arbitrary period and
  an arbitrary end of the loop after every third item.
- Two heap items without an object and with the same time count as one.
- `WorkerPool` with `DrainedWait = TRUE` (a task body that waits while its thread
  is leaving) violates `VectorStable`; no such body is known, so it stays a
  bound.
- `WorldSync`: several clients and everything only they need (migration, phantoms,
  respawn); `SLS_Clear()` and `Unload()`, where the level ends; `GE_DESTROY_REJECT`,
  ammunition transfer and the other game events; the ALife graph, the offline life,
  registries other than the children lists; owners inside owners; the death of the
  actor. A block of ids is a set: the code takes the id given back last first.
  `release()` of an offline box that holds an unsaved item (alife_dynamic_object.cpp:244)
  steps its loop back past the item without dropping it from the list; the switch
  manager has taken such items out before, so the branch is not modelled.
  `remove_online()` takes unsaved items out for the owners that are
  `CSE_ALifeTraderAbstract` only (alife_switch_manager.cpp:83-89); the model does so for
  every owner. Boxes keep theirs until `add_offline()` (alife_dynamic_object.cpp:219-259);
  of the items only bolts have `can_save()` false, and no box holds one.
- Of failing spawns: `net_Spawn()` is modelled as failing by its taken id or its script
  binder. `CInventoryOwner::net_Spawn()` also fails when the entity is not of the
  server class it belongs to (InventoryOwner.cpp:91-114), which the object factory
  excludes, and `CInventoryBox::net_Spawn()` ignores what its base class returns
  (InventoryBox.cpp:82-98), so that it spawns where the model may fail. The actor's own
  spawn succeeds. A box whose reject finds no item follows a null pointer
  after its VERIFY; the model goes on. In builds with assertions `net_Destroy()` of the failed object
  stops at VERIFY(getDestroy()) (GameObject.cpp:289). The bolts that
  `spawn_supplies()` requests from inside `net_Spawn()` (GameObject.cpp:605) are requested in
  `RequestSpawn`, after the messages of the frame.
- `EngineFrame`: the message registries that carry the frame; precaching; the other
  clients of `seqParallel` (object handler, map, bullets, sounds, ALife's update),
  which queue themselves once a frame as the sound player does; relcase callbacks;
  attachments of attachments; `Props`, whose bit fields the code writes from two
  threads, is a record whose fields are written apart. Only unattached objects are
  marked for destruction, which `WorldSync` justifies (`AttachedLive`).
- `PathBuilder`: paths over the game graph and along patrols, which end in the same
  two builders; `enable_movement()`, which only lets steps happen or not.
- The rest of the game (weapons, user interface, scripts, the behaviour of creatures)
  is content written as code, and the rest of the engine numeric code, drawing or
  I/O; `PROJECT.json` lists each part with its reason.

## 6. Plan

Extend, in this order:
1. `MessageRegistry` (pure.h): Add and Remove inside Process, capture, nested
   Process; abstract specification: a set of handlers with priorities, each
   called once per Process.
2. `SoundPrefill` (SoundRender_Emitter.cpp) over the cells of `TaskTree`.
3. `EventApi`; game and patrol paths in `PathBuilder`; the end of a level
   (`SLS_Clear()`, `Unload()`) in `WorldSync`.

Prove:
1. The scheduler's abstract specification (below), refined by `Scheduler`.
2. What the modules to come state.

Abstract specifications worth stating: the scheduler's (a set of registered
objects, updates of members only). The task queue's and the world's are stated and
their refinement is proved.
