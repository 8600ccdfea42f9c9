---------------------------- MODULE EngineFrame -----------------------------
(***************************************************************************)
(* One frame of CRenderDevice::ProcessFrame() after another, as the        *)
(* objects of the level see it:                                            *)
(*    "events"   the scheduler's updates, then the messages of the frame   *)
(*    "update"   CObjectList::Update(): UpdateCL() of the "crows"          *)
(*    "destroy"  the destroy queue, in the rest of Update()                *)
(*    "render"   DoRender(), in several tasks, beside the task that runs   *)
(*               Device.seqParallel                                        *)
(* An object is updated in a frame only if something made it a crow since  *)
(* the update before: MakeMeCrow() puts it into the list of the worker     *)
(* that calls it, and render tasks call it for one object at once.         *)
(***************************************************************************)
EXTENDS PathBuilder, FiniteSets

CONSTANTS
    Objects,    \* the addresses of client objects
    Workers,    \* the threads of the task manager
    Main,       \* the main thread
    null,
    MaxActive,  \* bound on bActiveCounter
    MaxEvents   \* bound on the events of one frame

ASSUME FrameAssumption ==
    /\ Movers \subseteq Objects /\ Main \in Workers /\ null \notin Objects
    /\ IsFiniteSet(Workers)
    /\ MaxActive \in Nat \ {0} /\ MaxEvents \in Nat

VARIABLES
    obj,                \* the objects
    m_primary_crows, m_secondary_crows,
    workload,           \* Update()'s copy of the crows, the part still ahead
    destroy_queue,
    path,               \* the movement managers and Device.seqParallel
    phase,
    rendering,          \* where each worker is in MakeMeCrow(), of which object
    events,             \* how many events this frame may still have
    due, owed           \* history: the objects made crows since the last
                        \* Update(), and those of them it has yet to update

lists == <<m_primary_crows, m_secondary_crows>>
vars == <<obj, lists, workload, destroy_queue, path, phase, rendering, events, due, owed>>

\* asCrow: dwFrame_AsCrow is this frame; updated: dwFrame_UpdateCL is; scheduled:
\* the scheduler has updated the object in this frame.
NoObject == [list |-> "none", active |-> 0, parent |-> null, bDestroy |-> FALSE,
             crow |-> FALSE, asCrow |-> FALSE, updated |-> FALSE, scheduled |-> FALSE]
Idle == [at |-> "idle", obj |-> null]

Exists(o) == o \in Objects /\ obj[o].list # "none"
Alive == {o \in Objects : Exists(o)}
processing_enabled(o) == obj[o].active > 0

Init ==
    /\ obj = [o \in Objects |-> NoObject]
    /\ m_primary_crows = <<>>
    /\ m_secondary_crows = [w \in Workers |-> <<>>]
    /\ workload = <<>> /\ destroy_queue = <<>>
    /\ path = [mm |-> [o \in Movers |-> NewManager(FALSE)], seqParallel |-> <<>>]
    /\ phase = "events"
    /\ rendering = [w \in Workers |-> Idle]
    /\ events = MaxEvents
    /\ due = {} /\ owed = {}

-----------------------------------------------------------------------------
(* MakeMeCrow() and the processing lists, on the main thread *)

\* The objects and the main thread's crows, after one operation.
World == [obj |-> obj, crows |-> m_secondary_crows[Main], due |-> due]

MakeMeCrow(s, o) ==
    LET t == IF s.obj[o].active = 0 THEN s ELSE [s EXCEPT !.due = @ \union {o}]
    IN  IF s.obj[o].crow \/ s.obj[o].active = 0 \/ s.obj[o].asCrow THEN t
        ELSE [t EXCEPT !.obj[o].crow = TRUE, !.obj[o].asCrow = TRUE, !.crows = Append(@, o)]

\* o_activate() at the first call, o_sleep() at the last.
processing_activate(s, o) ==
    LET t == [s EXCEPT !.obj[o].active = @ + 1]
    IN  IF s.obj[o].active = 0 THEN MakeMeCrow([t EXCEPT !.obj[o].list = "active"], o) ELSE t
processing_deactivate(s, o) ==
    LET t == [s EXCEPT !.obj[o].active = @ - 1]
    IN  IF s.obj[o].active = 1
        THEN [t EXCEPT !.obj[o].list = "sleeping", !.due = @ \ {o}] ELSE t

Becomes(s) ==
    /\ obj' = s.obj
    /\ m_secondary_crows' = [m_secondary_crows EXCEPT ![Main] = s.crows]
    /\ due' = s.due

-----------------------------------------------------------------------------
(* Events *)

Event ==
    /\ phase = "events" /\ events > 0
    /\ events' = events - 1
    /\ UNCHANGED <<m_primary_crows, workload, phase, rendering, owed>>

\* CObjectList::Create() and net_Spawn().
Spawn(o) ==
    /\ ~Exists(o)
    /\ LET s == processing_activate([World EXCEPT !.obj[o] = [NoObject EXCEPT !.list = "sleeping"]], o)
       IN  Becomes(MakeMeCrow(s, o))
    /\ path' \in IF o \in Movers
                 THEN {[path EXCEPT !.mm[o] = NewManager(delay)] : delay \in BOOLEAN} ELSE {path}
    /\ UNCHANGED destroy_queue
    /\ Event

\* H_SetParent(); creatures and the owners of others are not attached.
SetParent(o, p) ==
    /\ Exists(o) /\ Exists(p) /\ o \notin Movers /\ o # p
    /\ ~obj[o].bDestroy /\ ~obj[p].bDestroy
    /\ obj[p].parent = null /\ \A c \in Alive : obj[c].parent # o
    /\ \E q \in {p, null} :
          /\ obj[o].parent = (IF q = p THEN null ELSE p)
          /\ Becomes(MakeMeCrow([World EXCEPT !.obj[o].parent = q], o))
    /\ UNCHANGED <<destroy_queue, path>>
    /\ Event

\* Physics, attachment and hiding turn an object's processing on and off; a
\* creature's is left on here.
Activate(o) ==
    /\ Exists(o) /\ o \notin Movers /\ obj[o].active < MaxActive
    /\ Becomes(processing_activate(World, o))
    /\ UNCHANGED <<destroy_queue, path>>
    /\ Event

\* Mutant: a caller that has not turned it on turns it off.
DeactivateUnbalanced(o) ==
    /\ Exists(o) /\ o \notin Movers
    /\ Becomes(processing_deactivate(World, o))
    /\ UNCHANGED <<destroy_queue, path>>
    /\ Event

Deactivate(o) ==
    /\ Exists(o) /\ o \notin Movers /\ obj[o].active > 0
    /\ Becomes(processing_deactivate(World, o))
    /\ UNCHANGED <<destroy_queue, path>>
    /\ Event

\* GE_DESTROY: the object is not attached and nothing is attached to it.
setDestroy(o) ==
    /\ Exists(o) /\ ~obj[o].bDestroy
    /\ obj[o].parent = null /\ \A c \in Alive : obj[c].parent # o
    /\ obj' = [obj EXCEPT ![o].bDestroy = TRUE]
    /\ destroy_queue' = Append(destroy_queue, o)
    /\ UNCHANGED <<m_secondary_crows, path, due>>
    /\ Event

\* Think(): a creature's planner may clear its path; then it asks for one.
Thinks(o) ==
    LET cleared == {path} \union (IF path.mm[o].delay THEN {} ELSE {clear_path(path, o)})
        asked == {set_path_type(p, o, type) : p \in cleared, type \in {"NoPath", "LevelPath"}}
    IN  UNION {update_path(p, o, obj[o].bDestroy) : p \in asked}
shedule_Update(o) ==
    /\ Exists(o) /\ ~obj[o].scheduled
    /\ path' \in IF o \in Movers THEN Thinks(o) ELSE {path}
    /\ Becomes(MakeMeCrow([World EXCEPT !.obj[o].scheduled = TRUE], o))
    /\ UNCHANGED destroy_queue
    /\ Event

\* A space restriction is added to or taken from a creature.
RestrictionsChange(o) ==
    /\ o \in Movers /\ Exists(o)
    /\ path' = on_restrictions_change(path, o)
    /\ UNCHANGED <<obj, m_secondary_crows, destroy_queue, due>>
    /\ Event

ObjectEvent ==
    \E o \in Objects :
       \/ Spawn(o) \/ Activate(o) \/ Deactivate(o)
       \/ setDestroy(o) \/ shedule_Update(o) \/ RestrictionsChange(o)
       \/ \E p \in Objects : SetParent(o, p)

-----------------------------------------------------------------------------
(* CObjectList::Update() *)

\* What the workers have collected, in the order of their ids.
Collected ==
    LET ws == SetToSeq(Workers)
    IN  m_primary_crows \o FlattenSeq([i \in DOMAIN ws |-> m_secondary_crows[ws[i]]])

\* Mutant: the flag is cleared and the frame is kept.
ClearFlag(r) == [r EXCEPT !.crow = FALSE]

\* IAmNotACrowAnyMore() and SetCrowUpdateFrame(u32(-1)).
IAmNotACrowAnyMore(r) == [r EXCEPT !.crow = FALSE, !.asCrow = FALSE]

AfterUpdate == IF destroy_queue = <<>> THEN "render" ELSE "destroy"

\* While the game is paused, or no time has gone by, crows are only collected.
CollectCrows ==
    /\ phase = "events"
    /\ m_secondary_crows' = [w \in Workers |-> <<>>]
    /\ \/ /\ m_primary_crows' = Collected
          /\ phase' = AfterUpdate
          /\ UNCHANGED <<obj, workload, due, owed>>
       \/ /\ m_primary_crows' = <<>>
          /\ workload' = Collected
          /\ obj' = [o \in Objects |->
                       IF Contains(Collected, o) THEN IAmNotACrowAnyMore(obj[o]) ELSE obj[o]]
          /\ due' = {} /\ owed' = due
          /\ phase' = IF Collected = <<>> THEN AfterUpdate ELSE "update"
    /\ UNCHANGED <<destroy_queue, path, rendering, events>>

\* UpdateCL(), after SetUpdateFrame(): a creature follows its path and queues its
\* sound player; other objects may turn their processing off.
UpdateCL(o) ==
    LET s == [World EXCEPT !.obj[o].updated = TRUE]
        crow == {s, MakeMeCrow(s, o)}
        asleep == IF o \in Movers THEN {}
                  ELSE {processing_deactivate(t, o) : t \in crow}
    IN  /\ \E t \in crow \union asleep : Becomes(t)
        /\ path' \in IF o \in Movers
                     THEN {Queue(p, o, "sound") : p \in on_frame(path, o, obj[o].bDestroy)}
                     ELSE {path}

\* Mutant: the parent is updated with the child, whether it was already or not.
UpdatesAgain(o) == processing_enabled(o)

Updates(o) == ~obj[o].updated /\ processing_enabled(o)

\* SingleUpdate() of the next object: its parent first.
SingleUpdate ==
    /\ phase = "update"
    /\ LET o == Head(workload)
           p == obj[o].parent
           next == IF Updates(o) /\ p # null /\ Updates(p) THEN p ELSE o
       IN  /\ workload' = IF next = o THEN Tail(workload) ELSE workload
           /\ phase' = IF workload = <<next>> THEN AfterUpdate ELSE phase
           /\ IF Updates(next)
              THEN UpdateCL(next) /\ owed' = owed \ {next}
              ELSE UNCHANGED <<obj, m_secondary_crows, path, due, owed>>
    /\ UNCHANGED <<m_primary_crows, destroy_queue, rendering, events>>

\* net_Destroy() of a creature.
Forgotten(o) ==
    LET p == remove(remove(path, o, "level"), o, "detail")
    IN  [p EXCEPT !.seqParallel = RemoveFirst(@, Delegate(o, "sound")), !.mm[o] = NewManager(FALSE)]

\* Mutant: the objects that were crows in the last paused frame are forgotten.
DestroySecondary(o) ==
    /\ m_secondary_crows' = [w \in Workers |-> RemoveFirst(m_secondary_crows[w], o)]
    /\ UNCHANGED m_primary_crows

\* What CObjectList::Destroy() does to the crows.
RemoveCrow(o) ==
    /\ m_primary_crows' = RemoveFirst(m_primary_crows, o)
    /\ m_secondary_crows' = [w \in Workers |-> RemoveFirst(m_secondary_crows[w], o)]

DestroyLast ==
    /\ phase = "destroy"
    /\ LET o == Last(destroy_queue)
       IN  /\ path' = IF o \in Movers THEN Forgotten(o) ELSE path
           /\ RemoveCrow(o)
           /\ obj' = [obj EXCEPT ![o] = NoObject]
           /\ due' = due \ {o} /\ owed' = owed \ {o}
    /\ destroy_queue' = Front(destroy_queue)
    /\ phase' = IF Len(destroy_queue) = 1 THEN "render" ELSE "destroy"
    /\ UNCHANGED <<workload, rendering, events>>

-----------------------------------------------------------------------------
(* Rendering *)

Rendering(w, at, o) ==
    /\ phase = "render"
    /\ rendering' = [rendering EXCEPT ![w] = [at |-> at, obj |-> o]]
    /\ UNCHANGED <<m_primary_crows, workload, destroy_queue, path, phase, events, owed>>

\* renderable_Render() calls MakeMeCrow(), which reads the flag and the frame.
Render(w, o) ==
    /\ rendering[w] = Idle /\ Exists(o)
    /\ obj[o].parent = null /\ processing_enabled(o)
    /\ ~obj[o].crow /\ ~obj[o].asCrow
    /\ due' = due \union {o}
    /\ Rendering(w, "exchange", o)
    /\ UNCHANGED <<obj, m_secondary_crows>>

\* Mutant: a plain store in place of compare_exchange_strong().
Store(w) ==
    /\ rendering[w].at = "exchange"
    /\ Rendering(w, "push", rendering[w].obj)
    /\ obj' = [obj EXCEPT ![rendering[w].obj].asCrow = TRUE]
    /\ UNCHANGED <<m_secondary_crows, due>>

\* compare_exchange_strong(): one of the workers gets on.
Exchange(w) ==
    /\ rendering[w].at = "exchange"
    /\ LET o == rendering[w].obj IN
          IF obj[o].asCrow
          THEN Rendering(w, "idle", null) /\ UNCHANGED obj
          ELSE Rendering(w, "push", o) /\ obj' = [obj EXCEPT ![o].asCrow = TRUE]
    /\ UNCHANGED <<m_secondary_crows, due>>

\* o_crow(), into the worker's own list.
Push(w) ==
    /\ rendering[w].at = "push"
    /\ m_secondary_crows' = [m_secondary_crows EXCEPT ![w] = Append(@, rendering[w].obj)]
    /\ Rendering(w, "flag", rendering[w].obj)
    /\ UNCHANGED <<obj, due>>

Flag(w) ==
    /\ rendering[w].at = "flag"
    /\ obj' = [obj EXCEPT ![rendering[w].obj].crow = TRUE]
    /\ Rendering(w, "idle", null)
    /\ UNCHANGED <<m_secondary_crows, due>>

\* The next delegate of seqParallel.
RunParallel ==
    /\ phase = "render" /\ path.seqParallel # <<>>
    /\ LET d == Head(path.seqParallel)
           p == [path EXCEPT !.seqParallel = Tail(@)]
       IN  path' \in CASE d.fn = "level" -> level_process(p, d.obj)
                       [] d.fn = "detail" -> detail_process(p, d.obj)
                       [] d.fn = "sound" -> {p}
    /\ UNCHANGED <<obj, lists, workload, destroy_queue, phase, rendering, events, due, owed>>

\* Both have ended; time_to_wait_after_fail may have gone by.
NextFrame ==
    /\ phase = "render" /\ path.seqParallel = <<>>
    /\ \A w \in Workers : rendering[w] = Idle
    /\ phase' = "events" /\ events' = MaxEvents
    /\ obj' = [o \in Objects |-> [obj[o] EXCEPT !.asCrow = FALSE, !.updated = FALSE,
                                            !.scheduled = FALSE]]
    /\ \E late \in SUBSET {o \in Movers : path.mm[o].failed} :
          path' = [path EXCEPT !.mm = [o \in Movers |->
                     IF o \in late THEN [@[o] EXCEPT !.failed = FALSE] ELSE @[o]]]
    /\ UNCHANGED <<lists, workload, destroy_queue, rendering, due, owed>>

FrameStep ==
    \/ CollectCrows \/ SingleUpdate \/ DestroyLast
    \/ \E w \in Workers : Exchange(w) \/ Push(w) \/ Flag(w)
    \/ RunParallel \/ NextFrame

Next == ObjectEvent \/ (\E w \in Workers, o \in Objects : Render(w, o)) \/ FrameStep

\* ProcessFrame() runs again and again, and waits for its tasks.
Spec == Init /\ [][Next]_vars /\ WF_vars(FrameStep)

-----------------------------------------------------------------------------
(* Properties *)

\* The type invariant.
TypeOK ==
    /\ obj \in [Objects -> [list : {"none", "sleeping", "active"}, active : 0 .. MaxActive,
                            parent : Objects \union {null}, bDestroy : BOOLEAN,
                            crow : BOOLEAN, asCrow : BOOLEAN, updated : BOOLEAN,
                            scheduled : BOOLEAN]]
    /\ m_primary_crows \in Seq(Objects) /\ workload \in Seq(Objects)
    /\ m_secondary_crows \in [Workers -> Seq(Objects)]
    /\ destroy_queue \in Seq(Objects)
    /\ path.mm \in [Movers -> Managers] /\ path.seqParallel \in Seq(Delegates)
    /\ phase \in {"events", "update", "destroy", "render"}
    /\ rendering \in [Workers -> [at : {"idle", "exchange", "push", "flag"},
                                  obj : Objects \union {null}]]
    /\ events \in 0 .. MaxEvents
    /\ due \subseteq Objects /\ owed \subseteq Objects

Occurrences(s, x) == Cardinality({i \in DOMAIN s : s[i] = x})

\* VERIFY(unique) of Update() and of o_crow(): an object is in the crows exactly
\* once while its flag says so (or is about to), else not at all: whichever
\* workers render it at once, and whatever was collected in paused frames.
CrowExact ==
    \A o \in Objects :
       Occurrences(Collected, o) =
          IF \/ obj[o].crow
             \/ \E w \in Workers : rendering[w] = [at |-> "flag", obj |-> o] THEN 1 ELSE 0

\* What has been destroyed is in no list that Update() or seqParallel will call.
NoneDangling ==
    /\ \A o \in Range(Collected) \union Range(workload) \union Range(destroy_queue) : Exists(o)
    /\ \A d \in Range(path.seqParallel) : Exists(d.obj)
    /\ \A o \in Alive : obj[o].parent # null => Exists(obj[o].parent)

\* GameObject.cpp: "Makes sure that update-cl called at least with freq of
\* shedule-update": an object made a crow while its processing is on, and left on,
\* is updated by the end of the next Update() that is not paused.
UpdatedInTime == phase # "update" => owed = {}

\* VERIFY(I == Device.seqParallel.end()): a delegate is queued at most once in a
\* frame, so that erasing the first one at net_Destroy() erases it.
DelegateOnce == \A d \in Delegates : Occurrences(path.seqParallel, d) <= 1

\* default: NODEFAULT of process_level_path(), which a result that comes late, for
\* an order that has been changed since, must not lead to.
NoDefault ==
    \A o \in Movers :
       (path.mm[o].type = "LevelPath" /\ path.mm[o].actual) => path.mm[o].state # "Dummy"

\* A stalker that waits for its path goes on.  A monster, whose builder uses the
\* delay, may wait for ever.
WaitServed ==
    \A o \in Movers : (path.mm[o].wait /\ ~path.mm[o].delay) ~> ~path.mm[o].wait

=============================================================================
