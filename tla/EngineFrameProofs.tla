------------------------- MODULE EngineFrameProofs --------------------------
(***************************************************************************)
(* Two of the assertions around Device.seqParallel, whatever the objects,  *)
(* workers and creatures.  A result that comes in whichever frame, for an  *)
(* order that has been changed or withdrawn since, leaves a movement       *)
(* manager in a state its switch knows; and no delegate is queued twice.   *)
(* The operators of PathBuilder are taken one by one for each.             *)
(***************************************************************************)
EXTENDS EngineFrame, SequenceFacts, FiniteSetTheorems

Paths == [mm : [Movers -> Managers], seqParallel : Seq(Delegates)]

\* A manager that process_level_path() may be called for has left "Dummy".
KnownState(m) == (m.type = "LevelPath" /\ m.actual) => m.state # "Dummy"

\* The inductive invariant, of the part of the state the builders change.
GoodPath(p) == p \in Paths /\ \A o \in Movers : KnownState(p.mm[o])

Inv == GoodPath(path)

-----------------------------------------------------------------------------
(* One field of one manager; the queue of delegates *)

LEMMA ManagerGood ==
    ASSUME NEW p, GoodPath(p), NEW o \in Movers, NEW m \in Managers, KnownState(m)
    PROVE  GoodPath([p EXCEPT !.mm[o] = m])
BY DEF GoodPath, Paths

LEMMA StateGood ==
    ASSUME NEW p, GoodPath(p), NEW o \in Movers, NEW s \in PathStates \ {"Dummy"}
    PROVE  GoodPath(State(p, o, s))
BY SMTT(30) DEF GoodPath, Paths, Managers, KnownState, State

LEMMA WaitsGood ==
    ASSUME NEW p, GoodPath(p), NEW o \in Movers, NEW b \in BOOLEAN
    PROVE  GoodPath(Waits(p, o, b)) /\ Waits(p, o, b).mm[o].state = p.mm[o].state
BY DEF GoodPath, Paths, Managers, KnownState, Waits

LEMMA SeqGood ==
    ASSUME NEW p, GoodPath(p), NEW s \in Seq(Delegates)
    PROVE  GoodPath([p EXCEPT !.seqParallel = s])
BY DEF GoodPath, Paths

LEMMA QueueGood ==
    ASSUME NEW p, GoodPath(p), NEW o \in Movers, NEW fn \in {"level", "detail", "sound"}
    PROVE  GoodPath(Queue(p, o, fn))
<1>1. Delegate(o, fn) \in Delegates
  BY DEF Delegate, Delegates
<1>2. Append(p.seqParallel, Delegate(o, fn)) \in Seq(Delegates)
  BY <1>1, AppendProperties DEF GoodPath, Paths
<1> QED
  BY <1>2, SeqGood DEF Queue

-----------------------------------------------------------------------------
(* The builders *)

LEMMA RegisterGood ==
    ASSUME NEW p, GoodPath(p), NEW o \in Movers, NEW fn \in {"level", "detail"}
    PROVE  GoodPath(register_to_process(p, o, fn))
BY WaitsGood, QueueGood DEF register_to_process

LEMMA RemoveGood ==
    ASSUME NEW p, GoodPath(p), NEW o \in Movers, NEW fn \in {"level", "detail", "sound"}
    PROVE  GoodPath(remove(p, o, fn))
<1>1. GoodPath(Waits(p, o, FALSE))
  BY WaitsGood
<1>2. RemoveFirst(Waits(p, o, FALSE).seqParallel, Delegate(o, fn)) \in Seq(Delegates)
  BY <1>1, RemoveFirstSeq DEF GoodPath, Paths
<1> QED
  BY <1>1, <1>2, SeqGood DEF remove

LEMMA BuildDetailGood ==
    ASSUME NEW p, GoodPath(p), NEW o \in Movers, NEW q \in BuildDetail(p, o)
    PROVE  GoodPath(q)
BY StateGood DEF BuildDetail, PathStates

LEMMA DetailProcessGood ==
    ASSUME NEW p, GoodPath(p), NEW o \in Movers, NEW q \in detail_process(p, o)
    PROVE  GoodPath(q)
BY WaitsGood, BuildDetailGood DEF detail_process

\* A path that is not found leaves the level builder where it was.
LEMMA LevelProcessImplGood ==
    ASSUME NEW p, GoodPath(p), NEW o \in Movers, NEW q \in level_process_impl(p, o)
    PROVE  GoodPath(q)
<1> DEFINE w == Waits(p, o, FALSE)
           b == State(w, o, "BuildLevelPath")
           f == [b EXCEPT !.mm[o].failed = @ \/ p.mm[o].delay]
<1>1. GoodPath(w)
  BY WaitsGood
<1>2. GoodPath(b)
  BY <1>1, StateGood DEF PathStates
<1>3. GoodPath(f)
  <2> DEFINE m == [b.mm[o] EXCEPT !.failed = @ \/ p.mm[o].delay]
  <2> HIDE DEF b
  <2>1. b.mm[o] \in Managers /\ KnownState(b.mm[o]) /\ p.mm[o].delay \in BOOLEAN
    BY <1>2 DEF GoodPath, Paths, Managers
  <2>2. m \in Managers /\ KnownState(m)
    BY <2>1 DEF Managers, KnownState
  <2>3. f = [b EXCEPT !.mm[o] = m]
    BY <1>2 DEF GoodPath, Paths, Managers
  <2> QED
    BY <1>2, <2>2, <2>3, ManagerGood
<1>4. CASE q \in BuildDetail(w, o)
  BY <1>1, <1>4, BuildDetailGood
<1> QED
  BY <1>3, <1>4 DEF level_process_impl

LEMMA LevelProcessGood ==
    ASSUME NEW p, GoodPath(p), NEW o \in Movers, NEW q \in level_process(p, o)
    PROVE  GoodPath(q)
BY LevelProcessImplGood DEF level_process

-----------------------------------------------------------------------------
(* The state machine of the movement manager *)

LEMMA BuildLevelPathGood ==
    ASSUME NEW p, GoodPath(p), NEW o \in Movers, NEW dying,
           NEW q \in build_level_path(p, o, dying)
    PROVE  GoodPath(q)
<1>1. CASE q \in level_process_impl(p, o)
  BY <1>1, LevelProcessImplGood
<1>2. ASSUME NEW r \in level_process_impl(p, o), q \in detail_process(r, o)
      PROVE  GoodPath(q)
  BY <1>2, LevelProcessImplGood, DetailProcessGood
<1>3. CASE q = register_to_process(p, o, "level")
  BY <1>3, RegisterGood
<1>4. CASE q \in UNION {detail_process(r, o) : r \in level_process_impl(p, o)}
  <2>1. PICK r \in level_process_impl(p, o) : q \in detail_process(r, o)
    BY <1>4
  <2> QED
    BY <1>2, <2>1
<1> QED
  BY <1>1, <1>3, <1>4 DEF build_level_path

LEMMA BuildDetailPathGood ==
    ASSUME NEW p, GoodPath(p), NEW o \in Movers, NEW dying,
           NEW q \in build_detail_path(p, o, dying)
    PROVE  GoodPath(q)
<1>1. GoodPath(State(p, o, "BuildDetailPath"))
  BY StateGood DEF PathStates
<1> QED
  BY <1>1, DetailProcessGood, RegisterGood DEF build_detail_path

LEMMA ProcessLevelPathGood ==
    ASSUME NEW p, GoodPath(p), NEW o \in Movers, NEW dying,
           NEW q \in process_level_path(p, o, dying)
    PROVE  GoodPath(q)
<1> DEFINE Switch(r) ==
            CASE r.mm[o].state = "BuildLevelPath" -> build_level_path(r, o, dying)
              [] r.mm[o].state \in {"ContinueLevelPath", "BuildDetailPath"} ->
                    build_detail_path(r, o, dying)
              [] r.mm[o].state = "PathVerification" ->
                    {State(r, o, s) : s \in {"PathVerification", "BuildLevelPath",
                                             "ContinueLevelPath", "PathCompleted"}}
              [] r.mm[o].state = "PathCompleted" ->
                    {State(r, o, s) : s \in {"PathCompleted", "BuildLevelPath"}}
              [] OTHER -> {r}
<1>1. ASSUME NEW r, GoodPath(r), q \in Switch(r)
      PROVE  GoodPath(q)
  <2>1. CASE r.mm[o].state = "BuildLevelPath"
    BY <1>1, <2>1, BuildLevelPathGood
  <2>2. CASE r.mm[o].state \in {"ContinueLevelPath", "BuildDetailPath"}
    BY <1>1, <2>2, BuildDetailPathGood
  <2>3. CASE r.mm[o].state = "PathVerification"
    BY <1>1, <2>3, StateGood DEF PathStates
  <2>4. CASE r.mm[o].state = "PathCompleted"
    BY <1>1, <2>4, StateGood DEF PathStates
  <2>5. CASE r.mm[o].state \notin {"BuildLevelPath", "ContinueLevelPath", "BuildDetailPath",
                                   "PathVerification", "PathCompleted"}
    BY <1>1, <2>5
  <2> QED
    BY <2>1, <2>2, <2>3, <2>4, <2>5
<1>2. GoodPath(State(p, o, "BuildLevelPath"))
  BY StateGood DEF PathStates
<1>3. q \in Switch(p) \/ q \in Switch(State(p, o, "BuildLevelPath"))
  BY DEF process_level_path
<1> HIDE DEF Switch
<1> QED
  BY <1>1, <1>2, <1>3

\* The state machine starts again, in a state for the type of the path.
LEMMA RestartGood ==
    ASSUME NEW p, GoodPath(p), NEW o \in Movers
    PROVE  GoodPath(Restart(p, o))
<1> DEFINE s == IF p.mm[o].type = "NoPath" THEN "Dummy" ELSE "BuildLevelPath"
           m == [p.mm[o] EXCEPT !.state = s, !.actual = TRUE]
<1>1. p.mm[o] \in Managers
  BY DEF GoodPath, Paths
<1>2. m \in Managers /\ KnownState(m)
  BY <1>1 DEF Managers, KnownState, PathStates
<1>3. Restart(p, o) = [p EXCEPT !.mm[o] = m]
  BY DEF Restart, State, GoodPath, Paths, Managers
<1> QED
  BY <1>2, <1>3, ManagerGood

LEMMA UpdatePathGood ==
    ASSUME NEW p, GoodPath(p), NEW o \in Movers, NEW dying,
           NEW q \in update_path(p, o, dying)
    PROVE  GoodPath(q)
BY RestartGood, ProcessLevelPathGood DEF update_path

LEMMA OnFrameGood ==
    ASSUME NEW p, GoodPath(p), NEW o \in Movers, NEW dying,
           NEW q \in on_frame(p, o, dying)
    PROVE  GoodPath(q)
BY UpdatePathGood DEF on_frame

\* A new type asks for a new path, so the old one is not actual.
LEMMA SetPathTypeGood ==
    ASSUME NEW p, GoodPath(p), NEW o \in Movers, NEW type \in {"NoPath", "LevelPath"}
    PROVE  GoodPath(set_path_type(p, o, type))
<1> DEFINE m == [p.mm[o] EXCEPT !.type = type, !.actual = @ /\ p.mm[o].type = type]
<1>1. p.mm[o] \in Managers /\ KnownState(p.mm[o])
  BY DEF GoodPath, Paths
<1>2. m \in Managers /\ KnownState(m)
  BY <1>1 DEF Managers, KnownState
<1>3. set_path_type(p, o, type) = [p EXCEPT !.mm[o] = m]
  BY DEF set_path_type, GoodPath, Paths, Managers
<1> QED
  BY <1>2, <1>3, ManagerGood

LEMMA RestrictionsGood ==
    ASSUME NEW p, GoodPath(p), NEW o \in Movers
    PROVE  GoodPath(on_restrictions_change(p, o))
<1> DEFINE r == remove(remove(p, o, "level"), o, "detail")
<1>1. GoodPath(r)
  BY RemoveGood
<1>2. on_restrictions_change(p, o) = [r EXCEPT !.mm[o].actual = FALSE]
  BY DEF on_restrictions_change
<1> DEFINE m == [r.mm[o] EXCEPT !.actual = FALSE]
<1> HIDE DEF r
<1>3. r.mm[o] \in Managers
  BY <1>1 DEF GoodPath, Paths
<1>4. m \in Managers /\ KnownState(m)
  BY <1>3 DEF Managers, KnownState
<1>5. on_restrictions_change(p, o) = [r EXCEPT !.mm[o] = m]
  BY <1>1, <1>2 DEF GoodPath, Paths
<1> HIDE DEF m
<1> QED
  BY <1>1, <1>4, <1>5, ManagerGood

-----------------------------------------------------------------------------
(* The frame *)

LEMMA ThinksGood ==
    ASSUME NEW o \in Movers, Inv, NEW q \in Thinks(o)
    PROVE  GoodPath(q)
<1> DEFINE cleared == {path} \union (IF path.mm[o].delay THEN {} ELSE {clear_path(path, o)})
           asked == {set_path_type(p, o, type) : p \in cleared, type \in {"NoPath", "LevelPath"}}
<1>1. \A p \in cleared : GoodPath(p)
  <2>1. GoodPath(path) /\ GoodPath(clear_path(path, o))
    BY RemoveGood DEF Inv, clear_path
  <2> QED
    BY <2>1
<1> HIDE DEF cleared
<1>2. \A p \in asked : GoodPath(p)
  BY <1>1, SetPathTypeGood
<1>3. PICK p \in asked : q \in update_path(p, o, obj[o].bDestroy)
  BY DEF Thinks, cleared
<1> HIDE DEF asked
<1> QED
  BY <1>2, <1>3, UpdatePathGood

LEMMA NewManagerGood ==
    ASSUME NEW p, GoodPath(p), NEW o \in Movers, NEW delay \in BOOLEAN
    PROVE  GoodPath([p EXCEPT !.mm[o] = NewManager(delay)])
<1>1. NewManager(delay) \in Managers /\ KnownState(NewManager(delay))
  BY DEF NewManager, Managers, KnownState, PathStates
<1> QED
  BY <1>1, ManagerGood

LEMMA ForgottenGood ==
    ASSUME Inv, NEW o \in Movers
    PROVE  GoodPath(Forgotten(o))
<1> DEFINE p == remove(remove(path, o, "level"), o, "detail")
           s == RemoveFirst(p.seqParallel, Delegate(o, "sound"))
           r == [p EXCEPT !.seqParallel = s]
<1>1. GoodPath(p)
  BY RemoveGood DEF Inv
<1>2. s \in Seq(Delegates)
  BY <1>1, RemoveFirstSeq DEF GoodPath, Paths
<1>3. GoodPath(r)
  BY <1>1, <1>2, SeqGood
<1>4. Forgotten(o) = [r EXCEPT !.mm[o] = NewManager(FALSE)]
  <2> HIDE DEF s
  <2>1. Forgotten(o) = [p EXCEPT !.seqParallel = s, !.mm[o] = NewManager(FALSE)]
    BY DEF Forgotten, s
  <2> HIDE DEF p
  <2> QED
    BY <1>1, <2>1 DEF GoodPath, Paths
<1> HIDE DEF r
<1> QED
  BY <1>3, <1>4, NewManagerGood

LEMMA InitGood == Init => Inv
<1>1. SUFFICES ASSUME Init PROVE Inv
  OBVIOUS
<1>2. NewManager(FALSE) \in Managers /\ KnownState(NewManager(FALSE))
  BY DEF NewManager, Managers, KnownState, PathStates
<1> DEFINE f == [o \in Movers |-> NewManager(FALSE)]
<1>3. path = [mm |-> f, seqParallel |-> <<>>]
  BY <1>1 DEF Init
<1>4. f \in [Movers -> Managers] /\ \A o \in Movers : KnownState(f[o])
  BY <1>2
<1> HIDE DEF f
<1> QED
  BY <1>3, <1>4 DEF Inv, GoodPath, Paths

\* The steps of the builders' delegates.
LEMMA ParallelGood == Inv /\ RunParallel => Inv'
<1> SUFFICES ASSUME Inv, RunParallel PROVE Inv'
  OBVIOUS
<1> DEFINE d == Head(path.seqParallel)
           p == [path EXCEPT !.seqParallel = Tail(@)]
<1>1. d \in Delegates /\ Tail(path.seqParallel) \in Seq(Delegates)
  BY HeadTailProperties DEF RunParallel, Inv, GoodPath, Paths
<1>2. GoodPath(p)
  BY <1>1, SeqGood DEF Inv
<1>3. d.obj \in Movers /\ d.fn \in {"level", "detail", "sound"}
  BY <1>1 DEF Delegates
<1>4. path' \in CASE d.fn = "level" -> level_process(p, d.obj)
                  [] d.fn = "detail" -> detail_process(p, d.obj)
                  [] d.fn = "sound" -> {p}
  BY DEF RunParallel
<1> HIDE DEF d, p
<1>5. CASE d.fn = "level"
  BY <1>2, <1>3, <1>4, <1>5, LevelProcessGood DEF Inv
<1>6. CASE d.fn = "detail"
  BY <1>2, <1>3, <1>4, <1>6, DetailProcessGood DEF Inv
<1>7. CASE d.fn = "sound"
  BY <1>2, <1>4, <1>7 DEF Inv
<1> QED
  BY <1>3, <1>5, <1>6, <1>7

LEMMA NextFrameGood == Inv /\ NextFrame => Inv'
<1> SUFFICES ASSUME Inv, NextFrame PROVE Inv'
  OBVIOUS
<1>1. PICK late \in SUBSET {o \in Movers : path.mm[o].failed} :
         path' = [path EXCEPT !.mm = [o \in Movers |->
                    IF o \in late THEN [@[o] EXCEPT !.failed = FALSE] ELSE @[o]]]
  BY DEF NextFrame
<1> DEFINE f == [o \in Movers |-> IF o \in late THEN [path.mm[o] EXCEPT !.failed = FALSE]
                                  ELSE path.mm[o]]
<1>2. ASSUME NEW o \in Movers
      PROVE  f[o] \in Managers /\ KnownState(f[o])
  <2>1. path.mm[o] \in Managers /\ KnownState(path.mm[o])
    BY DEF Inv, GoodPath, Paths
  <2> QED
    BY <2>1 DEF Managers, KnownState
<1>3. path' = [path EXCEPT !.mm = f]
  BY <1>1
<1> HIDE DEF f
<1>4. f \in [Movers -> Managers]
  BY <1>2 DEF f
<1> QED
  BY <1>2, <1>3, <1>4 DEF Inv, GoodPath, Paths

\* UpdateCL() queues the sound player behind what on_frame() queues.
LEMMA UpdateCLGood ==
    ASSUME Inv, NEW o, UpdateCL(o)
    PROVE  Inv'
<1>1. CASE o \in Movers
  <2>1. PICK p \in on_frame(path, o, obj[o].bDestroy) : path' = Queue(p, o, "sound")
    BY <1>1 DEF UpdateCL
  <2>2. GoodPath(p)
    BY <1>1, <2>1, OnFrameGood DEF Inv
  <2> QED
    BY <1>1, <2>1, <2>2, QueueGood DEF Inv
<1>2. CASE o \notin Movers
  BY <1>2 DEF UpdateCL, Inv
<1> QED
  BY <1>1, <1>2

LEMMA EventGood ==
    ASSUME Inv, NEW o \in Objects
    PROVE  /\ Spawn(o) \/ Activate(o) \/ Deactivate(o) \/ setDestroy(o)
                \/ shedule_Update(o) \/ RestrictionsChange(o) => Inv'
           /\ \A p \in Objects : SetParent(o, p) => Inv'
<1>1. ASSUME Spawn(o) PROVE Inv'
  <2>1. CASE o \in Movers
    <3>1. PICK delay \in BOOLEAN : path' = [path EXCEPT !.mm[o] = NewManager(delay)]
      BY <1>1, <2>1 DEF Spawn
    <3> QED
      BY <2>1, <3>1, NewManagerGood DEF Inv
  <2>2. CASE o \notin Movers
    BY <1>1, <2>2 DEF Spawn, Inv
  <2> QED
    BY <2>1, <2>2
<1>2. ASSUME Activate(o) \/ Deactivate(o) \/ setDestroy(o) PROVE Inv'
  BY <1>2 DEF Activate, Deactivate, setDestroy, Inv
<1>3. ASSUME shedule_Update(o) PROVE Inv'
  <2>1. CASE o \in Movers
    BY <1>3, <2>1, ThinksGood DEF shedule_Update, Inv
  <2>2. CASE o \notin Movers
    BY <1>3, <2>2 DEF shedule_Update, Inv
  <2> QED
    BY <2>1, <2>2
<1>4. ASSUME RestrictionsChange(o) PROVE Inv'
  BY <1>4, RestrictionsGood DEF RestrictionsChange, Inv
<1>5. ASSUME NEW p \in Objects, SetParent(o, p) PROVE Inv'
  BY <1>5 DEF SetParent, Inv
<1> QED
  BY <1>1, <1>2, <1>3, <1>4, <1>5

LEMMA NextGood == Inv /\ [Next]_vars => Inv'
<1> SUFFICES ASSUME Inv, [Next]_vars PROVE Inv'
  OBVIOUS
<1>1. CASE ObjectEvent
  BY <1>1, EventGood DEF ObjectEvent
<1>2. ASSUME NEW w \in Workers, NEW o \in Objects, Render(w, o) PROVE Inv'
  BY <1>2 DEF Render, Rendering, Inv
<1>3. CASE CollectCrows
  BY <1>3 DEF CollectCrows, Inv
<1>4. CASE SingleUpdate
  <2>1. path' = path \/ \E o : UpdateCL(o)
    BY <1>4 DEF SingleUpdate
  <2> QED
    BY <2>1, UpdateCLGood DEF Inv
<1>5. CASE DestroyLast
  BY <1>5, ForgottenGood DEF DestroyLast, Inv
<1>6. ASSUME NEW w \in Workers, Exchange(w) \/ Push(w) \/ Flag(w) PROVE Inv'
  BY <1>6 DEF Exchange, Push, Flag, Rendering, Inv
<1>7. CASE RunParallel \/ NextFrame
  BY <1>7, ParallelGood, NextFrameGood
<1>8. CASE UNCHANGED vars
  BY <1>8 DEF vars, Inv
<1> QED
  BY <1>1, <1>2, <1>3, <1>4, <1>5, <1>6, <1>7, <1>8 DEF Next, FrameStep

-----------------------------------------------------------------------------
(***************************************************************************)
(* A delegate is queued once.  What keeps a second one away changes in the *)
(* course of a frame: before shedule_Update() an object has none, after it *)
(* a builder that has one is waited for, and a sound player is queued by   *)
(* the one UpdateCL() of the frame.                                        *)
(***************************************************************************)
Queued(p, o, fn) == Delegate(o, fn) \in ToSet(p.seqParallel)
Untouched(p, o) == \A fn \in {"level", "detail", "sound"} : ~Queued(p, o, fn)

\* A builder that has a delegate in the queue is waited for.
WaitsForQueued(p) ==
    \A o \in Movers, fn \in {"level", "detail"} : Queued(p, o, fn) => p.mm[o].wait

\* The path q that the state machine of o makes of p: at most one new delegate.
Orders(p, q, o) ==
    /\ \A u \in Movers \ {o} : q.mm[u] = p.mm[u]
    /\ p.mm[o].wait => q = p
    /\ \/ q.seqParallel = p.seqParallel
       \/ /\ ~p.mm[o].wait /\ q.mm[o].wait
          /\ \E fn \in {"level", "detail"} :
                q.seqParallel = Append(p.seqParallel, Delegate(o, fn))

\* The same without a delegate.
Quiet(p, q, o) ==
    /\ \A u \in Movers \ {o} : q.mm[u] = p.mm[u]
    /\ q.seqParallel = p.seqParallel

LEMMA StateQuiet ==
    ASSUME NEW p, GoodPath(p), NEW o \in Movers, NEW s
    PROVE  Quiet(p, State(p, o, s), o) /\ State(p, o, s).mm[o].wait = p.mm[o].wait
BY DEF GoodPath, Paths, Managers, State, Quiet

LEMMA WaitsQuiet ==
    ASSUME NEW p, GoodPath(p), NEW o \in Movers, NEW b
    PROVE  Quiet(p, Waits(p, o, b), o) /\ Waits(p, o, b).mm[o].wait = b
BY DEF GoodPath, Paths, Managers, Waits, Quiet

LEMMA RegisterOrders ==
    ASSUME NEW p, GoodPath(p), NEW o \in Movers, NEW fn \in {"level", "detail"},
           ~p.mm[o].wait
    PROVE  Orders(p, register_to_process(p, o, fn), o)
<1> DEFINE w == Waits(p, o, TRUE)
<1>1. GoodPath(w) /\ Quiet(p, w, o) /\ w.mm[o].wait
  BY WaitsGood, WaitsQuiet, ZenonT(30)
<1> HIDE DEF w
<1>2. /\ Queue(w, o, fn).mm = w.mm
      /\ Queue(w, o, fn).seqParallel = Append(w.seqParallel, Delegate(o, fn))
  BY <1>1 DEF Queue, GoodPath, Paths
<1>3. register_to_process(p, o, fn) \in {w, Queue(w, o, fn)}
  BY DEF register_to_process, w
<1> QED
  BY <1>1, <1>2, <1>3 DEF Orders, Quiet

LEMMA BuildDetailQuiet ==
    ASSUME NEW p, GoodPath(p), NEW o \in Movers, NEW q \in BuildDetail(p, o)
    PROVE  Quiet(p, q, o)
BY StateQuiet DEF BuildDetail

LEMMA DetailProcessQuiet ==
    ASSUME NEW p, GoodPath(p), NEW o \in Movers, NEW q \in detail_process(p, o)
    PROVE  Quiet(p, q, o)
<1>1. GoodPath(Waits(p, o, FALSE)) /\ Quiet(p, Waits(p, o, FALSE), o)
  BY WaitsGood, WaitsQuiet
<1>2. Quiet(Waits(p, o, FALSE), q, o)
  BY <1>1, BuildDetailQuiet DEF detail_process
<1> QED
  BY <1>1, <1>2 DEF Quiet

LEMMA LevelProcessImplQuiet ==
    ASSUME NEW p, GoodPath(p), NEW o \in Movers, NEW q \in level_process_impl(p, o)
    PROVE  Quiet(p, q, o)
<1> DEFINE w == Waits(p, o, FALSE)
           b == State(w, o, "BuildLevelPath")
           f == [b EXCEPT !.mm[o].failed = @ \/ p.mm[o].delay]
<1>1. GoodPath(w) /\ Quiet(p, w, o)
  BY WaitsGood, WaitsQuiet
<1>2. GoodPath(b) /\ Quiet(w, b, o)
  BY <1>1, StateGood, StateQuiet DEF PathStates
<1>3. Quiet(b, f, o)
  <2> HIDE DEF b
  <2> QED
    BY <1>2 DEF GoodPath, Paths, Managers, Quiet
<1>4. q \in BuildDetail(w, o) \/ q = f
  BY DEF level_process_impl
<1>5. CASE q \in BuildDetail(w, o)
  <2>1. Quiet(w, q, o)
    BY <1>1, <1>5, BuildDetailQuiet
  <2> QED
    BY <1>1, <2>1 DEF Quiet
<1>6. CASE q = f
  <2> HIDE DEF w, b, f
  <2> QED
    BY <1>1, <1>2, <1>3, <1>6 DEF Quiet
<1> QED
  BY <1>4, <1>5, <1>6

LEMMA LevelProcessQuiet ==
    ASSUME NEW p, GoodPath(p), NEW o \in Movers, NEW q \in level_process(p, o)
    PROVE  Quiet(p, q, o)
BY LevelProcessImplQuiet DEF level_process, Quiet

LEMMA BuildLevelPathOrders ==
    ASSUME NEW p, GoodPath(p), NEW o \in Movers, ~p.mm[o].wait, NEW dying,
           NEW q \in build_level_path(p, o, dying)
    PROVE  Orders(p, q, o)
<1>1. CASE q \in level_process_impl(p, o)
  BY <1>1, LevelProcessImplQuiet DEF Quiet, Orders
<1>2. CASE q \in UNION {detail_process(r, o) : r \in level_process_impl(p, o)}
  <2>1. PICK r \in level_process_impl(p, o) : q \in detail_process(r, o)
    BY <1>2
  <2>2. Quiet(p, r, o) /\ Quiet(r, q, o)
    BY <2>1, LevelProcessImplGood, LevelProcessImplQuiet, DetailProcessQuiet
  <2> QED
    BY <2>2 DEF Quiet, Orders
<1>3. CASE q = register_to_process(p, o, "level")
  BY <1>3, RegisterOrders
<1> QED
  BY <1>1, <1>2, <1>3 DEF build_level_path

LEMMA BuildDetailPathOrders ==
    ASSUME NEW p, GoodPath(p), NEW o \in Movers, ~p.mm[o].wait, NEW dying,
           NEW q \in build_detail_path(p, o, dying)
    PROVE  Orders(p, q, o)
<1> DEFINE b == State(p, o, "BuildDetailPath")
<1>1. GoodPath(b) /\ Quiet(p, b, o) /\ b.mm[o].wait = p.mm[o].wait
  BY StateGood, StateQuiet DEF PathStates
<1>2. q \in detail_process(b, o) \/ q = register_to_process(b, o, "detail")
  BY DEF build_detail_path
<1> HIDE DEF b
<1>3. Orders(b, q, o)
  BY <1>1, <1>2, DetailProcessQuiet, RegisterOrders DEF Quiet, Orders
<1> QED
  BY <1>1, <1>3 DEF Quiet, Orders

LEMMA ProcessLevelPathOrders ==
    ASSUME NEW p, GoodPath(p), NEW o \in Movers, ~p.mm[o].wait, NEW dying,
           NEW q \in process_level_path(p, o, dying)
    PROVE  Orders(p, q, o)
<1> DEFINE Switch(r) ==
            CASE r.mm[o].state = "BuildLevelPath" -> build_level_path(r, o, dying)
              [] r.mm[o].state \in {"ContinueLevelPath", "BuildDetailPath"} ->
                    build_detail_path(r, o, dying)
              [] r.mm[o].state = "PathVerification" ->
                    {State(r, o, s) : s \in {"PathVerification", "BuildLevelPath",
                                             "ContinueLevelPath", "PathCompleted"}}
              [] r.mm[o].state = "PathCompleted" ->
                    {State(r, o, s) : s \in {"PathCompleted", "BuildLevelPath"}}
              [] OTHER -> {r}
<1>1. ASSUME NEW r, GoodPath(r), ~r.mm[o].wait, q \in Switch(r)
      PROVE  Orders(r, q, o)
  <2>1. CASE r.mm[o].state = "BuildLevelPath"
    BY <1>1, <2>1, BuildLevelPathOrders
  <2>2. CASE r.mm[o].state \in {"ContinueLevelPath", "BuildDetailPath"}
    BY <1>1, <2>2, BuildDetailPathOrders
  <2>3. CASE r.mm[o].state \in {"PathVerification", "PathCompleted"}
    <3>1. PICK s : q = State(r, o, s)
      BY <1>1, <2>3
    <3> QED
      BY <1>1, <3>1, StateQuiet DEF Quiet, Orders
  <2>4. CASE r.mm[o].state \notin {"BuildLevelPath", "ContinueLevelPath", "BuildDetailPath",
                                   "PathVerification", "PathCompleted"}
    BY <1>1, <2>4 DEF Orders
  <2> QED
    BY <2>1, <2>2, <2>3, <2>4
<1> DEFINE b == State(p, o, "BuildLevelPath")
<1>2. GoodPath(b) /\ Quiet(p, b, o) /\ b.mm[o].wait = p.mm[o].wait
  BY StateGood, StateQuiet DEF PathStates
<1>3. q \in Switch(p) \/ q \in Switch(b)
  BY DEF process_level_path
<1> HIDE DEF Switch, b
<1>4. Orders(p, q, o) \/ Orders(b, q, o)
  BY <1>1, <1>2, <1>3
<1> QED
  BY <1>2, <1>4 DEF Quiet, Orders

LEMMA RestartQuiet ==
    ASSUME NEW p, GoodPath(p), NEW o \in Movers
    PROVE  Quiet(p, Restart(p, o), o) /\ Restart(p, o).mm[o].wait = p.mm[o].wait
BY DEF GoodPath, Paths, Managers, Restart, State, Quiet

LEMMA UpdatePathOrders ==
    ASSUME NEW p, GoodPath(p), NEW o \in Movers, NEW dying, NEW q \in update_path(p, o, dying)
    PROVE  Orders(p, q, o)
<1> DEFINE r == IF p.mm[o].actual THEN p ELSE Restart(p, o)
<1>1. GoodPath(r) /\ Quiet(p, r, o) /\ r.mm[o].wait = p.mm[o].wait
  BY RestartGood, RestartQuiet DEF Quiet
<1>2. q = p \/ (~p.mm[o].wait /\ (q = r \/ q \in process_level_path(r, o, dying)))
  BY DEF update_path
<1> HIDE DEF r
<1>3. CASE q = p
  BY <1>3 DEF Orders
<1>4. CASE ~p.mm[o].wait /\ q = r
  BY <1>1, <1>4 DEF Quiet, Orders
<1>5. CASE ~p.mm[o].wait /\ q \in process_level_path(r, o, dying)
  <2>1. Orders(r, q, o)
    BY <1>1, <1>5, ProcessLevelPathOrders
  <2> QED
    BY <1>1, <1>5, <2>1 DEF Quiet, Orders
<1> QED
  BY <1>2, <1>3, <1>4, <1>5

LEMMA OnFrameOrders ==
    ASSUME NEW p, GoodPath(p), NEW o \in Movers, NEW dying, NEW q \in on_frame(p, o, dying)
    PROVE  Orders(p, q, o)
BY UpdatePathOrders DEF on_frame, Orders

-----------------------------------------------------------------------------
(* What one order does to the queue *)

OncePath(p) == IsInjective(p.seqParallel) /\ WaitsForQueued(p)

DelegateFns == {"level", "detail", "sound"}

\* The delegates and managers of all but o are left alone.
Elsewhere(p, q, o) ==
    \A u \in Movers \ {o} :
       q.mm[u] = p.mm[u] /\ \A fn \in DelegateFns : Queued(q, u, fn) <=> Queued(p, u, fn)

LEMMA QueueOnce ==
    ASSUME NEW p, GoodPath(p), IsInjective(p.seqParallel), NEW q, NEW o \in Movers,
           NEW fn \in DelegateFns, ~Queued(p, o, fn),
           q.seqParallel = Append(p.seqParallel, Delegate(o, fn))
    PROVE  /\ IsInjective(q.seqParallel)
           /\ \A u \in Movers, g \in DelegateFns :
                 Queued(q, u, g) <=> Queued(p, u, g) \/ (u = o /\ g = fn)
<1>1. Delegate(o, fn) \in Delegates
  BY DEF Delegate, Delegates, DelegateFns
<1>2. /\ ToSet(q.seqParallel) = ToSet(p.seqParallel) \union {Delegate(o, fn)}
      /\ IsInjective(q.seqParallel)
  BY <1>1, AppendToSet DEF GoodPath, Paths, Queued
<1>3. \A u, g : Delegate(u, g) = Delegate(o, fn) <=> u = o /\ g = fn
  BY DEF Delegate
<1> QED
  BY <1>2, <1>3 DEF Queued

LEMMA RemoveOnce ==
    ASSUME NEW p, GoodPath(p), IsInjective(p.seqParallel), NEW o \in Movers,
           NEW fn \in DelegateFns
    PROVE  /\ IsInjective(remove(p, o, fn).seqParallel)
           /\ Elsewhere(p, remove(p, o, fn), o)
           /\ \A g \in DelegateFns :
                 Queued(remove(p, o, fn), o, g) <=> Queued(p, o, g) /\ g # fn
<1> DEFINE w == Waits(p, o, FALSE)
           r == remove(p, o, fn)
<1>1. GoodPath(w) /\ Quiet(p, w, o)
  BY WaitsGood, WaitsQuiet
<1>2. r.mm = w.mm /\ r.seqParallel = RemoveFirst(w.seqParallel, Delegate(o, fn))
  BY <1>1 DEF remove, GoodPath, Paths
<1> HIDE DEF w, r
<1>3. p.seqParallel \in Seq(Delegates) /\ w.seqParallel = p.seqParallel
  BY <1>1 DEF Quiet, GoodPath, Paths
<1>4. /\ ToSet(r.seqParallel) = ToSet(p.seqParallel) \ {Delegate(o, fn)}
      /\ IsInjective(r.seqParallel)
  BY <1>2, <1>3, RemoveFirstToSet
<1>5. \A u, g : Delegate(u, g) = Delegate(o, fn) <=> u = o /\ g = fn
  BY DEF Delegate
<1> QED
  BY <1>1, <1>2, <1>4, <1>5 DEF Queued, Elsewhere, Quiet, r

LEMMA OrdersOnce ==
    ASSUME NEW p, GoodPath(p), OncePath(p), NEW o \in Movers, NEW q, Orders(p, q, o)
    PROVE  /\ OncePath(q) /\ Elsewhere(p, q, o)
           /\ Queued(q, o, "sound") <=> Queued(p, o, "sound")
<1>1. CASE p.mm[o].wait
  BY <1>1 DEF Orders, Elsewhere
<1>2. CASE ~p.mm[o].wait /\ q.seqParallel = p.seqParallel
  <2>1. \A fn \in {"level", "detail"} : ~Queued(p, o, fn)
    BY <1>2 DEF OncePath, WaitsForQueued
  <2>2. \A u, fn : Queued(q, u, fn) <=> Queued(p, u, fn)
    BY <1>2 DEF Queued
  <2>3. \A u \in Movers \ {o} : q.mm[u] = p.mm[u]
    BY DEF Orders
  <2>4. Elsewhere(p, q, o)
    BY <2>2, <2>3 DEF Elsewhere
  <2>5. IsInjective(q.seqParallel)
    BY <1>2 DEF OncePath
  <2>6. WaitsForQueued(q)
    BY <2>1, <2>2, <2>3 DEF OncePath, WaitsForQueued
  <2> QED
    BY <2>2, <2>4, <2>5, <2>6 DEF OncePath
<1>3. ASSUME NEW fn \in {"level", "detail"}, ~p.mm[o].wait, q.mm[o].wait,
             q.seqParallel = Append(p.seqParallel, Delegate(o, fn))
      PROVE  /\ OncePath(q) /\ Elsewhere(p, q, o)
             /\ Queued(q, o, "sound") <=> Queued(p, o, "sound")
  <2>1. \A g \in {"level", "detail"} : ~Queued(p, o, g)
    BY <1>3 DEF OncePath, WaitsForQueued
  <2>2. /\ IsInjective(q.seqParallel)
        /\ \A u \in Movers, g \in DelegateFns :
              Queued(q, u, g) <=> Queued(p, u, g) \/ (u = o /\ g = fn)
    <3>1. fn \in DelegateFns /\ ~Queued(p, o, fn) /\ IsInjective(p.seqParallel)
      BY <2>1 DEF DelegateFns, OncePath
    <3>2. q.seqParallel = Append(p.seqParallel, Delegate(o, fn))
      BY <1>3
    <3> QED
      BY <3>1, <3>2, QueueOnce, ZenonT(30)
  <2>3. \A u \in Movers \ {o} : q.mm[u] = p.mm[u]
    BY DEF Orders
  <2>4. Elsewhere(p, q, o)
    BY <2>2, <2>3 DEF Elsewhere
  <2>5. WaitsForQueued(q)
    BY <1>3, <2>2, <2>3 DEF OncePath, WaitsForQueued, DelegateFns
  <2>6. Queued(q, o, "sound") <=> Queued(p, o, "sound")
    BY <2>2 DEF DelegateFns
  <2> QED
    BY <2>2, <2>4, <2>5, <2>6 DEF OncePath
<1> QED
  BY <1>1, <1>2, <1>3 DEF Orders

\* A creature that has no delegates yet may clear its path before it orders one.
LEMMA ThinksOnce ==
    ASSUME Inv, OncePath(path), NEW o \in Movers, Untouched(path, o), NEW q \in Thinks(o)
    PROVE  OncePath(q) /\ Elsewhere(path, q, o) /\ ~Queued(q, o, "sound")
<1> DEFINE cleared == {path} \union (IF path.mm[o].delay THEN {} ELSE {clear_path(path, o)})
           asked == {set_path_type(p, o, type) : p \in cleared, type \in {"NoPath", "LevelPath"}}
           Fine(p) == GoodPath(p) /\ OncePath(p) /\ Elsewhere(path, p, o) /\ Untouched(p, o)
<1>1. Fine(path)
  BY DEF Inv, Elsewhere
<1>2. Fine(clear_path(path, o))
  <2> DEFINE r == remove(path, o, "detail")
  <2>1. GoodPath(r)
    BY RemoveGood DEF Inv
  <2>2. /\ IsInjective(r.seqParallel) /\ Elsewhere(path, r, o)
        /\ \A g \in DelegateFns : Queued(r, o, g) <=> Queued(path, o, g) /\ g # "detail"
    BY RemoveOnce DEF Inv, OncePath, DelegateFns
  <2> HIDE DEF r
  <2>3. Untouched(r, o)
    BY <2>2 DEF Untouched, DelegateFns
  <2>4. WaitsForQueued(r)
    BY <2>2, <2>3 DEF WaitsForQueued, OncePath, Elsewhere, Untouched, DelegateFns
  <2> QED
    BY <2>1, <2>2, <2>3, <2>4 DEF OncePath, clear_path, r
<1>3. \A p \in cleared : Fine(p)
  BY <1>1, <1>2
<1>4. ASSUME NEW p, Fine(p), NEW type \in {"NoPath", "LevelPath"}
      PROVE  Fine(set_path_type(p, o, type))
  <2> DEFINE r == set_path_type(p, o, type)
  <2>1. GoodPath(r)
    BY <1>4, SetPathTypeGood
  <2>2. Quiet(p, r, o) /\ r.mm[o].wait = p.mm[o].wait
    BY <1>4 DEF set_path_type, GoodPath, Paths, Managers, Quiet
  <2> HIDE DEF r
  <2>3. \A u, fn : Queued(r, u, fn) <=> Queued(p, u, fn)
    BY <2>2 DEF Queued, Quiet
  <2>4. OncePath(r)
    BY <1>4, <2>2, <2>3 DEF OncePath, WaitsForQueued, Quiet
  <2> QED
    BY <1>4, <2>1, <2>2, <2>3, <2>4 DEF Elsewhere, Untouched, Quiet, r
<1> HIDE DEF cleared, Fine
<1>5. \A p \in asked : Fine(p)
  BY <1>3, <1>4
<1>6. PICK p \in asked : q \in update_path(p, o, obj[o].bDestroy)
  BY DEF Thinks, cleared
<1> HIDE DEF asked
<1>7. /\ GoodPath(p) /\ OncePath(p) /\ Elsewhere(path, p, o) /\ Untouched(p, o)
      /\ Orders(p, q, o)
  BY <1>5, <1>6, UpdatePathOrders DEF Fine
<1>8. OncePath(q) /\ Elsewhere(p, q, o) /\ ~Queued(q, o, "sound")
  BY <1>7, OrdersOnce DEF Untouched
<1> QED
  BY <1>7, <1>8 DEF Elsewhere

-----------------------------------------------------------------------------
(* The marks of the frame on the objects *)

Records ==
    [list : {"none", "sleeping", "active"}, active : Int,
     parent : Objects \union {null}, bDestroy : BOOLEAN, crow : BOOLEAN,
     asCrow : BOOLEAN, updated : BOOLEAN, scheduled : BOOLEAN]

IsWorld(s) == \E a \in [Objects -> Records] : \E b, c : s = [obj |-> a, crows |-> b, due |-> c]

\* Crows and processing leave these marks alone, and destroy no object.
Keeps(a, b) ==
    /\ b \in [Objects -> Records]
    /\ \A o \in Objects : /\ b[o].updated = a[o].updated
                          /\ b[o].scheduled = a[o].scheduled
                          /\ b[o].list = "none" => a[o].list = "none"

LEMMA WorldOf ==
    ASSUME NEW a \in [Objects -> Records], NEW b, NEW c, NEW s,
           s = [obj |-> a, crows |-> b, due |-> c]
    PROVE  IsWorld(s) /\ s.obj = a
BY DEF IsWorld

\* One object becomes r.
LEMMA RecordKeeps ==
    ASSUME NEW a \in [Objects -> Records], NEW o, NEW r,
           o \in Objects => /\ r \in Records
                            /\ r.updated = a[o].updated /\ r.scheduled = a[o].scheduled
                            /\ r.list = "none" => a[o].list = "none"
    PROVE  [a EXCEPT ![o] = r] \in [Objects -> Records] /\ Keeps(a, [a EXCEPT ![o] = r])
BY DEF Keeps

LEMMA ActiveKeeps ==
    ASSUME NEW a \in [Objects -> Records], NEW o, NEW n, o \in Objects => n \in Int
    PROVE  /\ [a EXCEPT ![o].active = n] \in [Objects -> Records]
           /\ Keeps(a, [a EXCEPT ![o].active = n])
<1> DEFINE r == [a[o] EXCEPT !.active = n]
<1>1. o \in Objects => /\ r \in Records
                       /\ r.updated = a[o].updated /\ r.scheduled = a[o].scheduled
                       /\ r.list = a[o].list
  <2> SUFFICES ASSUME o \in Objects
               PROVE  /\ r \in Records
                      /\ r.updated = a[o].updated /\ r.scheduled = a[o].scheduled
                      /\ r.list = a[o].list
    OBVIOUS
  <2>1. a[o] \in Records /\ n \in Int
    OBVIOUS
  <2> QED
    BY <2>1 DEF Records
<1> HIDE DEF r
<1>2. [a EXCEPT ![o] = r] \in [Objects -> Records] /\ Keeps(a, [a EXCEPT ![o] = r])
  BY <1>1, RecordKeeps
<1> QED
  BY <1>2 DEF r

LEMMA ListKeeps ==
    ASSUME NEW a \in [Objects -> Records], NEW o, NEW l \in {"sleeping", "active"}
    PROVE  /\ [a EXCEPT ![o].list = l] \in [Objects -> Records]
           /\ Keeps(a, [a EXCEPT ![o].list = l])
<1> DEFINE r == [a[o] EXCEPT !.list = l]
<1>1. o \in Objects => /\ r \in Records
                       /\ r.updated = a[o].updated /\ r.scheduled = a[o].scheduled
                       /\ r.list # "none"
  <2> SUFFICES ASSUME o \in Objects
               PROVE  /\ r \in Records
                      /\ r.updated = a[o].updated /\ r.scheduled = a[o].scheduled
                      /\ r.list # "none"
    OBVIOUS
  <2>1. a[o] \in Records
    OBVIOUS
  <2> QED
    BY <2>1 DEF Records
<1> HIDE DEF r
<1>2. [a EXCEPT ![o] = r] \in [Objects -> Records] /\ Keeps(a, [a EXCEPT ![o] = r])
  BY <1>1, RecordKeeps
<1> QED
  BY <1>2 DEF r

LEMMA CrowKeeps ==
    ASSUME NEW s, IsWorld(s), NEW o
    PROVE  IsWorld(MakeMeCrow(s, o)) /\ Keeps(s.obj, MakeMeCrow(s, o).obj)
<1>0. PICK a \in [Objects -> Records] : \E b, c : s = [obj |-> a, crows |-> b, due |-> c]
  BY DEF IsWorld
<1>1. PICK b, c : s = [obj |-> a, crows |-> b, due |-> c]
  BY <1>0
<1> DEFINE d == c \union {o}
           e == [a EXCEPT ![o] = [a[o] EXCEPT !.crow = TRUE, !.asCrow = TRUE]]
<1>2. MakeMeCrow(s, o) \in {s, [obj |-> a, crows |-> b, due |-> d],
                            [obj |-> e, crows |-> Append(b, o), due |-> d]}
  BY <1>1 DEF MakeMeCrow
<1>3. e \in [Objects -> Records] /\ Keeps(a, e) /\ Keeps(a, a)
  <2> DEFINE r == [a[o] EXCEPT !.crow = TRUE, !.asCrow = TRUE]
  <2>1. o \in Objects => /\ r \in Records
                         /\ r.updated = a[o].updated /\ r.scheduled = a[o].scheduled
                         /\ r.list = a[o].list
    <3> SUFFICES ASSUME o \in Objects
                 PROVE  /\ r \in Records
                        /\ r.updated = a[o].updated /\ r.scheduled = a[o].scheduled
                        /\ r.list = a[o].list
      OBVIOUS
    <3>1. a[o] \in Records
      OBVIOUS
    <3> QED
      BY <3>1 DEF Records
  <2> HIDE DEF r
  <2>2. e \in [Objects -> Records] /\ Keeps(a, e)
    BY <2>1, RecordKeeps DEF r
  <2> QED
    BY <2>2 DEF Keeps
<1> HIDE DEF d, e
<1>4. CASE MakeMeCrow(s, o) = s
  BY <1>1, <1>3, <1>4
<1>5. CASE MakeMeCrow(s, o) = [obj |-> a, crows |-> b, due |-> d]
  BY <1>1, <1>3, <1>5, WorldOf
<1>6. CASE MakeMeCrow(s, o) = [obj |-> e, crows |-> Append(b, o), due |-> d]
  BY <1>1, <1>3, <1>6, WorldOf
<1> QED
  BY <1>2, <1>4, <1>5, <1>6

LEMMA ActivateKeeps ==
    ASSUME NEW s, IsWorld(s), NEW o
    PROVE  IsWorld(processing_activate(s, o)) /\ Keeps(s.obj, processing_activate(s, o).obj)
<1>0. PICK a \in [Objects -> Records] : \E b, c : s = [obj |-> a, crows |-> b, due |-> c]
  BY DEF IsWorld
<1>1. PICK b, c : s = [obj |-> a, crows |-> b, due |-> c]
  BY <1>0
<1> DEFINE n == a[o].active + 1
           e == [a EXCEPT ![o].active = n]
           f == [e EXCEPT ![o].list = "active"]
           t == [obj |-> e, crows |-> b, due |-> c]
           u == [obj |-> f, crows |-> b, due |-> c]
<1>2. processing_activate(s, o) \in {t, MakeMeCrow(u, o)}
  <2> HIDE DEF n
  <2>1. [s EXCEPT !.obj[o].active = n] = t
    BY <1>1
  <2>2. [t EXCEPT !.obj[o].list = "active"] = u
    <3> HIDE DEF e
    <3> QED
      OBVIOUS
  <2> QED
    BY <1>1, <2>1, <2>2 DEF processing_activate, n
<1>3. o \in Objects => n \in Int
  BY DEF Records
<1> HIDE DEF n
<1>4. /\ e \in [Objects -> Records] /\ Keeps(a, e)
      /\ f \in [Objects -> Records] /\ Keeps(a, f)
  <2>1. e \in [Objects -> Records] /\ Keeps(a, e)
    BY <1>3, ActiveKeeps
  <2> HIDE DEF e
  <2>2. f \in [Objects -> Records] /\ Keeps(e, f)
    BY <2>1, ListKeeps
  <2> QED
    BY <2>1, <2>2 DEF Keeps
<1> HIDE DEF e, f
<1>5. IsWorld(t) /\ IsWorld(u) /\ u.obj = f /\ t.obj = e
  BY <1>4, WorldOf
<1>6. IsWorld(MakeMeCrow(u, o)) /\ Keeps(f, MakeMeCrow(u, o).obj)
  BY <1>5, CrowKeeps
<1>7. Keeps(a, MakeMeCrow(u, o).obj)
  BY <1>4, <1>6 DEF Keeps
<1> HIDE DEF t, u
<1> QED
  BY <1>1, <1>2, <1>4, <1>5, <1>6, <1>7

LEMMA DeactivateKeeps ==
    ASSUME NEW s, IsWorld(s), NEW o
    PROVE  IsWorld(processing_deactivate(s, o)) /\ Keeps(s.obj, processing_deactivate(s, o).obj)
<1>0. PICK a \in [Objects -> Records] : \E b, c : s = [obj |-> a, crows |-> b, due |-> c]
  BY DEF IsWorld
<1>1. PICK b, c : s = [obj |-> a, crows |-> b, due |-> c]
  BY <1>0
<1> DEFINE n == a[o].active - 1
           e == [a EXCEPT ![o].active = n]
           f == [e EXCEPT ![o].list = "sleeping"]
           d == c \ {o}
           t == [obj |-> e, crows |-> b, due |-> c]
           u == [obj |-> f, crows |-> b, due |-> d]
<1>2. processing_deactivate(s, o) \in {t, u}
  <2> HIDE DEF n
  <2>1. [s EXCEPT !.obj[o].active = n] = t
    BY <1>1
  <2>2. [t EXCEPT !.obj[o].list = "sleeping", !.due = @ \ {o}] = u
    <3>1. t.due \ {o} = d
      OBVIOUS
    <3> HIDE DEF e, d
    <3>2. [[t EXCEPT !.obj[o].list = "sleeping"] EXCEPT !.due = d] = u
      <4>1. [t EXCEPT !.obj[o].list = "sleeping"] = [obj |-> f, crows |-> b, due |-> c]
        OBVIOUS
      <4> HIDE DEF f
      <4>2. [[obj |-> f, crows |-> b, due |-> c] EXCEPT !.due = d] = u
        OBVIOUS
      <4> QED
        BY <4>1, <4>2
    <3>3. [t EXCEPT !.obj[o].list = "sleeping", !.due = d]
             = [[t EXCEPT !.obj[o].list = "sleeping"] EXCEPT !.due = d]
      OBVIOUS
    <3> QED
      BY <3>1, <3>2, <3>3
  <2> QED
    BY <1>1, <2>1, <2>2 DEF processing_deactivate, n
<1>3. o \in Objects => n \in Int
  BY DEF Records
<1> HIDE DEF n
<1>4. /\ e \in [Objects -> Records] /\ Keeps(a, e)
      /\ f \in [Objects -> Records] /\ Keeps(a, f)
  <2>1. e \in [Objects -> Records] /\ Keeps(a, e)
    BY <1>3, ActiveKeeps
  <2> HIDE DEF e
  <2>2. f \in [Objects -> Records] /\ Keeps(e, f)
    BY <2>1, ListKeeps
  <2> QED
    BY <2>1, <2>2 DEF Keeps
<1> HIDE DEF e, f
<1>5. IsWorld(t) /\ IsWorld(u) /\ u.obj = f /\ t.obj = e
  BY <1>4, WorldOf
<1> HIDE DEF t, u
<1> QED
  BY <1>1, <1>2, <1>4, <1>5

-----------------------------------------------------------------------------
(* The invariant *)

OnceInv ==
    /\ Inv
    /\ obj \in [Objects -> Records]
    /\ IsInjective(path.seqParallel)
    /\ phase \in {"events", "update"} => WaitsForQueued(path)
    /\ phase = "events" =>
          /\ \A o \in Movers : /\ obj[o].scheduled \/ Untouched(path, o)
                               /\ ~Queued(path, o, "sound")
          /\ \A o \in Objects : obj[o].list = "none" => ~obj[o].scheduled
    /\ phase = "update" =>
          \A o \in Movers : Queued(path, o, "sound") => obj[o].updated

LEMMA OnceInit == Init => OnceInv
<1> SUFFICES ASSUME Init PROVE OnceInv
  OBVIOUS
<1>1. NoObject \in Records
  BY DEF NoObject, Records
<1>2. obj \in [Objects -> Records] /\ \A o \in Objects : ~obj[o].scheduled
  BY <1>1 DEF Init, NoObject
<1>3. path.seqParallel = <<>>
  BY DEF Init
<1>4. IsInjective(path.seqParallel) /\ \A o, fn : ~Queued(path, o, fn)
  BY <1>3 DEF IsInjective, Queued, ToSet
<1> QED
  BY <1>2, <1>4, InitGood DEF OnceInv, Init, WaitsForQueued, Untouched

\* The path is left alone, and the objects keep their marks.
LEMMA MarksKept ==
    ASSUME OnceInv, Inv', Keeps(obj, obj'), path' = path, phase' = phase
    PROVE  OnceInv'
<1>1. \A o, fn : Queued(path, o, fn)' <=> Queued(path, o, fn)
  BY DEF Queued
<1>2. WaitsForQueued(path)' <=> WaitsForQueued(path)
  BY <1>1 DEF WaitsForQueued
<1>3. \A o : Untouched(path, o)' <=> Untouched(path, o)
  BY <1>1 DEF Untouched
<1>4. \A o \in Movers : obj'[o].updated = obj[o].updated /\ obj'[o].scheduled = obj[o].scheduled
  BY FrameAssumption DEF Keeps
<1> QED
  BY <1>1, <1>2, <1>3, <1>4 DEF OnceInv, Keeps

\* Nothing is queued in the later phases.
LEMMA LaterPhase ==
    ASSUME OnceInv, Inv', obj' \in [Objects -> Records], path' = path,
           phase' \in {"destroy", "render"}
    PROVE  OnceInv'
BY DEF OnceInv

LEMMA WorldIs == OnceInv => IsWorld(World)
BY DEF OnceInv, IsWorld, World

LEMMA BecomesKeeps ==
    ASSUME NEW s, IsWorld(s), Keeps(obj, s.obj), Becomes(s)
    PROVE  Keeps(obj, obj')
BY DEF Becomes

-----------------------------------------------------------------------------
(* Events *)

\* The path of o alone changes, in the phase of the events, and o is scheduled.
LEMMA EventOnce ==
    ASSUME OnceInv, Inv', phase = "events", phase' = "events", NEW o \in Movers,
           obj' \in [Objects -> Records],
           \A u \in Objects : obj'[u].list = "none" => ~obj'[u].scheduled,
           \A u \in Movers \ {o} : obj'[u].scheduled = obj[u].scheduled,
           obj'[o].scheduled \/ Untouched(path', o),
           OncePath(path'), Elsewhere(path, path', o), ~Queued(path', o, "sound")
    PROVE  OnceInv'
<1>1. \A u, fn : Queued(path, u, fn)' <=> Queued(path', u, fn)
  BY DEF Queued
<1>2. WaitsForQueued(path)' /\ IsInjective(path.seqParallel)'
  BY <1>1 DEF OncePath, WaitsForQueued
<1>3. ASSUME NEW u \in Movers \ {o}
      PROVE  (obj'[u].scheduled \/ Untouched(path', u)) /\ ~Queued(path', u, "sound")
  BY <1>3 DEF OnceInv, Elsewhere, Untouched, DelegateFns
<1>4. \A u : Untouched(path, u)' <=> Untouched(path', u)
  BY <1>1 DEF Untouched
<1> QED
  BY <1>1, <1>2, <1>3, <1>4 DEF OnceInv

LEMMA SpawnOnce ==
    ASSUME OnceInv, Inv', NEW o \in Objects, Spawn(o)
    PROVE  OnceInv'
<1> DEFINE r == [NoObject EXCEPT !.list = "sleeping"]
           a == [obj EXCEPT ![o] = r]
           w == [World EXCEPT !.obj[o] = r]
           s == MakeMeCrow(processing_activate(w, o), o)
<1>1. obj \in [Objects -> Records] /\ obj[o].list = "none"
  BY DEF OnceInv, Spawn, Exists
<1>2. r \in Records /\ ~r.scheduled /\ ~r.updated /\ r.list = "sleeping"
  <2>1. NoObject \in Records /\ ~NoObject.scheduled /\ ~NoObject.updated
    BY DEF NoObject, Records
  <2> QED
    BY <2>1 DEF Records
<1>3. Becomes(s) /\ phase = "events" /\ phase' = "events"
  BY DEF Spawn, Event
<1> HIDE DEF r
<1>4. /\ a \in [Objects -> Records] /\ a[o] = r
      /\ \A u \in Objects \ {o} : a[u] = obj[u]
  BY <1>1, <1>2
<1>5. IsWorld(w) /\ w.obj = a
  <2>1. w = [obj |-> a, crows |-> m_secondary_crows[Main], due |-> due]
    BY DEF World
  <2> HIDE DEF a, w
  <2> QED
    BY <1>4, <2>1, WorldOf
<1> HIDE DEF a, w
<1>6. IsWorld(s) /\ Keeps(a, s.obj)
  BY <1>5, ActivateKeeps, CrowKeeps DEF Keeps
<1> HIDE DEF s
<1>7. obj' \in [Objects -> Records] /\ Keeps(a, obj')
  BY <1>3, <1>6 DEF Becomes, Keeps
<1>8. /\ \A u \in Objects : obj'[u].list = "none" => ~obj'[u].scheduled
      /\ \A u \in Objects \ {o} : obj'[u].scheduled = obj[u].scheduled
  BY <1>2, <1>3, <1>4, <1>7 DEF Keeps, OnceInv
<1>9. CASE o \in Movers
  <2>1. PICK delay \in BOOLEAN : path' = [path EXCEPT !.mm[o] = NewManager(delay)]
    BY <1>9 DEF Spawn
  <2>2. /\ path'.seqParallel = path.seqParallel
        /\ \A u \in Movers \ {o} : path'.mm[u] = path.mm[u]
    BY <2>1 DEF OnceInv, Inv, GoodPath, Paths
  <2>3. \A u, fn : Queued(path', u, fn) <=> Queued(path, u, fn)
    BY <2>2 DEF Queued
  <2>4. Untouched(path, o) /\ Untouched(path', o) /\ ~Queued(path', o, "sound")
    BY <1>1, <1>3, <1>9, <2>3 DEF OnceInv, Untouched
  <2>5. OncePath(path') /\ Elsewhere(path, path', o)
    BY <1>3, <2>2, <2>3, <2>4 DEF OnceInv, OncePath, WaitsForQueued, Elsewhere, Untouched
  <2> QED
    BY <1>3, <1>7, <1>8, <1>9, <2>4, <2>5, EventOnce, FrameAssumption
<1>10. CASE o \notin Movers
  <2>1. path' = path
    BY <1>10 DEF Spawn
  <2>2. \A u \in Movers : obj'[u].scheduled = obj[u].scheduled
    BY <1>8, <1>10, FrameAssumption
  <2>3. \A u, fn : Queued(path, u, fn)' <=> Queued(path, u, fn)
    BY <2>1 DEF Queued
  <2>4. /\ WaitsForQueued(path)' <=> WaitsForQueued(path)
        /\ \A u : Untouched(path, u)' <=> Untouched(path, u)
    BY <2>1, <2>3 DEF WaitsForQueued, Untouched
  <2> QED
    BY <1>3, <1>7, <1>8, <2>1, <2>2, <2>3, <2>4 DEF OnceInv
<1> QED
  BY <1>9, <1>10

LEMMA MarkedWorld ==
    ASSUME NEW o, NEW v
    PROVE  /\ [World EXCEPT !.obj[o].updated = v] =
                 [obj |-> [obj EXCEPT ![o] = [obj[o] EXCEPT !.updated = v]],
                  crows |-> m_secondary_crows[Main], due |-> due]
           /\ [World EXCEPT !.obj[o].scheduled = v] =
                 [obj |-> [obj EXCEPT ![o] = [obj[o] EXCEPT !.scheduled = v]],
                  crows |-> m_secondary_crows[Main], due |-> due]
BY DEF World

\* Attaching an object, and turning its processing on or off.
LEMMA AttachOnce ==
    ASSUME OnceInv, Inv', NEW o \in Objects, NEW p \in Objects, SetParent(o, p)
    PROVE  OnceInv'
<1>1. PICK q \in {p, null} : Becomes(MakeMeCrow([World EXCEPT !.obj[o].parent = q], o))
  BY DEF SetParent
<1> DEFINE r == [obj[o] EXCEPT !.parent = q]
           a == [obj EXCEPT ![o] = r]
           w == [World EXCEPT !.obj[o].parent = q]
<1>2. obj \in [Objects -> Records] /\ obj[o] \in Records
  BY DEF OnceInv
<1>3. r \in Records /\ r.updated = obj[o].updated /\ r.scheduled = obj[o].scheduled
      /\ r.list = obj[o].list
  BY <1>2 DEF Records
<1>4. a \in [Objects -> Records] /\ Keeps(obj, a)
  <2> HIDE DEF r
  <2> QED
    BY <1>2, <1>3, RecordKeeps
<1>5. w = [obj |-> a, crows |-> m_secondary_crows[Main], due |-> due]
  BY DEF World
<1> HIDE DEF a, w
<1>6. Keeps(obj, MakeMeCrow(w, o).obj)
  BY <1>4, <1>5, WorldOf, CrowKeeps DEF Keeps
<1>7. Keeps(obj, obj') /\ path' = path /\ phase' = phase
  BY <1>1, <1>6 DEF Becomes, SetParent, Event, w
<1> QED
  BY <1>7, MarksKept

LEMMA ProcessingOnce ==
    ASSUME OnceInv, Inv', NEW o \in Objects, Activate(o) \/ Deactivate(o)
    PROVE  OnceInv'
<1>1. IsWorld(World) /\ World.obj = obj
  BY WorldIs DEF World
<1>2. CASE Activate(o)
  BY <1>1, <1>2, ActivateKeeps, MarksKept DEF Activate, Becomes, Event
<1>3. CASE Deactivate(o)
  BY <1>1, <1>3, DeactivateKeeps, MarksKept DEF Deactivate, Becomes, Event
<1> QED
  BY <1>2, <1>3

LEMMA SetDestroyOnce ==
    ASSUME OnceInv, Inv', NEW o \in Objects, setDestroy(o)
    PROVE  OnceInv'
<1> DEFINE r == [obj[o] EXCEPT !.bDestroy = TRUE]
<1>1. obj \in [Objects -> Records] /\ obj[o] \in Records
  BY DEF OnceInv
<1>2. r \in Records /\ r.updated = obj[o].updated /\ r.scheduled = obj[o].scheduled
      /\ r.list = obj[o].list
  BY <1>1 DEF Records
<1>3. obj' = [obj EXCEPT ![o] = r] /\ path' = path /\ phase' = phase
  BY DEF setDestroy, Event
<1> HIDE DEF r
<1> QED
  BY <1>1, <1>2, <1>3, RecordKeeps, MarksKept

LEMMA ScheduleOnce ==
    ASSUME OnceInv, Inv', NEW o \in Objects, shedule_Update(o)
    PROVE  OnceInv'
<1> DEFINE r == [obj[o] EXCEPT !.scheduled = TRUE]
           a == [obj EXCEPT ![o] = r]
           w == [World EXCEPT !.obj[o].scheduled = TRUE]
<1>1. /\ obj \in [Objects -> Records] /\ obj[o] \in Records
      /\ phase = "events" /\ phase' = "events" /\ ~obj[o].scheduled /\ obj[o].list # "none"
      /\ Becomes(MakeMeCrow(w, o))
  BY DEF OnceInv, shedule_Update, Event, Exists
<1>2. r \in Records /\ r.updated = obj[o].updated /\ r.scheduled /\ r.list = obj[o].list
  BY <1>1 DEF Records
<1>3. w = [obj |-> a, crows |-> m_secondary_crows[Main], due |-> due]
  BY MarkedWorld
<1> HIDE DEF r
<1>4. /\ a \in [Objects -> Records] /\ a[o] = r
      /\ \A u \in Objects \ {o} : a[u] = obj[u]
  BY <1>1, <1>2
<1> HIDE DEF a, w
<1>5. Keeps(a, obj') /\ obj' \in [Objects -> Records]
  BY <1>1, <1>3, <1>4, WorldOf, CrowKeeps DEF Becomes, Keeps
<1>6. /\ obj'[o].scheduled
      /\ \A u \in Objects : obj'[u].list = "none" => ~obj'[u].scheduled
      /\ \A u \in Objects \ {o} : obj'[u].scheduled = obj[u].scheduled
  BY <1>1, <1>2, <1>4, <1>5 DEF Keeps, OnceInv
<1>7. CASE o \in Movers
  <2>1. path' \in Thinks(o) /\ OncePath(path) /\ Untouched(path, o)
    BY <1>1, <1>7 DEF OnceInv, shedule_Update, OncePath
  <2>2. OncePath(path') /\ Elsewhere(path, path', o) /\ ~Queued(path', o, "sound")
    BY <1>7, <2>1, ThinksOnce DEF OnceInv
  <2> QED
    BY <1>1, <1>5, <1>6, <1>7, <2>2, EventOnce, FrameAssumption
<1>8. CASE o \notin Movers
  <2>1. path' = path
    BY <1>8 DEF shedule_Update
  <2>2. \A u \in Movers : obj'[u].scheduled = obj[u].scheduled
    BY <1>6, <1>8, FrameAssumption
  <2>3. \A u, fn : Queued(path, u, fn)' <=> Queued(path, u, fn)
    BY <2>1 DEF Queued
  <2>4. /\ WaitsForQueued(path)' <=> WaitsForQueued(path)
        /\ \A u : Untouched(path, u)' <=> Untouched(path, u)
    BY <2>1, <2>3 DEF WaitsForQueued, Untouched
  <2> QED
    BY <1>1, <1>5, <1>6, <2>1, <2>2, <2>3, <2>4 DEF OnceInv
<1> QED
  BY <1>7, <1>8

\* Both delegates are withdrawn.
LEMMA RestrictionsOnce ==
    ASSUME OnceInv, Inv', NEW o \in Objects, RestrictionsChange(o)
    PROVE  OnceInv'
<1>1. o \in Movers /\ phase = "events" /\ phase' = "events" /\ obj' = obj
  BY DEF RestrictionsChange, Event
<1> DEFINE l == remove(path, o, "level")
           r == remove(l, o, "detail")
<1>2. GoodPath(l) /\ GoodPath(r)
  BY <1>1, RemoveGood DEF OnceInv, Inv
<1>3. /\ IsInjective(l.seqParallel) /\ Elsewhere(path, l, o)
      /\ \A g \in DelegateFns : Queued(l, o, g) <=> Queued(path, o, g) /\ g # "level"
  BY <1>1, RemoveOnce DEF OnceInv, Inv, DelegateFns
<1> HIDE DEF l
<1>4. /\ IsInjective(r.seqParallel) /\ Elsewhere(l, r, o)
      /\ \A g \in DelegateFns : Queued(r, o, g) <=> Queued(l, o, g) /\ g # "detail"
  BY <1>1, <1>2, <1>3, RemoveOnce DEF DelegateFns
<1>5. path' = [r EXCEPT !.mm[o].actual = FALSE]
  BY DEF RestrictionsChange, on_restrictions_change, l
<1> HIDE DEF r
<1>6. path'.seqParallel = r.seqParallel /\ \A u \in Movers \ {o} : path'.mm[u] = r.mm[u]
  BY <1>1, <1>2, <1>5 DEF GoodPath, Paths
<1>7. \A u, fn : Queued(path', u, fn) <=> Queued(r, u, fn)
  BY <1>6 DEF Queued
<1>8. ~Queued(path, o, "sound")
  BY <1>1 DEF OnceInv
<1>9. Untouched(path', o)
  BY <1>3, <1>4, <1>7, <1>8 DEF Untouched, DelegateFns
<1>10. Elsewhere(path, path', o)
  BY <1>3, <1>4, <1>6, <1>7 DEF Elsewhere
<1>11. OncePath(path')
  <2>1. IsInjective(path'.seqParallel) /\ WaitsForQueued(path)
    BY <1>1, <1>4, <1>6 DEF OnceInv
  <2> QED
    BY <2>1, <1>9, <1>10 DEF OncePath, WaitsForQueued, Elsewhere, Untouched, DelegateFns
<1>12. \A u \in Objects : obj'[u].list = "none" => ~obj'[u].scheduled
  BY <1>1 DEF OnceInv
<1>13. obj' \in [Objects -> Records] /\ ~Queued(path', o, "sound")
  BY <1>1, <1>9 DEF OnceInv, Untouched
<1> QED
  BY <1>1, <1>9, <1>10, <1>11, <1>12, <1>13, EventOnce

-----------------------------------------------------------------------------
(* The rest of the frame *)

LEMMA CollectOnce ==
    ASSUME OnceInv, Inv', CollectCrows
    PROVE  OnceInv'
<1>1. path' = path /\ phase = "events" /\ phase' \in {"update", "destroy", "render"}
  BY DEF CollectCrows, AfterUpdate
<1>2. obj' \in [Objects -> Records]
  <2>1. \A r \in Records : IAmNotACrowAnyMore(r) \in Records
    BY DEF IAmNotACrowAnyMore, Records
  <2>2. \/ obj' = obj
        \/ obj' = [o \in Objects |->
                     IF Contains(Collected, o) THEN IAmNotACrowAnyMore(obj[o]) ELSE obj[o]]
    BY DEF CollectCrows
  <2> QED
    BY <2>1, <2>2 DEF OnceInv
<1>3. \A u, fn : Queued(path, u, fn)' <=> Queued(path, u, fn)
  BY <1>1 DEF Queued
<1>4. WaitsForQueued(path)' <=> WaitsForQueued(path)
  BY <1>1, <1>3 DEF WaitsForQueued
<1> QED
  BY <1>1, <1>2, <1>3, <1>4 DEF OnceInv

\* UpdateCL() of an object that has not been updated in this frame.
LEMMA UpdateCLOnce ==
    ASSUME OnceInv, Inv', NEW o, ~obj[o].updated, UpdateCL(o), phase = "update",
           phase' \in {"update", "destroy", "render"}
    PROVE  OnceInv'
<1> DEFINE r == [obj[o] EXCEPT !.updated = TRUE]
           a == [obj EXCEPT ![o] = r]
           w == [World EXCEPT !.obj[o].updated = TRUE]
<1>1. obj \in [Objects -> Records] /\ WaitsForQueued(path) /\ IsInjective(path.seqParallel)
  BY DEF OnceInv
<1>2. o \in Objects => r \in Records /\ r.updated
  <2> SUFFICES ASSUME o \in Objects PROVE r \in Records /\ r.updated
    OBVIOUS
  <2>1. obj[o] \in Records
    BY <1>1
  <2> QED
    BY <2>1 DEF Records
<1>3. w = [obj |-> a, crows |-> m_secondary_crows[Main], due |-> due]
  BY MarkedWorld
<1> HIDE DEF r
<1>4. /\ a \in [Objects -> Records] /\ (o \in Objects => a[o] = r)
      /\ \A u \in Objects \ {o} : a[u] = obj[u]
  BY <1>1, <1>2
<1> HIDE DEF a
<1>5. IsWorld(w) /\ w.obj = a
  BY <1>3, <1>4, WorldOf
<1>6. PICK t \in {w, MakeMeCrow(w, o)} :
         obj' \in {t.obj, processing_deactivate(t, o).obj}
  BY DEF UpdateCL, Becomes
<1> HIDE DEF w
<1>7. IsWorld(t) /\ Keeps(a, t.obj)
  BY <1>4, <1>5, <1>6, CrowKeeps DEF Keeps
<1>8. Keeps(a, obj')
  BY <1>6, <1>7, DeactivateKeeps DEF Keeps
<1>9. /\ obj' \in [Objects -> Records] /\ (o \in Objects => obj'[o].updated)
      /\ \A u \in Objects \ {o} : obj'[u].updated = obj[u].updated
  BY <1>2, <1>4, <1>8 DEF Keeps
<1>10. CASE o \in Movers
  <2>1. PICK p \in on_frame(path, o, obj[o].bDestroy) : path' = Queue(p, o, "sound")
    BY <1>10 DEF UpdateCL
  <2>2. GoodPath(p) /\ Orders(path, p, o)
    BY <1>10, <2>1, OnFrameGood, OnFrameOrders DEF OnceInv, Inv
  <2>3. ~Queued(path, o, "sound")
    BY <1>10 DEF OnceInv
  <2>4. OncePath(p) /\ Elsewhere(path, p, o) /\ ~Queued(p, o, "sound")
    BY <1>1, <1>10, <2>2, <2>3, OrdersOnce DEF OnceInv, Inv, OncePath
  <2> DEFINE q == Queue(p, o, "sound")
  <2>5. q.mm = p.mm /\ q.seqParallel = Append(p.seqParallel, Delegate(o, "sound"))
    BY <2>2 DEF Queue, GoodPath, Paths
  <2> HIDE DEF q
  <2>6. /\ IsInjective(q.seqParallel)
        /\ \A u \in Movers, g \in DelegateFns :
              Queued(q, u, g) <=> Queued(p, u, g) \/ (u = o /\ g = "sound")
    <3> DEFINE fn == "sound"
    <3>1. /\ GoodPath(p) /\ IsInjective(p.seqParallel) /\ fn \in DelegateFns
          /\ ~Queued(p, o, fn) /\ q.seqParallel = Append(p.seqParallel, Delegate(o, fn))
      BY <2>2, <2>4, <2>5 DEF OncePath, DelegateFns
    <3> HIDE DEF fn
    <3>2. /\ IsInjective(q.seqParallel)
          /\ \A u \in Movers, g \in DelegateFns :
                Queued(q, u, g) <=> Queued(p, u, g) \/ (u = o /\ g = fn)
      BY <1>10, <3>1, QueueOnce
    <3> QED
      BY <3>2 DEF fn
  <2>7. WaitsForQueued(q)
    BY <2>4, <2>5, <2>6 DEF OncePath, WaitsForQueued, DelegateFns
  <2>8. \A u \in Movers : Queued(q, u, "sound") => obj'[u].updated
    BY <1>9, <1>10, <2>4, <2>6, FrameAssumption DEF OnceInv, Elsewhere, DelegateFns
  <2>9. /\ WaitsForQueued(path)' /\ IsInjective(path.seqParallel)'
        /\ \A u \in Movers : Queued(path, u, "sound")' => obj'[u].updated
    BY <2>1, <2>6, <2>7, <2>8 DEF WaitsForQueued, Queued, q
  <2> QED
    BY <1>9, <2>9 DEF OnceInv
<1>11. CASE o \notin Movers
  <2>1. path' = path
    BY <1>11 DEF UpdateCL
  <2>2. \A u \in Movers : obj'[u].updated = obj[u].updated
    BY <1>9, <1>11, FrameAssumption
  <2>3. \A u, fn : Queued(path, u, fn)' <=> Queued(path, u, fn)
    BY <2>1 DEF Queued
  <2>4. WaitsForQueued(path)' <=> WaitsForQueued(path)
    BY <2>1, <2>3 DEF WaitsForQueued
  <2> QED
    BY <1>9, <2>1, <2>2, <2>3, <2>4 DEF OnceInv
<1> QED
  BY <1>10, <1>11

LEMMA SingleUpdateOnce ==
    ASSUME OnceInv, Inv', SingleUpdate
    PROVE  OnceInv'
<1>1. phase = "update" /\ phase' \in {"update", "destroy", "render"}
  BY DEF SingleUpdate, AfterUpdate
<1>2. \/ obj' = obj /\ path' = path
      \/ \E o : ~obj[o].updated /\ UpdateCL(o)
  BY DEF SingleUpdate, Updates
<1>3. CASE obj' = obj /\ path' = path
  <2>1. \A u, fn : Queued(path, u, fn)' <=> Queued(path, u, fn)
    BY <1>3 DEF Queued
  <2>2. WaitsForQueued(path)' <=> WaitsForQueued(path)
    BY <1>3, <2>1 DEF WaitsForQueued
  <2> QED
    BY <1>1, <1>3, <2>1, <2>2 DEF OnceInv
<1> QED
  BY <1>1, <1>2, <1>3, UpdateCLOnce

LEMMA DestroyLastOnce ==
    ASSUME OnceInv, Inv', DestroyLast
    PROVE  OnceInv'
<1> DEFINE o == Last(destroy_queue)
           l == remove(path, o, "level")
           d == remove(l, o, "detail")
<1>1. phase' \in {"destroy", "render"} /\ obj' = [obj EXCEPT ![o] = NoObject]
  BY DEF DestroyLast
<1>2. obj' \in [Objects -> Records]
  <2>1. NoObject \in Records
    BY DEF NoObject, Records
  <2> HIDE DEF o
  <2> QED
    BY <1>1, <2>1 DEF OnceInv
<1>3. path' = IF o \in Movers THEN Forgotten(o) ELSE path
  BY DEF DestroyLast
<1> HIDE DEF o
<1>4. CASE o \in Movers
  <2>1. GoodPath(path) /\ IsInjective(path.seqParallel)
    BY DEF OnceInv, Inv
  <2>2. GoodPath(l) /\ IsInjective(l.seqParallel)
    BY <1>4, <2>1, RemoveGood, RemoveOnce DEF DelegateFns
  <2> HIDE DEF l
  <2>3. GoodPath(d) /\ IsInjective(d.seqParallel)
    BY <1>4, <2>2, RemoveGood, RemoveOnce DEF DelegateFns
  <2> HIDE DEF d
  <2> DEFINE s == RemoveFirst(d.seqParallel, Delegate(o, "sound"))
  <2>4. IsInjective(s)
    BY <2>3, RemoveFirstToSet DEF GoodPath, Paths
  <2>5. path' = [d EXCEPT !.seqParallel = s, !.mm[o] = NewManager(FALSE)]
    BY <1>3, <1>4 DEF Forgotten, l, d
  <2> HIDE DEF s
  <2>6. path'.seqParallel = s
    BY <2>3, <2>5 DEF GoodPath, Paths
  <2> QED
    BY <1>1, <1>2, <2>4, <2>6 DEF OnceInv
<1>5. CASE o \notin Movers
  BY <1>1, <1>2, <1>3, <1>5, LaterPhase
<1> QED
  BY <1>4, <1>5

LEMMA RenderOnce ==
    ASSUME OnceInv, Inv', NEW w \in Workers,
           (\E o \in Objects : Render(w, o)) \/ Exchange(w) \/ Push(w) \/ Flag(w)
    PROVE  OnceInv'
<1>1. path' = path /\ phase' = phase /\ phase = "render"
  BY DEF Render, Exchange, Push, Flag, Rendering
<1>2. \A r \in Records : /\ [r EXCEPT !.asCrow = TRUE] \in Records
                         /\ [r EXCEPT !.crow = TRUE] \in Records
  BY DEF Records
<1>3. \/ obj' = obj
      \/ \E o : obj' = [obj EXCEPT ![o].asCrow = TRUE]
      \/ \E o : obj' = [obj EXCEPT ![o].crow = TRUE]
  BY DEF Render, Exchange, Push, Flag
<1>4. obj' \in [Objects -> Records]
  BY <1>2, <1>3 DEF OnceInv
<1> QED
  BY <1>1, <1>4, LaterPhase

LEMMA ParallelOnce ==
    ASSUME OnceInv, Inv', RunParallel
    PROVE  OnceInv'
<1> DEFINE d == Head(path.seqParallel)
           p == [path EXCEPT !.seqParallel = Tail(@)]
<1>1. phase' = "render" /\ obj' = obj /\ path.seqParallel # <<>>
  BY DEF RunParallel
<1>2. /\ d \in Delegates /\ Tail(path.seqParallel) \in Seq(Delegates)
      /\ IsInjective(Tail(path.seqParallel))
  <2>1. path.seqParallel \in Seq(Delegates) /\ IsInjective(path.seqParallel)
    BY DEF OnceInv, Inv, GoodPath, Paths
  <2> DEFINE s == path.seqParallel
             t == Tail(s)
  <2>2. /\ d \in Delegates /\ t \in Seq(Delegates) /\ Len(t) = Len(s) - 1
        /\ \A i \in 1 .. Len(t) : t[i] = s[i + 1]
    BY <1>1, <2>1, HeadTailProperties
  <2>3. DOMAIN s = 1 .. Len(s) /\ DOMAIN t = 1 .. Len(t) /\ Len(s) \in Nat
    BY <2>1, <2>2
  <2> HIDE DEF s, t
  <2>4. IsInjective(t)
    <3> SUFFICES ASSUME NEW i \in 1 .. Len(t), NEW j \in 1 .. Len(t), t[i] = t[j]
                 PROVE  i = j
      BY <2>3 DEF IsInjective
    <3>1. i + 1 \in DOMAIN s /\ j + 1 \in DOMAIN s /\ s[i + 1] = s[j + 1]
      BY <2>2, <2>3
    <3> QED
      BY <2>1, <3>1 DEF IsInjective, s
  <2> QED
    BY <2>2, <2>4 DEF s, t
<1>3. GoodPath(p) /\ p.seqParallel = Tail(path.seqParallel)
  BY <1>2, SeqGood DEF OnceInv, Inv, GoodPath, Paths
<1>4. d.obj \in Movers /\ d.fn \in {"level", "detail", "sound"}
  BY <1>2 DEF Delegates
<1>5. path' \in CASE d.fn = "level" -> level_process(p, d.obj)
                  [] d.fn = "detail" -> detail_process(p, d.obj)
                  [] d.fn = "sound" -> {p}
  BY DEF RunParallel
<1> HIDE DEF d, p
<1>6. path'.seqParallel = p.seqParallel
  <2>1. CASE d.fn = "level"
    BY <1>3, <1>4, <1>5, <2>1, LevelProcessQuiet DEF Quiet
  <2>2. CASE d.fn = "detail"
    BY <1>3, <1>4, <1>5, <2>2, DetailProcessQuiet DEF Quiet
  <2>3. CASE d.fn = "sound"
    BY <1>5, <2>3
  <2> QED
    BY <1>4, <2>1, <2>2, <2>3
<1> QED
  BY <1>1, <1>2, <1>3, <1>6 DEF OnceInv

\* Everything queued has run; the marks of the frame are cleared.
LEMMA NextFrameOnce ==
    ASSUME OnceInv, Inv', NextFrame
    PROVE  OnceInv'
<1>1. /\ phase' = "events" /\ path.seqParallel = <<>>
      /\ obj' = [o \in Objects |-> [obj[o] EXCEPT !.asCrow = FALSE, !.updated = FALSE,
                                                 !.scheduled = FALSE]]
  BY DEF NextFrame
<1>2. path'.seqParallel = <<>>
  <2>1. path'.seqParallel = path.seqParallel
    BY DEF NextFrame, OnceInv, Inv, GoodPath, Paths
  <2> QED
    BY <1>1, <2>1
<1>3. \A r \in Records :
         LET n == [r EXCEPT !.asCrow = FALSE, !.updated = FALSE, !.scheduled = FALSE]
         IN  n \in Records /\ ~n.scheduled
  BY DEF Records
<1>4. obj' \in [Objects -> Records] /\ \A o \in Objects : ~obj'[o].scheduled
  BY <1>1, <1>3 DEF OnceInv
<1>5. \A u, fn : ~Queued(path, u, fn)'
  BY <1>2 DEF Queued, ToSet
<1>6. IsInjective(path.seqParallel)'
  BY <1>2 DEF IsInjective
<1> QED
  BY <1>1, <1>4, <1>5, <1>6 DEF OnceInv, WaitsForQueued, Untouched

LEMMA OnceNext == OnceInv /\ [Next]_vars => OnceInv'
<1> SUFFICES ASSUME OnceInv, [Next]_vars PROVE OnceInv'
  OBVIOUS
<1>1. Inv'
  BY NextGood DEF OnceInv
<1>2. CASE ObjectEvent
  <2>1. PICK o \in Objects :
           \/ Spawn(o) \/ Activate(o) \/ Deactivate(o)
           \/ setDestroy(o) \/ shedule_Update(o) \/ RestrictionsChange(o)
           \/ \E p \in Objects : SetParent(o, p)
    BY <1>2 DEF ObjectEvent
  <2> QED
    BY <1>1, <2>1, SpawnOnce, ProcessingOnce, SetDestroyOnce, ScheduleOnce,
       RestrictionsOnce, AttachOnce
<1>3. ASSUME NEW w \in Workers,
             (\E o \in Objects : Render(w, o)) \/ Exchange(w) \/ Push(w) \/ Flag(w)
      PROVE  OnceInv'
  BY <1>1, <1>3, RenderOnce
<1>4. CASE CollectCrows \/ SingleUpdate \/ DestroyLast
  BY <1>1, <1>4, CollectOnce, SingleUpdateOnce, DestroyLastOnce
<1>5. CASE RunParallel \/ NextFrame
  BY <1>1, <1>5, ParallelOnce, NextFrameOnce
<1>6. CASE UNCHANGED vars
  <2>1. Keeps(obj, obj') /\ path' = path /\ phase' = phase
    BY <1>6 DEF vars, OnceInv, Keeps
  <2> QED
    BY <1>1, <2>1, MarksKept
<1> QED
  BY <1>2, <1>3, <1>4, <1>5, <1>6 DEF Next, FrameStep

LEMMA OnceCounted ==
    ASSUME OnceInv
    PROVE  DelegateOnce
<1> SUFFICES ASSUME NEW d \in Delegates
             PROVE  Occurrences(path.seqParallel, d) <= 1
  BY DEF DelegateOnce
<1> DEFINE I == {i \in DOMAIN path.seqParallel : path.seqParallel[i] = d}
<1>1. \A i, j \in I : i = j
  BY DEF OnceInv, IsInjective
<1>2. CASE I = {}
  BY <1>2, FS_EmptySet DEF Occurrences
<1>3. ASSUME NEW i \in I
      PROVE  Cardinality(I) = 1
  <2>1. I = {i}
    BY <1>1
  <2> QED
    BY <2>1, FS_Singleton
<1> QED
  BY <1>2, <1>3 DEF Occurrences

-----------------------------------------------------------------------------
\* process_level_path() never comes to its NODEFAULT, however many creatures there
\* are and in whichever order results, restrictions and orders arrive.
THEOREM NoDefaultHolds == Spec => []NoDefault
<1>1. Inv => NoDefault
  BY DEF Inv, GoodPath, KnownState, NoDefault
<1> QED
  BY <1>1, InitGood, NextGood, PTL DEF Spec

\* However often creatures order, withdraw and order again, in whichever frame, no
\* delegate is queued twice, so that net_Destroy(), which erases the first one,
\* leaves none behind for a deleted creature.
THEOREM DelegateOnceHolds == Spec => []DelegateOnce
BY OnceInit, OnceNext, OnceCounted, PTL DEF Spec

\* The managers and the queue of delegates keep their types.
THEOREM PathsTyped == Spec => [](path \in Paths)
<1>1. Inv => path \in Paths
  BY DEF Inv, GoodPath
<1> QED
  BY <1>1, InitGood, NextGood, PTL DEF Spec

=============================================================================
