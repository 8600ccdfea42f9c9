----------------------------- MODULE Scheduler ------------------------------
(***************************************************************************)
(* class CSheduler of xrEngine/xrSheduler.cpp: once per frame Update()     *)
(* applies the queued registrations, updates every real-time object, then  *)
(* ProcessStep() updates the other objects whose time has come, earliest   *)
(* first, until the frame's budget is used up.                             *)
(*                                                                         *)
(* Everything runs on one thread, but shedule_Update() is client code: it  *)
(* may register and unregister any object, itself included, in the middle  *)
(* of both loops.  The action names are the places of Update() where       *)
(* control passes between the scheduler and its clients.                   *)
(*                                                                         *)
(* Times are kept relative to Device.dwTimeGlobal: "due" is                *)
(* dwTimeForExecute - dwTimeGlobal.  Items is a set: two items without an  *)
(* object and with the same time count as one.                             *)
(***************************************************************************)
EXTENDS Integers, Sequences, SequencesExt, FiniteSets

CONSTANTS
    Objects,        \* the ISheduled objects
    MaxTick,        \* a frame advances the time by 1 .. MaxTick
    MaxPeriod,      \* an object's next update is 1 .. MaxPeriod away
    MaxLate,        \* the lateness NotLate promises
    MaxQueue,       \* bound on the queued registrations
    MaxItems,       \* bound on the items when an object is registered
    EraseInLoop,    \* may a real-time object be unregistered in their loop?
    null            \* nullptr

ASSUME ObjectsAssumption == IsFiniteSet(Objects) /\ null \notin Objects
ASSUME TimeAssumption ==
    MaxTick \in Nat \ {0} /\ MaxPeriod \in Nat \ {0} /\ MaxLate \in Nat
ASSUME QueueAssumption == MaxQueue \in Nat /\ MaxItems \in Nat
ASSUME EraseAssumption == EraseInLoop \in BOOLEAN

VARIABLES
    Items,              \* the heap: records [obj, due]
    ItemsRT,            \* the vector of real-time objects
    ItemsProcessed,     \* updated by this ProcessStep(), pushed back at its end
    Registration,       \* the queue of Register() and Unregister() calls
    m_current_step_obj,
    m_processing_now,
    b_RT,               \* GetSchedulerData().b_RT of each object
    pc,                 \* where Update() is
    rt,                 \* the real-time loop: position, end and what erase left there
    i,                  \* ProcessStep()'s counter, modulo 3
    wanted,             \* history: objects whose last client call was Register()
    needed,             \* objects whose shedule_Needed() is true
    updated             \* history: objects updated in this frame

vars == <<Items, ItemsRT, ItemsProcessed, Registration, m_current_step_obj,
          m_processing_now, b_RT, pc, rt, i, wanted, needed, updated>>
lists == <<Items, ItemsRT, ItemsProcessed>>
loops == <<pc, i, updated>>

Item(o, due) == [obj |-> o, due |-> due]
Op(reg, real, o) == [OP |-> reg, RT |-> real, obj |-> o]
NoLoop == [pos |-> 0, end |-> 0, left |-> <<>>]

Init ==
    /\ Items = {}
    /\ ItemsRT = <<>>
    /\ ItemsProcessed = {}
    /\ Registration = <<>>
    /\ m_current_step_obj = null
    /\ m_processing_now = FALSE
    /\ b_RT = [o \in Objects |-> FALSE]
    /\ pc = "idle"
    /\ rt = NoLoop
    /\ i = 0
    /\ wanted = {}
    /\ needed = Objects
    /\ updated = {}

Position(seq, o) == CHOOSE k \in DOMAIN seq : seq[k] = o
InRT(o) == Contains(ItemsRT, o)
InHeap(o) == \E x \in Items : x.obj = o
InProcessed(o) == \E x \in ItemsProcessed : x.obj = o
Calls(o) == {k \in DOMAIN Registration : Registration[k].obj = o}

\* Registered(): the lists, then the queued calls, of which the last one
\* counts, then the object that is being updated and has left the heap for
\* that.
Registered(o) ==
    \/ Calls(o) = {} /\ (InRT(o) \/ InHeap(o) \/ InProcessed(o))
    \/ \E k \in Calls(o) : Registration[k].OP /\ \A m \in Calls(o) : m <= k
    \/ m_current_step_obj = o

-----------------------------------------------------------------------------
(***************************************************************************)
(* What the clients call, between two frames or from shedule_Update().     *)
(***************************************************************************)
ClientTurn == pc \in {"idle", "rtUpdate", "stepUpdate"}

\* Register() asserts that the object is not registered.  A new object is
\* needed.
Register(o, real) ==
    /\ ClientTurn
    /\ ~Registered(o)
    /\ o \notin wanted
    /\ Len(Registration) < MaxQueue
    /\ Cardinality(Items) < MaxItems
    /\ b_RT' = [b_RT EXCEPT ![o] = real]
    /\ Registration' = Append(Registration, Op(TRUE, real, o))
    /\ wanted' = wanted \cup {o}
    /\ needed' = needed \cup {o}
    /\ UNCHANGED <<lists, m_current_step_obj, m_processing_now, rt, loops>>

\* internal_Unregister(), real-time: the element is erased from the vector.
\* The running loop keeps its old end, where the erase leaves the moved-from
\* last element behind.
EraseRT(o) ==
    /\ ItemsRT' = RemoveAt(ItemsRT, Position(ItemsRT, o))
    /\ rt' = IF rt.end = 0 THEN rt
             ELSE [rt EXCEPT !.left = <<ItemsRT[Len(ItemsRT)]>> \o @]
    /\ UNCHANGED <<Items, m_current_step_obj>>

\* internal_Unregister(), otherwise: the item stays without its object.
ClearItem(o) ==
    /\ Items' = {IF x.obj = o THEN Item(null, x.due) ELSE x : x \in Items}
    /\ UNCHANGED <<ItemsRT, rt, m_current_step_obj>>

\* Mutant: the object being updated is not marked as unregistered.
KeepCurrent == UNCHANGED <<m_current_step_obj, Items, ItemsRT, rt>>

\* internal_Unregister(): of the object being updated.
ClearCurrent ==
    /\ m_current_step_obj' = null
    /\ UNCHANGED <<Items, ItemsRT, rt>>

Found(o, real) == IF real THEN InRT(o) ELSE InHeap(o)

internal_Unregister(o, real) ==
    \/ Found(o, real) /\ IF real THEN EraseRT(o) ELSE ClearItem(o)
    \/ ~Found(o, real) /\ m_current_step_obj = o /\ ClearCurrent
    \/ /\ ~Found(o, real) /\ m_current_step_obj # o
       /\ UNCHANGED <<Items, ItemsRT, rt, m_current_step_obj>>

\* Unregister(): at once if Update() is in its loops and finds the object,
\* else through the queue.  A client unregisters what it has registered.
Unregister(o) ==
    /\ ClientTurn
    /\ o \in wanted
    /\ pc = "rtUpdate" /\ b_RT[o] => EraseInLoop
    /\ \/ /\ m_processing_now
          /\ Found(o, b_RT[o]) \/ m_current_step_obj = o
          /\ internal_Unregister(o, b_RT[o])
          /\ UNCHANGED Registration
       \/ /\ ~(m_processing_now /\ (Found(o, b_RT[o]) \/ m_current_step_obj = o))
          /\ Len(Registration) < MaxQueue
          /\ Registration' = Append(Registration, Op(FALSE, b_RT[o], o))
          /\ UNCHANGED <<Items, ItemsRT, rt, m_current_step_obj>>
    /\ wanted' = wanted \ {o}
    /\ UNCHANGED <<ItemsProcessed, m_processing_now, b_RT, needed, loops>>

\* setDestroy(): shedule_Needed() is false from now on.  The game marks and
\* unregisters an object between two Updates; that one is still registered when
\* ProcessStep() comes to it is a behaviour added here, which no property needs.
SetDestroy(o) ==
    /\ ClientTurn
    /\ o \in wanted \cap needed
    /\ needed' = needed \ {o}
    /\ UNCHANGED <<lists, Registration, m_current_step_obj, m_processing_now, b_RT,
                   rt, loops, wanted>>

\* EnsureOrder(): the second real-time object moves to the end.
EnsureOrder(before, after) ==
    /\ pc = "idle"
    /\ b_RT[before] /\ b_RT[after]
    /\ InRT(after)
    /\ ItemsRT' = Append(RemoveAt(ItemsRT, Position(ItemsRT, after)), after)
    /\ UNCHANGED <<Items, ItemsProcessed, Registration, m_current_step_obj,
                   m_processing_now, b_RT, rt, loops, wanted, needed>>

Client ==
    \E o \in Objects :
        \/ \E real \in BOOLEAN : Register(o, real)
        \/ Unregister(o)
        \/ SetDestroy(o)
        \/ \E before \in Objects \ {o} : EnsureOrder(before, o)

\* Destroy(): what is still queued is applied and every list is cleared.  It
\* logs an error if objects are left, so the clients have unregistered all.
Destroy ==
    /\ pc = "idle"
    /\ wanted = {}
    /\ Items' = {} /\ ItemsRT' = <<>> /\ ItemsProcessed' = {} /\ Registration' = <<>>
    /\ UNCHANGED <<m_current_step_obj, m_processing_now, b_RT, rt, loops, wanted, needed>>

-----------------------------------------------------------------------------
(***************************************************************************)
(* Update().                                                               *)
(***************************************************************************)

\* A frame begins: time has passed since the last one.
BeginUpdate ==
    /\ pc = "idle"
    /\ \E d \in 1 .. MaxTick :
        Items' = {Item(x.obj, x.due - d) : x \in Items}
    /\ pc' = "registerBefore"
    /\ UNCHANGED <<ItemsRT, ItemsProcessed, Registration, m_current_step_obj,
                   m_processing_now, b_RT, rt, i, wanted, needed, updated>>

\* Mutant: the pair is found without comparing the objects.
PairedAny == {k \in 2 .. Len(Registration) : ~Registration[k].OP}

Paired ==   \* the queued Unregister() of the object whose Register() is first
    {k \in 2 .. Len(Registration) :
        ~Registration[k].OP /\ Registration[k].obj = Registration[1].obj}

\* internal_Registration(), one call of the queue at a time.
RegisterSkipped ==
    /\ Registration[1].OP
    /\ Paired # {}
    /\ Registration' =
        Tail(RemoveAt(Registration, CHOOSE k \in Paired : \A m \in Paired : k <= m))
    /\ UNCHANGED <<lists, rt, m_current_step_obj>>

\* Mutant: a real-time object goes to the heap as well.
RegisterBoth ==
    LET r == Registration[1] IN
    /\ r.OP
    /\ Paired = {}
    /\ ItemsRT' = IF r.RT THEN Append(ItemsRT, r.obj) ELSE ItemsRT
    /\ Items' = Items \cup {Item(r.obj, 0)}
    /\ b_RT' = [b_RT EXCEPT ![r.obj] = r.RT]
    /\ Registration' = Tail(Registration)
    /\ UNCHANGED <<ItemsProcessed, rt, m_current_step_obj>>

RegisterApplied ==
    LET r == Registration[1] IN
    /\ r.OP
    /\ Paired = {}
    /\ ItemsRT' = IF r.RT THEN Append(ItemsRT, r.obj) ELSE ItemsRT
    /\ Items' = IF r.RT THEN Items ELSE Items \cup {Item(r.obj, 0)}
    /\ b_RT' = [b_RT EXCEPT ![r.obj] = r.RT]
    /\ Registration' = Tail(Registration)
    /\ UNCHANGED <<ItemsProcessed, rt, m_current_step_obj>>

UnregisterApplied ==
    /\ ~Registration[1].OP
    /\ internal_Unregister(Registration[1].obj, Registration[1].RT)
    /\ Registration' = Tail(Registration)
    /\ UNCHANGED ItemsProcessed

internal_Registration ==
    /\ pc \in {"registerBefore", "registerAfter"}
    /\ Registration # <<>>
    /\ \/ (RegisterSkipped \/ UnregisterApplied) /\ UNCHANGED b_RT
       \/ RegisterApplied
    /\ UNCHANGED <<m_processing_now, loops, wanted, needed>>

BeginRealTime ==
    /\ pc = "registerBefore"
    /\ Registration = <<>>
    /\ m_processing_now' = TRUE
    /\ rt' = [pos |-> 1, end |-> Len(ItemsRT), left |-> <<>>]
    /\ pc' = "rt"
    /\ UNCHANGED <<lists, Registration, m_current_step_obj, b_RT, i, wanted, needed,
                   updated>>

AtRT == (ItemsRT \o rt.left)[rt.pos]

\* The loop over ItemsRT: skip, or shedule_Update() of the object.
RealTimeItem ==
    /\ pc = "rt"
    /\ rt.pos <= rt.end
    /\ \/ /\ AtRT \notin needed
          /\ rt' = [rt EXCEPT !.pos = @ + 1]
          /\ UNCHANGED <<pc, updated>>
       \/ /\ AtRT \in needed
          /\ pc' = "rtUpdate"
          /\ updated' = updated \cup {AtRT}
          /\ UNCHANGED rt
    /\ UNCHANGED <<lists, Registration, m_current_step_obj, m_processing_now, b_RT, i,
                   wanted, needed>>

RealTimeReturn ==
    /\ pc = "rtUpdate"
    /\ rt' = [rt EXCEPT !.pos = @ + 1]
    /\ pc' = "rt"
    /\ UNCHANGED <<lists, Registration, m_current_step_obj, m_processing_now, b_RT, i,
                   wanted, needed, updated>>

BeginStep ==
    /\ pc = "rt"
    /\ rt.pos > rt.end
    /\ rt' = NoLoop
    /\ i' = 0
    /\ pc' = "step"
    /\ UNCHANGED <<lists, Registration, m_current_step_obj, m_processing_now, b_RT,
                   wanted, needed, updated>>

\* Mutant: the heap is ordered the wrong way round.
DueLatest == {x \in Items : x.due < 0 /\ \A y \in Items : y.due >= 0 \/ x.due >= y.due}

\* The items that may stand at the top of the heap and whose time has come.
Due == {x \in Items : x.due < 0 /\ \A y \in Items : x.due <= y.due}

\* ProcessStep(): an item that lost its object, or whose object is no longer
\* needed, is dropped.
DropItem ==
    /\ pc = "step"
    /\ \E x \in Due :
        /\ x.obj \notin needed
        /\ Items' = Items \ {x}
    /\ i' = (i + 1) % 3
    /\ UNCHANGED <<ItemsRT, ItemsProcessed, Registration, m_current_step_obj,
                   m_processing_now, b_RT, rt, pc, wanted, needed, updated>>

\* ProcessStep(): Pop() and shedule_Update().
UpdateItem ==
    /\ pc = "step"
    /\ \E x \in Due :
        /\ x.obj \in needed
        /\ Items' = Items \ {x}
        /\ m_current_step_obj' = x.obj
        /\ updated' = updated \cup {x.obj}
    /\ pc' = "stepUpdate"
    /\ UNCHANGED <<ItemsRT, ItemsProcessed, Registration, m_processing_now, b_RT, rt, i,
                   wanted, needed>>

\* ProcessStep(): back from shedule_Update() of an object that unregistered
\* itself meanwhile.
ReturnUnregistered ==
    /\ pc = "stepUpdate"
    /\ m_current_step_obj = null
    /\ pc' = "step"
    /\ i' = (i + 1) % 3
    /\ UNCHANGED <<lists, Registration, m_current_step_obj, m_processing_now, b_RT, rt,
                   wanted, needed, updated>>

\* ProcessStep(): back from shedule_Update(); after every third item the
\* loop may end because the time of the frame is used up.
ReturnProcessed ==
    /\ pc = "stepUpdate"
    /\ m_current_step_obj # null
    /\ \E period \in 1 .. MaxPeriod :
        ItemsProcessed' = ItemsProcessed \cup {Item(m_current_step_obj, period)}
    /\ m_current_step_obj' = null
    /\ i' = (i + 1) % 3
    /\ pc' \in IF i = 2 THEN {"step", "stepEnd"} ELSE {"step"}
    /\ UNCHANGED <<Items, ItemsRT, Registration, m_processing_now, b_RT, rt, wanted,
                   needed, updated>>

\* Mutant: the processed items are pushed back and kept.
EndStepKeeping ==
    /\ pc = "stepEnd" \/ (pc = "step" /\ Due = {})
    /\ Items' = Items \cup ItemsProcessed
    /\ m_processing_now' = FALSE
    /\ pc' = "registerAfter"
    /\ i' = 0
    /\ UNCHANGED <<ItemsRT, ItemsProcessed, Registration, m_current_step_obj, b_RT, rt,
                   wanted, needed, updated>>

\* Mutant: the processed items are forgotten.
EndStepForgetting ==
    /\ pc = "stepEnd" \/ (pc = "step" /\ Due = {})
    /\ ItemsProcessed' = {}
    /\ m_processing_now' = FALSE
    /\ pc' = "registerAfter"
    /\ i' = 0
    /\ UNCHANGED <<Items, ItemsRT, Registration, m_current_step_obj, b_RT, rt, wanted,
                   needed, updated>>

\* ProcessStep(): push the processed items back.
EndStep ==
    /\ pc = "stepEnd" \/ (pc = "step" /\ Due = {})
    /\ Items' = Items \cup ItemsProcessed
    /\ ItemsProcessed' = {}
    /\ m_processing_now' = FALSE
    /\ pc' = "registerAfter"
    /\ i' = 0
    /\ UNCHANGED <<ItemsRT, Registration, m_current_step_obj, b_RT, rt, wanted, needed,
                   updated>>

EndUpdate ==
    /\ pc = "registerAfter"
    /\ Registration = <<>>
    /\ pc' = "idle"
    /\ updated' = {}
    /\ UNCHANGED <<lists, Registration, m_current_step_obj, m_processing_now, b_RT, rt,
                   i, wanted, needed>>

Update ==
    \/ BeginUpdate \/ internal_Registration
    \/ BeginRealTime \/ RealTimeItem \/ RealTimeReturn
    \/ BeginStep \/ DropItem \/ UpdateItem
    \/ ReturnUnregistered \/ ReturnProcessed \/ EndStep \/ EndUpdate

Next == Client \/ Destroy \/ Update

\* The device loop calls Update() every frame and shedule_Update() returns.
Spec == Init /\ [][Next]_vars /\ WF_vars(Update)

-----------------------------------------------------------------------------
PCs == {"idle", "registerBefore", "rt", "rtUpdate", "step", "stepUpdate", "stepEnd",
        "registerAfter"}

TypeOK ==
    /\ \A x \in Items : x.obj \in Objects \cup {null} /\ x.due \in Int
    /\ \A x \in ItemsProcessed : x.obj \in Objects /\ x.due \in 1 .. MaxPeriod
    /\ \A k \in DOMAIN ItemsRT : ItemsRT[k] \in Objects
    /\ \A k \in DOMAIN Registration :
        Registration[k] \in [OP : BOOLEAN, RT : BOOLEAN, obj : Objects]
    /\ m_current_step_obj \in Objects \cup {null}
    /\ m_processing_now \in BOOLEAN
    /\ b_RT \in [Objects -> BOOLEAN]
    /\ pc \in PCs
    /\ rt.pos \in Nat /\ rt.end \in Nat
    /\ i \in 0 .. 2
    /\ wanted \subseteq Objects /\ needed \subseteq Objects /\ updated \subseteq Objects

Live(o) ==  \* how many entries of the lists name the object
    Cardinality({x \in Items : x.obj = o}) + Cardinality({x \in ItemsProcessed : x.obj = o})
    + Cardinality({k \in DOMAIN ItemsRT : ItemsRT[k] = o})
    + (IF m_current_step_obj = o THEN 1 ELSE 0)

\* An object is never in two lists, nor twice in one: it would be updated
\* twice as often and survive its Unregister().
OneEntry == \A o \in Objects : Live(o) <= 1

SchedulerInv == TypeOK /\ OneEntry

\* What the clients asked for last is what the scheduler knows, through both
\* the immediate and the queued path, except that an object that is no
\* longer needed may have been dropped.
RegistryAgrees ==
    \A o \in Objects :
        /\ Registered(o) => o \in wanted
        /\ o \in wanted /\ o \in needed => Registered(o)

\* shedule_Update() is never called on an object after its Unregister(): the
\* object may have been deleted.
NoUpdateAfterUnregister == [][updated' \ updated \subseteq wanted]_vars

\* VERIFY in Update() and Fatal in ScheduledBase::shedule_Update(): an object
\* is updated at most once per frame.
UpdatedOncePerFrame ==
    [][/\ pc = "rt" /\ pc' = "rtUpdate" => AtRT \notin updated
       /\ pc = "step" /\ pc' = "stepUpdate" => m_current_step_obj' \notin updated]_vars

\* Earliest first keeps every object's update within reach although the
\* budget may end any frame after three items: no item is ever later than
\* MaxLate.
NotLate == \A x \in Items : x.due >= -MaxLate

\* Nobody starves: a registered object is updated again, or it was meanwhile
\* unregistered or is no longer needed.
NoStarvation ==
    \A o \in Objects : o \in wanted ~> (o \in updated \/ o \notin wanted \cap needed)

=============================================================================
