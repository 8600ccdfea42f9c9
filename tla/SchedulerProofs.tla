-------------------------- MODULE SchedulerProofs ---------------------------
(***************************************************************************)
(* Whatever the objects, the periods and the clients do: an object is in   *)
(* at most one list of the scheduler, and what the lists and the queue     *)
(* together say of it is what its clients asked for last; and as long as   *)
(* no real-time object is unregistered in their loop, no object is updated *)
(* after its Unregister() nor twice in a frame.  And no item of the heap   *)
(* is later than the frames need to work through a full heap.              *)
(***************************************************************************)
EXTENDS Scheduler, SequenceFacts, FiniteSetTheorems

ItemRecords == [obj : Objects \cup {null}, due : Int]
ProcessedRecords == [obj : Objects, due : 1 .. MaxPeriod]
OpRecords == [OP : BOOLEAN, RT : BOOLEAN, obj : Objects]
RTLoops == [pos : Nat, end : Nat, left : Seq(Objects)]

\* TypeOK, with the collections as subsets and sequences of their elements.
Typed ==
    /\ Items \in SUBSET ItemRecords
    /\ ItemsProcessed \in SUBSET ProcessedRecords
    /\ ItemsRT \in Seq(Objects)
    /\ Registration \in Seq(OpRecords)
    /\ m_current_step_obj \in Objects \cup {null}
    /\ m_processing_now \in BOOLEAN
    /\ b_RT \in [Objects -> BOOLEAN]
    /\ pc \in PCs
    /\ rt \in RTLoops
    /\ i \in 0 .. 2
    /\ wanted \in SUBSET Objects
    /\ needed \in SUBSET Objects
    /\ updated \in SUBSET Objects

\* OneEntry without counting.
Apart ==
    /\ IsInjective(ItemsRT)
    /\ \A x, y \in Items : x.obj = y.obj /\ x.obj # null => x = y
    /\ \A x, y \in ItemsProcessed : x.obj = y.obj => x = y
    /\ \A o \in Objects :
        /\ InRT(o) => ~InHeap(o) /\ ~InProcessed(o) /\ m_current_step_obj # o
        /\ InHeap(o) => ~InProcessed(o) /\ m_current_step_obj # o
        /\ InProcessed(o) => m_current_step_obj # o

InLoops == {"rt", "rtUpdate", "step", "stepUpdate", "stepEnd"}

\* What each place of Update() allows.
Phases ==
    /\ m_processing_now <=> pc \in InLoops
    /\ ItemsProcessed # {} => pc \in {"step", "stepUpdate", "stepEnd"}
    /\ m_current_step_obj # null => pc = "stepUpdate"
    /\ IF pc \in {"rt", "rtUpdate"}
       THEN /\ rt.pos >= 1
            /\ rt.end = Len(ItemsRT) + Len(rt.left)
            /\ pc = "rtUpdate" => rt.pos <= rt.end
       ELSE rt = NoLoop

Listed(o) == InRT(o) \/ InHeap(o) \/ InProcessed(o) \/ m_current_step_obj = o

Waiting(o) == InRT(o) \/ InHeap(o) \/ m_current_step_obj = o

SameObject(j, k) == Registration[j].obj = Registration[k].obj
FirstAt(k) == \A j \in 1 .. k - 1 : ~SameObject(j, k)
LastAt(k) == \A j \in k + 1 .. Len(Registration) : ~SameObject(j, k)
Consecutive(k, m) ==
    k < m /\ SameObject(k, m) /\ \A j \in k + 1 .. m - 1 : ~SameObject(j, k)

\* Of one object, calls to Register() and Unregister() alternate.
Alternate ==
    \A k, m \in DOMAIN Registration :
        Consecutive(k, m) => Registration[k].OP # Registration[m].OP

\* The last call queued for an object is what the clients want.
LastCall ==
    \A k \in DOMAIN Registration :
        LastAt(k) => LET r == Registration[k] IN
                   (r.OP <=> r.obj \in wanted) /\ r.RT = b_RT[r.obj]

\* The first call queued for an object fits the list the object is in.
FirstCall ==
    \A k \in DOMAIN Registration, o \in Objects :
        FirstAt(k) /\ Registration[k].obj = o /\ Listed(o) =>
            ~Registration[k].OP /\ Registration[k].RT = InRT(o)

\* An object without queued calls is in a list because it is wanted there.
NoCall ==
    \A o \in Objects : Calls(o) = {} =>
        /\ Listed(o) => o \in wanted /\ b_RT[o] = InRT(o)
        /\ o \in wanted \cap needed => Listed(o)

\* In the loops only new and already processed objects have queued calls.
LoopCall ==
    m_processing_now => \A o \in Objects : Calls(o) # {} => ~Waiting(o)

QueueInv == Alternate /\ LastCall /\ FirstCall /\ NoCall /\ LoopCall

IInv == Typed /\ Apart /\ Phases /\ QueueInv

\* While no real-time object is unregistered in their loop, the vector stays
\* as it was and those before the position have been updated at most; an
\* object updated in this frame is not in the heap any more.
Passed(o, n) == \E k \in 1 .. n : k <= Len(ItemsRT) /\ ItemsRT[k] = o

OnceInv ==
    /\ rt.left = <<>>
    /\ pc = "rt" => \A o \in updated : Passed(o, rt.pos - 1)
    /\ pc = "rtUpdate" => \A o \in updated : Passed(o, rt.pos)
    /\ pc \in InLoops => \A o \in updated : ~InHeap(o)
    /\ pc \in {"idle", "registerBefore"} => updated = {}

-----------------------------------------------------------------------------
(***************************************************************************)
(* What the steps have in common.                                          *)
(***************************************************************************)

LEMMA QueuedOp ==
    ASSUME Registration \in Seq(OpRecords), NEW k \in DOMAIN Registration
    PROVE  /\ k \in 1 .. Len(Registration)
           /\ Registration[k].OP \in BOOLEAN /\ Registration[k].RT \in BOOLEAN
           /\ Registration[k].obj \in Objects
<1>1. k \in 1 .. Len(Registration) /\ Registration[k] \in OpRecords
  OBVIOUS
<1> QED
  BY <1>1 DEF OpRecords

\* A step that leaves the queue alone and moves objects between the lists.
LEMMA QueueKept ==
    ASSUME Registration \in Seq(OpRecords), QueueInv,
           UNCHANGED <<Registration, wanted, b_RT>>,
           needed' \in SUBSET needed,
           \A o \in Objects :
               /\ InRT(o)' = InRT(o)
               /\ Listed(o)' => Listed(o)
               /\ Listed(o) /\ o \in needed' => Listed(o)'
               /\ m_processing_now' /\ Waiting(o)' => m_processing_now /\ Waiting(o)
    PROVE  QueueInv'
<1>1. Alternate'
  BY DEF QueueInv, Alternate, Consecutive, SameObject
<1>2. LastCall'
  BY DEF QueueInv, LastCall, LastAt, SameObject
<1>3. FirstCall'
  <2> SUFFICES ASSUME NEW k \in DOMAIN Registration, NEW o \in Objects, FirstAt(k),
                      Registration[k].obj = o, Listed(o)'
               PROVE  ~Registration[k].OP /\ Registration[k].RT = InRT(o)'
    BY DEF FirstCall, FirstAt, SameObject
  <2> QED
    BY DEF QueueInv, FirstCall
<1>4. NoCall' /\ LoopCall'
  BY DEF QueueInv, NoCall, LoopCall, Calls
<1> QED
  BY <1>1, <1>2, <1>3, <1>4 DEF QueueInv

\* Two calls for one object have two consecutive ones between them.
LEMMA NextCall ==
    ASSUME Registration \in Seq(OpRecords), NEW k \in DOMAIN Registration,
           NEW m \in DOMAIN Registration, k < m, SameObject(k, m)
    PROVE  \E j \in k + 1 .. m : Consecutive(k, j)
<1> DEFINE I == {j \in k + 1 .. m : SameObject(k, j)}
<1>1. m \in I /\ I \in SUBSET Nat
  OBVIOUS
<1>2. PICK x \in I : \A j \in I : x <= j
  <2> HIDE DEF I
  <2> QED
    BY <1>1, LeastElement
<1>3. Consecutive(k, x)
  <2>1. x \in Nat /\ k \in Nat /\ m \in Nat /\ k < x /\ x <= m /\ SameObject(k, x)
    OBVIOUS
  <2>2. ASSUME NEW j \in k + 1 .. x - 1, SameObject(j, k) PROVE FALSE
    <3>1. j \in I
      BY <2>1, <2>2 DEF SameObject
    <3> QED
      BY <1>2, <2>1, <3>1
  <2> QED
    BY <2>1, <2>2 DEF Consecutive
<1> QED
  BY <1>3

\* An object with queued calls has a last one.
LEMMA LastQueued ==
    ASSUME Registration \in Seq(OpRecords), NEW o, Calls(o) # {}
    PROVE  \E k \in Calls(o) : \A m \in Calls(o) : m <= k
<1> DEFINE n == Len(Registration)
           I == {j \in 0 .. n : n - j \in Calls(o)}
<1>1. Calls(o) \subseteq 1 .. n /\ n \in Nat
  BY DEF Calls
<1>2. I # {} /\ I \in SUBSET Nat
  <2>1. PICK k \in Calls(o) : TRUE
    OBVIOUS
  <2>2. n - k \in 0 .. n /\ n - (n - k) = k
    BY <1>1, <2>1
  <2> QED
    BY <2>1, <2>2
<1>3. PICK x \in I : \A j \in I : x <= j
  <2> HIDE DEF I
  <2> QED
    BY <1>2, LeastElement
<1>4. \A m \in Calls(o) : m <= n - x
  <2> SUFFICES ASSUME NEW m \in Calls(o) PROVE m <= n - x
    OBVIOUS
  <2>1. n - m \in I
    BY <1>1
  <2> QED
    BY <1>1, <1>3, <2>1
<1> QED
  BY <1>3, <1>4

\* Register() and Unregister() queue a call.
LEMMA QueueAppended ==
    ASSUME Typed, QueueInv, NEW r \in OpRecords,
           Registration' = Append(Registration, r),
           wanted' = IF r.OP THEN wanted \cup {r.obj} ELSE wanted \ {r.obj},
           r.OP <=> r.obj \notin wanted,
           b_RT' = [b_RT EXCEPT ![r.obj] = r.RT],
           ~r.OP => r.RT = b_RT[r.obj],
           \A o \in Objects : o \in needed' /\ o # r.obj => o \in needed,
           m_processing_now' = m_processing_now,
           m_processing_now => ~Waiting(r.obj),
           \A o \in Objects :
               InRT(o)' = InRT(o) /\ Listed(o)' = Listed(o) /\ Waiting(o)' = Waiting(o)
    PROVE  QueueInv'
<1> DEFINE n == Len(Registration)
<1>1. /\ n \in Nat /\ DOMAIN Registration = 1 .. n /\ DOMAIN Registration' = 1 .. n + 1
      /\ Len(Registration') = n + 1 /\ Registration'[n + 1] = r
      /\ \A k \in 1 .. n : Registration'[k] = Registration[k]
      /\ r.OP \in BOOLEAN /\ r.RT \in BOOLEAN /\ r.obj \in Objects
  BY DEF Typed, OpRecords
<1>2. \A k \in 1 .. n : Registration[k].obj \in Objects
  BY <1>1, QueuedOp DEF Typed
<1>3. \A o \in Objects \ {r.obj} : (o \in wanted') = (o \in wanted) /\ b_RT'[o] = b_RT[o]
  BY <1>1 DEF Typed
<1>4. (r.obj \in wanted' <=> r.OP) /\ b_RT'[r.obj] = r.RT
  <2>1. b_RT'[r.obj] = r.RT
    BY <1>1 DEF Typed
  <2>2. CASE r.OP = TRUE
    BY <2>1, <2>2
  <2>3. CASE r.OP = FALSE
    BY <2>1, <2>3
  <2> QED
    BY <1>1, <2>2, <2>3
<1> HIDE DEF n
<1>5. Alternate'
  <2> SUFFICES ASSUME NEW k \in 1 .. n + 1, NEW m \in 1 .. n + 1, Consecutive(k, m)'
               PROVE  Registration'[k].OP # Registration'[m].OP
    BY <1>1 DEF Alternate
  <2>1. k \in 1 .. n /\ k < m
    BY <1>1 DEF Consecutive
  <2>2. CASE m \in 1 .. n
    <3>1. Consecutive(k, m)
      BY <1>1, <2>1, <2>2 DEF Consecutive, SameObject
    <3> QED
      BY <1>1, <2>1, <2>2, <3>1 DEF QueueInv, Alternate
  <2>3. CASE m = n + 1
    <3>1. LastAt(k) /\ Registration[k].obj = r.obj
      BY <1>1, <2>1, <2>3 DEF Consecutive, SameObject, LastAt, n
    <3>2. Registration[k].OP <=> r.obj \in wanted
      BY <1>1, <2>1, <3>1 DEF QueueInv, LastCall
    <3> QED
      BY <1>1, <2>1, <2>3, <3>2
  <2> QED
    BY <1>1, <2>2, <2>3
<1>6. LastCall'
  <2> SUFFICES ASSUME NEW k \in 1 .. n + 1, LastAt(k)'
               PROVE  /\ (Registration'[k].OP <=> Registration'[k].obj \in wanted')
                      /\ Registration'[k].RT = b_RT'[Registration'[k].obj]
    BY <1>1 DEF LastCall
  <2>1. CASE k = n + 1
    BY <1>1, <1>4, <2>1
  <2>2. CASE k \in 1 .. n
    <3>1. LastAt(k) /\ Registration[k].obj # r.obj
      BY <1>1, <2>2 DEF LastAt, SameObject, n
    <3> QED
      BY <1>1, <1>2, <1>3, <2>2, <3>1 DEF QueueInv, LastCall
  <2> QED
    BY <1>1, <2>1, <2>2
<1>7. FirstCall'
  <2> SUFFICES ASSUME NEW k \in 1 .. n + 1, NEW o \in Objects, FirstAt(k)',
                      Registration'[k].obj = o, Listed(o)'
               PROVE  ~Registration'[k].OP /\ Registration'[k].RT = InRT(o)'
    BY <1>1 DEF FirstCall
  <2>0. Listed(o) /\ InRT(o)' = InRT(o)
    OBVIOUS
  <2>1. CASE k = n + 1
    <3>1. o = r.obj /\ Calls(o) = {}
      BY <1>1, <2>1 DEF FirstAt, SameObject, Calls
    <3> QED
      BY <1>1, <2>0, <2>1, <3>1 DEF QueueInv, NoCall
  <2>2. CASE k \in 1 .. n
    <3>1. FirstAt(k)
      BY <1>1, <2>2 DEF FirstAt, SameObject
    <3> QED
      BY <1>1, <2>0, <2>2, <3>1 DEF QueueInv, FirstCall
  <2> QED
    BY <1>1, <2>1, <2>2
<1>8. ASSUME NEW o \in Objects, o # r.obj PROVE Calls(o)' = Calls(o)
  BY <1>1, <1>8 DEF Calls
<1>9. Calls(r.obj)' # {}
  <2>1. n + 1 \in Calls(r.obj)'
    BY <1>1 DEF Calls
  <2> QED
    BY <2>1
<1>10. NoCall'
  <2> SUFFICES ASSUME NEW o \in Objects, Calls(o)' = {}
               PROVE  /\ Listed(o)' => o \in wanted' /\ b_RT'[o] = InRT(o)'
                      /\ o \in wanted' \cap needed' => Listed(o)'
    BY DEF NoCall
  <2>1. o # r.obj
    BY <1>9
  <2>2. Calls(o) = {} /\ (o \in wanted') = (o \in wanted) /\ b_RT'[o] = b_RT[o]
    BY <1>3, <1>8, <2>1
  <2>3. o \in needed' => o \in needed
    BY <2>1
  <2>4. Listed(o)' = Listed(o) /\ InRT(o)' = InRT(o)
    OBVIOUS
  <2> QED
    BY <2>2, <2>3, <2>4 DEF QueueInv, NoCall
<1>11. LoopCall'
  <2> SUFFICES ASSUME m_processing_now', NEW o \in Objects, Calls(o)' # {}
               PROVE  ~Waiting(o)'
    BY DEF LoopCall
  <2>1. CASE o = r.obj
    BY <2>1
  <2>2. CASE o # r.obj
    BY <1>8, <2>2 DEF QueueInv, LoopCall
  <2> QED
    BY <2>1, <2>2
<1> QED
  BY <1>5, <1>6, <1>7, <1>10, <1>11 DEF QueueInv

\* internal_Registration() applies the first call, which is not one of a
\* Register() and an Unregister() that cancel each other.
LEMMA QueueApplied ==
    ASSUME Typed, QueueInv, Registration # <<>>, NEW r \in OpRecords,
           r = Registration[1], r.OP => Paired = {},
           Registration' = Tail(Registration),
           UNCHANGED <<wanted, needed, b_RT>>, ~m_processing_now',
           \A o \in Objects \ {r.obj} : InRT(o)' = InRT(o) /\ Listed(o)' = Listed(o),
           IF r.OP THEN Listed(r.obj)' /\ InRT(r.obj)' = r.RT ELSE ~Listed(r.obj)'
    PROVE  QueueInv'
<1> DEFINE n == Len(Registration)
<1>1. /\ n \in Nat \ {0} /\ DOMAIN Registration = 1 .. n
      /\ DOMAIN Registration' = 1 .. n - 1 /\ Len(Registration') = n - 1
      /\ \A k \in 1 .. n - 1 : Registration'[k] = Registration[k + 1]
      /\ r.OP \in BOOLEAN /\ r.RT \in BOOLEAN /\ r.obj \in Objects
  BY DEF Typed, OpRecords
<1>2. \A k \in 1 .. n : Registration[k].obj \in Objects /\ Registration[k].OP \in BOOLEAN
  BY <1>1, QueuedOp DEF Typed
<1> HIDE DEF n
<1>3. \A k, m \in 1 .. n - 1 : SameObject(k, m)' = SameObject(k + 1, m + 1)
  BY <1>1 DEF SameObject
<1>4. ASSUME NEW k \in 2 .. n, Registration[k].obj = r.obj,
             \A j \in 2 .. k - 1 : Registration[j].obj # r.obj
      PROVE  Registration[k].OP /\ ~r.OP
  <2>1. Consecutive(1, k)
    BY <1>1, <1>4 DEF Consecutive, SameObject
  <2>2. r.OP # Registration[k].OP
    BY <1>1, <2>1 DEF QueueInv, Alternate
  <2>3. CASE r.OP
    <3>1. k \in Paired
      BY <1>1, <1>2, <1>4, <2>2, <2>3 DEF Paired, n
    <3> QED
      BY <2>3, <3>1
  <2> QED
    BY <1>1, <1>2, <2>2, <2>3
<1>5. Alternate'
  <2> SUFFICES ASSUME NEW k \in 1 .. n - 1, NEW m \in 1 .. n - 1, Consecutive(k, m)'
               PROVE  Registration'[k].OP # Registration'[m].OP
    BY <1>1 DEF Alternate
  <2>1. Consecutive(k + 1, m + 1)
    <3>1. k + 1 < m + 1 /\ SameObject(k + 1, m + 1)
      BY <1>3 DEF Consecutive
    <3>2. ASSUME NEW j \in k + 2 .. m PROVE ~SameObject(j, k + 1)
      <4>1. j - 1 \in k + 1 .. m - 1 /\ j - 1 \in 1 .. n - 1 /\ (j - 1) + 1 = j
        BY <1>1
      <4>2. ~SameObject(j - 1, k)'
        BY <4>1 DEF Consecutive
      <4> QED
        BY <1>3, <4>1, <4>2
    <3> QED
      BY <1>1, <3>1, <3>2 DEF Consecutive
  <2> QED
    BY <1>1, <2>1 DEF QueueInv, Alternate
<1>6. LastCall'
  <2> SUFFICES ASSUME NEW k \in 1 .. n - 1, LastAt(k)'
               PROVE  /\ (Registration'[k].OP <=> Registration'[k].obj \in wanted)
                      /\ Registration'[k].RT = b_RT[Registration'[k].obj]
    BY <1>1 DEF LastCall
  <2>1. LastAt(k + 1)
    <3> SUFFICES ASSUME NEW j \in k + 2 .. n PROVE ~SameObject(j, k + 1)
      BY <1>1 DEF LastAt, n
    <3>1. j - 1 \in k + 1 .. n - 1 /\ j - 1 \in 1 .. n - 1 /\ (j - 1) + 1 = j
      BY <1>1
    <3>2. ~SameObject(j - 1, k)'
      BY <1>1, <3>1 DEF LastAt
    <3> QED
      BY <1>3, <3>1, <3>2
  <2> QED
    BY <1>1, <2>1 DEF QueueInv, LastCall
<1>7. FirstCall'
  <2> SUFFICES ASSUME NEW k \in 1 .. n - 1, NEW o \in Objects, FirstAt(k)',
                      Registration'[k].obj = o, Listed(o)'
               PROVE  ~Registration'[k].OP /\ Registration'[k].RT = InRT(o)'
    BY <1>1 DEF FirstCall
  <2>1. \A j \in 2 .. k : Registration[j].obj # o
    <3> SUFFICES ASSUME NEW j \in 2 .. k PROVE Registration[j].obj # o
      OBVIOUS
    <3>1. j - 1 \in 1 .. k - 1 /\ j - 1 \in 1 .. n - 1 /\ (j - 1) + 1 = j
      BY <1>1
    <3>2. ~SameObject(j - 1, k)'
      BY <3>1 DEF FirstAt
    <3> QED
      BY <1>1, <3>1, <3>2 DEF SameObject
  <2>2. CASE o = r.obj
    <3>1. Registration[k + 1].OP /\ ~r.OP
      BY <1>1, <1>4, <2>1, <2>2
    <3> QED
      BY <2>2, <3>1
  <2>3. CASE o # r.obj
    <3>1. FirstAt(k + 1)
      <4> SUFFICES ASSUME NEW j \in 1 .. k PROVE ~SameObject(j, k + 1)
        BY DEF FirstAt
      <4> QED
        BY <1>1, <2>1, <2>3 DEF SameObject
    <3>2. Listed(o) /\ InRT(o)' = InRT(o)
      BY <2>3
    <3> QED
      BY <1>1, <3>1, <3>2 DEF QueueInv, FirstCall
  <2> QED
    BY <2>2, <2>3
<1>8. NoCall'
  <2> SUFFICES ASSUME NEW o \in Objects, Calls(o)' = {}
               PROVE  /\ Listed(o)' => o \in wanted /\ b_RT[o] = InRT(o)'
                      /\ o \in wanted \cap needed => Listed(o)'
    BY DEF NoCall
  <2>1. ASSUME NEW k \in 2 .. n PROVE Registration[k].obj # o
    <3>1. k - 1 \in 1 .. n - 1 /\ (k - 1) + 1 = k
      BY <1>1
    <3> QED
      BY <1>1, <3>1 DEF Calls
  <2>2. CASE o = r.obj
    <3>1. LastAt(1)
      BY <1>1, <2>1, <2>2 DEF LastAt, SameObject, n
    <3>2. (r.OP <=> o \in wanted) /\ r.RT = b_RT[o]
      BY <1>1, <2>2, <3>1 DEF QueueInv, LastCall
    <3> QED
      BY <1>1, <2>2, <3>2
  <2>3. CASE o # r.obj
    <3>1. Calls(o) = {}
      BY <1>1, <2>1, <2>3 DEF Calls
    <3>2. Listed(o)' = Listed(o) /\ InRT(o)' = InRT(o)
      BY <2>3
    <3> QED
      BY <3>1, <3>2 DEF QueueInv, NoCall
  <2> QED
    BY <2>2, <2>3
<1> QED
  BY <1>5, <1>6, <1>7, <1>8 DEF QueueInv, LoopCall

\* internal_Registration() drops a Register() with the Unregister() behind it.
LEMMA QueueSkipped ==
    ASSUME Typed, QueueInv, Registration # <<>>, Registration[1].OP,
           NEW p \in Paired, \A m \in Paired : p <= m,
           Registration' = Tail(RemoveAt(Registration, p)),
           UNCHANGED <<wanted, needed, b_RT, ItemsRT, Items, ItemsProcessed,
                       m_current_step_obj>>,
           ~m_processing_now'
    PROVE  QueueInv'
<1> DEFINE n == Len(Registration)
           o1 == Registration[1].obj
           At(k) == IF k < p - 1 THEN k + 1 ELSE k + 2  \* where the k-th call was
<1>1. /\ n \in Nat /\ p \in 2 .. n /\ DOMAIN Registration = 1 .. n
      /\ Registration[p].obj = o1 /\ ~Registration[p].OP
  BY DEF Typed, Paired
<1>2. /\ DOMAIN Registration' = 1 .. n - 2 /\ Len(Registration') = n - 2
      /\ \A k \in 1 .. n - 2 : Registration'[k] = Registration[At(k)]
  <2>1. /\ Len(Registration') = n - 2 /\ Registration' \in Seq(OpRecords)
        /\ \A k \in 1 .. n - 2 :
            Registration'[k] = Registration[IF k < p - 1 THEN k + 1 ELSE k + 2]
    BY <1>1, RemoveAtTail DEF Typed
  <2> QED
    BY <2>1
<1>3. \A k \in 1 .. n : Registration[k].obj \in Objects /\ Registration[k].OP \in BOOLEAN
  BY <1>1, QueuedOp DEF Typed
<1> HIDE DEF n, o1
<1>4. /\ \A k \in 1 .. n - 2 : At(k) \in 2 .. n /\ At(k) # p
      /\ \A k, m \in 1 .. n - 2 : k < m <=> At(k) < At(m)
  BY <1>1
<1>5. \A j \in 2 .. n : j # p => \E k \in 1 .. n - 2 : At(k) = j
  <2> SUFFICES ASSUME NEW j \in 2 .. n, j # p PROVE \E k \in 1 .. n - 2 : At(k) = j
    OBVIOUS
  <2>1. CASE j < p
    <3>1. j - 1 \in 1 .. n - 2 /\ At(j - 1) = j
      BY <1>1, <2>1
    <3> QED
      BY <3>1
  <2>2. CASE j > p
    <3>1. j - 2 \in 1 .. n - 2 /\ At(j - 2) = j
      BY <1>1, <2>2
    <3> QED
      BY <3>1
  <2> QED
    BY <1>1, <2>1, <2>2
<1> HIDE DEF At
\* Between the two there is no other call for the object.
<1>6. ASSUME NEW j \in 2 .. p - 1 PROVE Registration[j].obj # o1
  <2> SUFFICES ASSUME Registration[j].obj = o1 PROVE FALSE
    OBVIOUS
  <2>1. PICK c \in 2 .. j : Consecutive(1, c)
    BY <1>1, NextCall DEF Typed, SameObject, o1
  <2>2. c \in 2 .. n /\ c < p /\ 1 \in DOMAIN Registration /\ c \in DOMAIN Registration
    BY <1>1
  <2>3. Registration[1].OP # Registration[c].OP
    BY <2>1, <2>2 DEF QueueInv, Alternate
  <2>4. Registration[c].obj = o1
    BY <2>1 DEF Consecutive, SameObject, o1
  <2>5. c \in Paired
    <3>1. 1 \in 1 .. n /\ c \in 1 .. n
      BY <1>1, <2>2
    <3>2. ~Registration[c].OP
      BY <1>3, <2>3, <3>1
    <3> QED
      BY <2>2, <2>4, <3>2 DEF Paired, o1, n
  <2> QED
    BY <1>1, <2>2, <2>5
<1>7. \A k, m \in 1 .. n - 2 : SameObject(k, m)' = SameObject(At(k), At(m))
  BY <1>2 DEF SameObject
<1>8. Alternate'
  <2> SUFFICES ASSUME NEW k \in 1 .. n - 2, NEW m \in 1 .. n - 2, Consecutive(k, m)'
               PROVE  Registration'[k].OP # Registration'[m].OP
    BY <1>2 DEF Alternate
  <2>1. At(k) < At(m) /\ SameObject(At(k), At(m))
    BY <1>4, <1>7 DEF Consecutive
  <2>2. ASSUME NEW j \in At(k) + 1 .. At(m) - 1 PROVE ~SameObject(j, At(k))
    <3>0. j \in 2 .. n
      BY <1>1, <1>4
    <3>1. CASE j = p
      <4>1. At(k) \in 2 .. p - 1
        BY <1>1, <1>4, <3>1
      <4> QED
        BY <1>1, <1>6, <3>1, <4>1 DEF SameObject
    <3>2. CASE j # p
      <4>1. PICK l \in 1 .. n - 2 : At(l) = j
        BY <1>5, <3>0, <3>2
      <4>2. l \in k + 1 .. m - 1
        BY <1>1, <1>4, <4>1
      <4>3. ~SameObject(l, k)'
        BY <4>2 DEF Consecutive
      <4> QED
        BY <1>7, <4>1, <4>3
    <3> QED
      BY <3>1, <3>2
  <2>3. Consecutive(At(k), At(m))
    BY <2>1, <2>2 DEF Consecutive
  <2>4. At(k) \in DOMAIN Registration /\ At(m) \in DOMAIN Registration
    BY <1>1, <1>4
  <2>5. Registration[At(k)].OP # Registration[At(m)].OP
    BY <2>3, <2>4 DEF QueueInv, Alternate
  <2> QED
    BY <1>2, <2>5
<1>9. LastCall'
  <2> SUFFICES ASSUME NEW k \in 1 .. n - 2, LastAt(k)'
               PROVE  /\ (Registration'[k].OP <=> Registration'[k].obj \in wanted)
                      /\ Registration'[k].RT = b_RT[Registration'[k].obj]
    BY <1>2 DEF LastCall
  <2>1. ASSUME NEW j \in At(k) + 1 .. n PROVE ~SameObject(j, At(k))
    <3>0. j \in 2 .. n
      BY <1>1, <1>4
    <3>1. CASE j = p
      <4>1. At(k) \in 2 .. p - 1
        BY <1>1, <1>4, <3>1
      <4> QED
        BY <1>1, <1>6, <3>1, <4>1 DEF SameObject
    <3>2. CASE j # p
      <4>1. PICK l \in 1 .. n - 2 : At(l) = j
        BY <1>5, <3>0, <3>2
      <4>2. l \in k + 1 .. n - 2
        BY <1>1, <1>4, <4>1
      <4>3. ~SameObject(l, k)'
        BY <1>2, <4>2 DEF LastAt
      <4> QED
        BY <1>7, <4>1, <4>3
    <3> QED
      BY <3>1, <3>2
  <2>2. LastAt(At(k))
    BY <1>1, <2>1 DEF LastAt, n
  <2>3. At(k) \in DOMAIN Registration /\ Registration'[k] = Registration[At(k)]
    BY <1>1, <1>2, <1>4
  <2> QED
    BY <2>2, <2>3 DEF QueueInv, LastCall
<1>10. ~Listed(o1)
  <2>1. FirstAt(1) /\ o1 \in Objects
    BY <1>1, <1>3 DEF FirstAt, o1
  <2> QED
    BY <1>1, <2>1 DEF QueueInv, FirstCall, o1
<1>11. \A o : Listed(o)' = Listed(o) /\ InRT(o)' = InRT(o)
  BY DEF Listed, InRT, InHeap, InProcessed
<1>12. FirstCall'
  <2> SUFFICES ASSUME NEW k \in 1 .. n - 2, NEW o \in Objects, FirstAt(k)',
                      Registration'[k].obj = o, Listed(o)
               PROVE  ~Registration'[k].OP /\ Registration'[k].RT = InRT(o)
    BY <1>2, <1>11 DEF FirstCall
  <2>1. o # o1
    BY <1>10
  <2>2. ASSUME NEW j \in 1 .. At(k) - 1 PROVE ~SameObject(j, At(k))
    <3>1. CASE j \in {1, p}
      BY <1>1, <1>2, <2>1, <3>1 DEF SameObject, o1
    <3>2. CASE j \notin {1, p}
      <4>0. j \in 2 .. n
        BY <1>1, <1>4, <3>2
      <4>1. PICK l \in 1 .. n - 2 : At(l) = j
        BY <1>5, <3>2, <4>0
      <4>2. l \in 1 .. k - 1
        BY <1>1, <1>4, <4>1
      <4>3. ~SameObject(l, k)'
        BY <4>2 DEF FirstAt
      <4> QED
        BY <1>7, <4>1, <4>3
    <3> QED
      BY <3>1, <3>2
  <2>3. FirstAt(At(k))
    BY <1>1, <2>2 DEF FirstAt
  <2>4. At(k) \in DOMAIN Registration /\ Registration'[k] = Registration[At(k)]
    BY <1>1, <1>2, <1>4
  <2> QED
    BY <2>3, <2>4 DEF QueueInv, FirstCall
<1>13. NoCall'
  <2> SUFFICES ASSUME NEW o \in Objects, Calls(o)' = {}
               PROVE  /\ Listed(o) => o \in wanted /\ b_RT[o] = InRT(o)
                      /\ o \in wanted \cap needed => Listed(o)
    BY <1>11 DEF NoCall
  <2>1. ASSUME NEW j \in 2 .. n, j # p PROVE Registration[j].obj # o
    <3>1. PICK l \in 1 .. n - 2 : At(l) = j
      BY <1>5, <2>1
    <3> QED
      BY <1>2, <3>1 DEF Calls
  <2>2. CASE o = o1
    <3>1. LastAt(p)
      BY <1>1, <2>1, <2>2 DEF LastAt, SameObject, n
    <3>2. o1 \notin wanted
      BY <1>1, <3>1 DEF QueueInv, LastCall
    <3> QED
      BY <1>10, <2>2, <3>2
  <2>3. CASE o # o1
    <3>1. Calls(o) = {}
      BY <1>1, <2>1, <2>3 DEF Calls, o1
    <3> QED
      BY <3>1 DEF QueueInv, NoCall
  <2> QED
    BY <2>2, <2>3
<1> QED
  BY <1>8, <1>9, <1>12, <1>13 DEF QueueInv, LoopCall

-----------------------------------------------------------------------------
(***************************************************************************)
(* What the steps do to the lists.                                         *)
(***************************************************************************)
LEMMA InRTToSet ==
    ASSUME ItemsRT \in Seq(Objects), NEW o
    PROVE  InRT(o) <=> o \in ToSet(ItemsRT)
BY DEF InRT, Contains, ToSet

\* Objects only leave the lists.
LEMMA ApartShrunk ==
    ASSUME Apart,
           IsInjective(ItemsRT'),
           \A x, y \in Items' : x.obj = y.obj /\ x.obj # null => x = y,
           ItemsProcessed' = ItemsProcessed,
           \A o \in Objects : /\ InRT(o)' => InRT(o)
                              /\ InHeap(o)' => InHeap(o)
                              /\ m_current_step_obj' = o => m_current_step_obj = o
    PROVE  Apart'
<1>1. \A o \in Objects : InProcessed(o)' = InProcessed(o)
  BY DEF InProcessed
<1> QED
  BY <1>1 DEF Apart

\* The object that an EraseRT() erases is at its Position().
LEMMA PositionInRT ==
    ASSUME ItemsRT \in Seq(Objects), NEW o, InRT(o)
    PROVE  /\ Position(ItemsRT, o) \in 1 .. Len(ItemsRT)
           /\ ItemsRT[Position(ItemsRT, o)] = o
<1>1. \E k \in DOMAIN ItemsRT : ItemsRT[k] = o
  BY DEF InRT, Contains
<1>2. Position(ItemsRT, o) \in DOMAIN ItemsRT /\ ItemsRT[Position(ItemsRT, o)] = o
  BY <1>1 DEF Position
<1> QED
  BY <1>2

\* internal_Unregister(o, real) takes o from where it looks, and o only.
LEMMA UnregisterLists ==
    ASSUME Typed, Apart, NEW o \in Objects, NEW real \in BOOLEAN,
           internal_Unregister(o, real), UNCHANGED ItemsProcessed
    PROVE  /\ Items' \in SUBSET ItemRecords
           /\ ItemsRT' \in Seq(Objects)
           /\ rt' \in RTLoops
           /\ m_current_step_obj' \in {m_current_step_obj, null}
           /\ Apart'
           /\ \A x \in Objects \ {o} :
               /\ InRT(x)' <=> InRT(x)
               /\ InHeap(x)' <=> InHeap(x)
               /\ m_current_step_obj' = x <=> m_current_step_obj = x
           /\ InRT(o)' <=> InRT(o) /\ ~real
           /\ InHeap(o)' <=> InHeap(o) /\ real
           /\ m_current_step_obj' = o => Found(o, real)
           /\ IF rt.end = 0 THEN rt' = rt
              ELSE /\ rt'.end = rt.end /\ rt'.pos = rt.pos
                   /\ Len(ItemsRT') + Len(rt'.left) = Len(ItemsRT) + Len(rt.left)
                   /\ ~(real /\ InRT(o)) => rt' = rt
           /\ ~(real /\ InRT(o)) => ItemsRT' = ItemsRT
<1> USE ObjectsAssumption
<1>1. CASE Found(o, real) /\ real /\ EraseRT(o)
  <2> DEFINE p == Position(ItemsRT, o)
             s == RemoveAt(ItemsRT, p)
  <2>1. /\ InRT(o) /\ ItemsRT' = s
        /\ UNCHANGED <<Items, m_current_step_obj>>
        /\ rt' = IF rt.end = 0 THEN rt
                 ELSE [rt EXCEPT !.left = <<ItemsRT[Len(ItemsRT)]>> \o @]
    BY <1>1 DEF Found, EraseRT
  <2>2. p \in 1 .. Len(ItemsRT) /\ ItemsRT[p] = o /\ ItemsRT \in Seq(Objects)
    BY <2>1, PositionInRT DEF Typed
  <2> HIDE DEF p
  <2>3. /\ s \in Seq(Objects) /\ IsInjective(s) /\ ToSet(s) = ToSet(ItemsRT) \ {o}
    BY <2>2, RemoveAtToSet DEF Apart
  <2>4. Len(s) = Len(ItemsRT) - 1
    BY <2>2, RemoveAtElements
  <2> HIDE DEF s
  <2>5. \A x : InRT(x)' <=> InRT(x) /\ x # o
    <3>1. \A x : InRT(x)' <=> x \in ToSet(s)
      BY <2>1, <2>3 DEF InRT, Contains, ToSet
    <3> QED
      BY <2>2, <2>3, <3>1, InRTToSet
  <2>6. \A x : InHeap(x)' = InHeap(x)
    BY <2>1 DEF InHeap
  <2>7. Apart'
    BY <2>1, <2>3, <2>5, <2>6, ApartShrunk DEF Apart
  <2>8. /\ rt' \in RTLoops
        /\ IF rt.end = 0 THEN rt' = rt
           ELSE /\ rt'.end = rt.end /\ rt'.pos = rt.pos
                /\ Len(ItemsRT') + Len(rt'.left) = Len(ItemsRT) + Len(rt.left)
    <3>1. CASE rt.end = 0
      BY <2>1, <3>1 DEF Typed
    <3>2. CASE rt.end # 0
      <4>1. ItemsRT[Len(ItemsRT)] \in Objects
        BY <2>2
      <4> DEFINE l == <<ItemsRT[Len(ItemsRT)]>> \o rt.left
      <4>2. rt \in RTLoops /\ rt.left \in Seq(Objects)
        BY DEF Typed, RTLoops
      <4>3. l \in Seq(Objects) /\ Len(l) = Len(rt.left) + 1
        BY <4>1, <4>2
      <4>4. rt' = [rt EXCEPT !.left = l]
        BY <2>1, <3>2
      <4> HIDE DEF l
      <4>5. rt' \in RTLoops /\ rt'.end = rt.end /\ rt'.pos = rt.pos /\ rt'.left = l
        BY <4>2, <4>3, <4>4 DEF RTLoops
      <4>6. Len(ItemsRT) \in Nat /\ Len(rt.left) \in Nat
        BY <2>2, <4>2
      <4> QED
        BY <2>1, <2>4, <3>2, <4>3, <4>5, <4>6
    <3> QED
      BY <3>1, <3>2
  <2>9. Found(o, real) /\ m_current_step_obj # o
    BY <1>1, <2>1 DEF Apart
  <2>10. InHeap(o)' <=> InHeap(o) /\ real
    BY <1>1, <2>6
  <2> QED
    BY <1>1, <2>1, <2>3, <2>5, <2>6, <2>7, <2>8, <2>9, <2>10 DEF Typed
<1>2. CASE Found(o, real) /\ ~real /\ ClearItem(o)
  <2>1. /\ InHeap(o) /\ UNCHANGED <<ItemsRT, rt, m_current_step_obj>>
        /\ Items' = {IF x.obj = o THEN Item(null, x.due) ELSE x : x \in Items}
    BY <1>2 DEF Found, ClearItem
  <2>2. \A x \in Items : Item(null, x.due) \in ItemRecords /\ Item(null, x.due).obj = null
    BY DEF Typed, ItemRecords, Item
  <2>3. Items' \in SUBSET ItemRecords
    BY <2>1, <2>2 DEF Typed
  <2>4. \A y \in Items' : y.obj # null => y \in Items /\ y.obj # o
    BY <2>1, <2>2
  <2>5. \A x \in Items : x.obj # o => x \in Items'
    BY <2>1
  <2>6. \A x \in Objects : InHeap(x)' <=> InHeap(x) /\ x # o
    BY <2>4, <2>5 DEF InHeap
  <2>7. \A x : InRT(x)' = InRT(x)
    BY <2>1 DEF InRT
  <2>8. Apart'
    BY <2>1, <2>4, <2>6, <2>7, ApartShrunk DEF Apart
  <2>9. Len(ItemsRT') + Len(rt'.left) = Len(ItemsRT) + Len(rt.left)
    BY <2>1
  <2>10. ItemsRT \in Seq(Objects) /\ rt \in RTLoops
    BY DEF Typed
  <2>11. /\ InRT(o)' <=> InRT(o) /\ ~real
         /\ InHeap(o)' <=> InHeap(o) /\ real
    BY <1>2, <2>1, <2>6, <2>7 DEF Apart
  <2> QED
    BY <1>2, <2>1, <2>3, <2>6, <2>7, <2>8, <2>9, <2>10, <2>11
<1>3. CASE ~Found(o, real) /\ m_current_step_obj = o /\ ClearCurrent
  <2>1. m_current_step_obj' = null /\ UNCHANGED <<Items, ItemsRT, rt>>
    BY <1>3 DEF ClearCurrent
  <2>2. \A x : InRT(x)' = InRT(x) /\ InHeap(x)' = InHeap(x)
    BY <2>1 DEF InRT, InHeap
  <2>3. Apart'
    BY <2>1, <2>2, ApartShrunk DEF Apart
  <2>4. (InRT(o) => ~real) /\ (InHeap(o) => real)
    BY <1>3 DEF Found
  <2>5. /\ Items \in SUBSET ItemRecords /\ ItemsRT \in Seq(Objects) /\ rt \in RTLoops
        /\ o # null
    BY DEF Typed
  <2>6. /\ InRT(o)' <=> InRT(o) /\ ~real
        /\ InHeap(o)' <=> InHeap(o) /\ real
    BY <2>2, <2>4
  <2> QED
    BY <1>3, <2>1, <2>2, <2>3, <2>5, <2>6
<1>4. CASE /\ ~Found(o, real) /\ m_current_step_obj # o
           /\ UNCHANGED <<Items, ItemsRT, rt, m_current_step_obj>>
  <2>1. \A x : InRT(x)' = InRT(x) /\ InHeap(x)' = InHeap(x)
    BY <1>4 DEF InRT, InHeap
  <2>2. Apart'
    BY <1>4, <2>1, ApartShrunk DEF Apart
  <2>3. (InRT(o) => ~real) /\ (InHeap(o) => real)
    BY <1>4 DEF Found
  <2> QED
    BY <1>4, <2>1, <2>2, <2>3 DEF Typed
<1> QED
  BY <1>1, <1>2, <1>3, <1>4 DEF internal_Unregister

LEMMA ListsKept ==
    ASSUME UNCHANGED <<lists, m_current_step_obj>>
    PROVE  /\ Apart => Apart'
           /\ \A o : /\ InRT(o)' = InRT(o) /\ InHeap(o)' = InHeap(o)
                     /\ InProcessed(o)' = InProcessed(o)
                     /\ Listed(o)' = Listed(o) /\ Waiting(o)' = Waiting(o)
<1> USE DEF lists
<1>1. \A o : /\ InRT(o)' = InRT(o) /\ InHeap(o)' = InHeap(o)
             /\ InProcessed(o)' = InProcessed(o)
  BY DEF InRT, InHeap, InProcessed
<1> QED
  BY <1>1 DEF Apart, Listed, Waiting

-----------------------------------------------------------------------------
(***************************************************************************)
(* The clients' calls keep the invariant.                                  *)
(***************************************************************************)
LEMMA RegisterKeeps ==
    ASSUME IInv, NEW o \in Objects, NEW real \in BOOLEAN, Register(o, real)
    PROVE  IInv'
<1> USE DEF IInv
<1> DEFINE r == Op(TRUE, real, o)
<1>1. /\ r \in OpRecords /\ r.OP = TRUE /\ r.RT = real /\ r.obj = o
  BY DEF Op, OpRecords
<1>2. /\ ~Registered(o) /\ o \notin wanted
      /\ b_RT' = [b_RT EXCEPT ![o] = real]
      /\ Registration' = Append(Registration, r)
      /\ wanted' = wanted \cup {o} /\ needed' = needed \cup {o}
      /\ UNCHANGED <<lists, m_current_step_obj, m_processing_now, rt, loops>>
  BY DEF Register
<1> HIDE DEF r
<1>3. Typed'
  BY <1>1, <1>2 DEF Typed, lists, loops
<1>4. Apart'
  BY <1>2, ListsKept
<1>5. Phases'
  BY <1>2 DEF Phases, lists, loops
<1>6. m_processing_now => ~Waiting(o)
  BY <1>2 DEF QueueInv, NoCall, LoopCall, Listed, Waiting
<1>7. \A x \in Objects : x \in needed' /\ x # r.obj => x \in needed
  BY <1>1, <1>2
<1>8. QueueInv'
  BY <1>1, <1>2, <1>6, <1>7, ListsKept, QueueAppended
<1> QED
  BY <1>3, <1>4, <1>5, <1>8

\* An object without queued calls leaves the lists at its Unregister().
LEMMA QueueUnlisted ==
    ASSUME Typed, QueueInv, NEW o \in Objects, Calls(o) = {},
           UNCHANGED <<Registration, needed, b_RT, m_processing_now>>,
           wanted' = wanted \ {o},
           ~Listed(o)',
           \A x \in Objects \ {o} :
               InRT(x)' = InRT(x) /\ Listed(x)' = Listed(x) /\ Waiting(x)' = Waiting(x)
    PROVE  QueueInv'
<1>1. \A k \in DOMAIN Registration :
        Registration[k].obj \in Objects /\ Registration[k].obj # o
  BY QueuedOp DEF Calls, Typed
<1>2. Alternate'
  BY DEF QueueInv, Alternate, Consecutive, SameObject
<1>3. LastCall'
  BY <1>1 DEF QueueInv, LastCall, LastAt, SameObject
<1>4. FirstCall'
  BY <1>1 DEF QueueInv, FirstCall, FirstAt, SameObject
<1>5. \A x : Calls(x)' = Calls(x)
  BY DEF Calls
<1>6. NoCall'
  <2> SUFFICES ASSUME NEW x \in Objects, Calls(x)' = {}
               PROVE  /\ Listed(x)' => x \in wanted' /\ b_RT'[x] = InRT(x)'
                      /\ x \in wanted' \cap needed' => Listed(x)'
    BY DEF NoCall
  <2> QED
    BY <1>5 DEF QueueInv, NoCall
<1>7. LoopCall'
  <2> SUFFICES ASSUME m_processing_now', NEW x \in Objects, Calls(x)' # {}
               PROVE  ~Waiting(x)'
    BY DEF LoopCall
  <2>1. x # o
    BY <1>5
  <2> QED
    BY <1>5, <2>1 DEF QueueInv, LoopCall
<1> QED
  BY <1>2, <1>3, <1>4, <1>6, <1>7 DEF QueueInv

LEMMA UnregisterKeeps ==
    ASSUME IInv, NEW o \in Objects, Unregister(o)
    PROVE  IInv'
<1> USE DEF IInv
<1>1. /\ ClientTurn /\ o \in wanted /\ wanted' = wanted \ {o}
      /\ UNCHANGED <<ItemsProcessed, m_processing_now, b_RT, needed, loops>>
      /\ b_RT[o] \in BOOLEAN
  BY DEF Unregister, Typed
<1>2. CASE /\ m_processing_now
           /\ Found(o, b_RT[o]) \/ m_current_step_obj = o
           /\ internal_Unregister(o, b_RT[o])
           /\ UNCHANGED Registration
  <2> DEFINE real == b_RT[o]
  <2>0. /\ Items' \in SUBSET ItemRecords
        /\ ItemsRT' \in Seq(Objects)
        /\ rt' \in RTLoops
        /\ m_current_step_obj' \in {m_current_step_obj, null}
        /\ Apart'
        /\ \A x \in Objects \ {o} :
            /\ InRT(x)' <=> InRT(x)
            /\ InHeap(x)' <=> InHeap(x)
            /\ m_current_step_obj' = x <=> m_current_step_obj = x
        /\ InRT(o)' <=> InRT(o) /\ ~real
        /\ InHeap(o)' <=> InHeap(o) /\ real
        /\ m_current_step_obj' = o => Found(o, real)
        /\ IF rt.end = 0 THEN rt' = rt
           ELSE /\ rt'.end = rt.end /\ rt'.pos = rt.pos
                /\ Len(ItemsRT') + Len(rt'.left) = Len(ItemsRT) + Len(rt.left)
                /\ ~(real /\ InRT(o)) => rt' = rt
        /\ ~(real /\ InRT(o)) => ItemsRT' = ItemsRT
    BY <1>1, <1>2, UnregisterLists
  <2>1. Typed'
    BY <1>1, <1>2, <2>0 DEF Typed, loops
  <2>2. Phases'
    <3>1. pc' = pc /\ m_processing_now' = m_processing_now /\ ItemsProcessed' = ItemsProcessed
      BY <1>1 DEF loops
    <3>2. IF pc \in {"rt", "rtUpdate"}
          THEN /\ rt'.pos >= 1
               /\ rt'.end = Len(ItemsRT') + Len(rt'.left)
               /\ pc = "rtUpdate" => rt'.pos <= rt'.end
          ELSE rt' = NoLoop
      <4>1. CASE pc = "rtUpdate"
        <5>1. rt.end # 0
          BY <4>1 DEF Phases, Typed, RTLoops
        <5> QED
          BY <2>0, <4>1, <5>1 DEF Phases
      <4>2. CASE pc # "rtUpdate"
        <5>1. pc \notin {"rt", "rtUpdate"}
          BY <1>1, <4>2 DEF ClientTurn
        <5>2. rt = NoLoop
          BY <5>1 DEF Phases
        <5> QED
          BY <2>0, <5>1, <5>2 DEF NoLoop
      <4> QED
        BY <4>1, <4>2
    <3> QED
      BY <2>0, <3>1, <3>2 DEF Phases
  <2>3. Waiting(o)
    BY <1>2 DEF Found, Waiting
  <2>4. Calls(o) = {}
    BY <1>2, <2>3 DEF QueueInv, LoopCall
  <2>5. real <=> InRT(o)
    BY <2>3, <2>4 DEF QueueInv, NoCall, Listed, Waiting
  <2>6. \A x : InProcessed(x)' = InProcessed(x)
    BY <1>1 DEF InProcessed
  <2>7. ~Listed(o)'
    <3>1. o # null
      BY ObjectsAssumption
    <3>2. CASE InRT(o)
      BY <2>0, <2>5, <2>6, <3>1, <3>2 DEF Listed, Apart
    <3>3. CASE InHeap(o)
      BY <2>0, <2>5, <2>6, <3>1, <3>3 DEF Listed, Apart
    <3>4. CASE m_current_step_obj = o
      BY <2>0, <2>5, <2>6, <3>1, <3>4 DEF Listed, Apart, Found
    <3> QED
      BY <2>3, <3>2, <3>3, <3>4 DEF Waiting
  <2>8. \A x \in Objects \ {o} :
            InRT(x)' = InRT(x) /\ Listed(x)' = Listed(x) /\ Waiting(x)' = Waiting(x)
    <3>1. ASSUME NEW x \in Objects \ {o}
          PROVE  InRT(x)' = InRT(x) /\ InHeap(x)' = InHeap(x)
      BY <2>0 DEF InRT, InHeap, Contains
    <3> QED
      BY <2>0, <2>6, <3>1 DEF Listed, Waiting
  <2>9. QueueInv'
    BY <1>1, <1>2, <2>4, <2>7, <2>8, QueueUnlisted
  <2> QED
    BY <2>0, <2>1, <2>2, <2>9
<1>3. CASE /\ ~(m_processing_now /\ (Found(o, b_RT[o]) \/ m_current_step_obj = o))
           /\ Registration' = Append(Registration, Op(FALSE, b_RT[o], o))
           /\ UNCHANGED <<Items, ItemsRT, rt, m_current_step_obj>>
  <2> DEFINE r == Op(FALSE, b_RT[o], o)
  <2>1. r \in OpRecords /\ r.OP = FALSE /\ r.RT = b_RT[o] /\ r.obj = o
    BY <1>1 DEF Op, OpRecords
  <2>2. Registration' = Append(Registration, r)
    BY <1>3
  <2> HIDE DEF r
  <2>3. UNCHANGED <<lists, m_current_step_obj>>
    BY <1>1, <1>3 DEF lists
  <2>4. Typed'
    <3>1. Registration' \in Seq(OpRecords)
      BY <2>1, <2>2 DEF Typed
    <3>2. UNCHANGED rt /\ wanted' \in SUBSET Objects
      BY <1>1, <1>3 DEF Typed
    <3> QED
      BY <1>1, <2>3, <3>1, <3>2 DEF Typed, lists, loops
  <2>5. Apart'
    BY <2>3, ListsKept
  <2>6. Phases'
    BY <1>1, <1>3 DEF Phases, loops
  <2>7. m_processing_now => ~Waiting(o)
    <3> SUFFICES ASSUME m_processing_now, Waiting(o) PROVE FALSE
      OBVIOUS
    <3>1. Calls(o) = {}
      BY DEF QueueInv, LoopCall
    <3>2. b_RT[o] = InRT(o)
      BY <3>1 DEF QueueInv, NoCall, Listed, Waiting
    <3> QED
      BY <1>1, <1>3, <3>2 DEF Found, Waiting
  <2>8. b_RT' = [b_RT EXCEPT ![r.obj] = r.RT]
    BY <1>1, <2>1 DEF Typed
  <2>9. \A x \in Objects :
            InRT(x)' = InRT(x) /\ Listed(x)' = Listed(x) /\ Waiting(x)' = Waiting(x)
    BY <2>3, ListsKept
  <2>10. QueueInv'
    BY <1>1, <2>1, <2>2, <2>7, <2>8, <2>9, QueueAppended
  <2> QED
    BY <2>4, <2>5, <2>6, <2>10
<1> QED
  BY <1>2, <1>3 DEF Unregister

LEMMA SetDestroyKeeps ==
    ASSUME IInv, NEW o \in Objects, SetDestroy(o)
    PROVE  IInv'
<1> USE DEF IInv
<1>1. /\ needed' = needed \ {o}
      /\ UNCHANGED <<lists, Registration, m_current_step_obj, m_processing_now, b_RT,
                     rt, loops, wanted>>
  BY DEF SetDestroy
<1>2. Typed' /\ Phases'
  BY <1>1 DEF Typed, Phases, lists, loops
<1>3. Apart'
  BY <1>1, ListsKept
<1>4. QueueInv'
  BY <1>1, ListsKept, QueueKept DEF Typed
<1> QED
  BY <1>2, <1>3, <1>4

LEMMA EnsureOrderKeeps ==
    ASSUME IInv, NEW before \in Objects, NEW after \in Objects, EnsureOrder(before, after)
    PROVE  IInv'
<1> USE DEF IInv
<1> DEFINE p == Position(ItemsRT, after)
           s == RemoveAt(ItemsRT, p)
<1>1. /\ pc = "idle" /\ InRT(after) /\ ItemsRT' = Append(s, after)
      /\ UNCHANGED <<Items, ItemsProcessed, Registration, m_current_step_obj,
                     m_processing_now, b_RT, rt, loops, wanted, needed>>
  BY DEF EnsureOrder
<1>2. p \in 1 .. Len(ItemsRT) /\ ItemsRT[p] = after /\ ItemsRT \in Seq(Objects)
  BY <1>1, PositionInRT DEF Typed
<1> HIDE DEF p
<1>3. /\ s \in Seq(Objects) /\ IsInjective(s) /\ ToSet(s) = ToSet(ItemsRT) \ {after}
  BY <1>2, RemoveAtToSet DEF Apart
<1> HIDE DEF s
<1>4. after \in ToSet(ItemsRT)
  BY <1>1, <1>2, InRTToSet
<1>5. /\ ItemsRT' \in Seq(Objects) /\ IsInjective(ItemsRT')
      /\ ToSet(ItemsRT') = ToSet(ItemsRT)
  <2>1. after \notin ToSet(s)
    BY <1>3
  <2>2. /\ ToSet(Append(s, after)) = ToSet(s) \cup {after}
        /\ IsInjective(Append(s, after))
    BY <1>3, <2>1, AppendToSet
  <2>3. Append(s, after) \in Seq(Objects)
    BY <1>3
  <2> QED
    BY <1>1, <1>3, <1>4, <2>2, <2>3
<1>6. \A x : InRT(x)' = InRT(x)
  <2>1. \A x : InRT(x)' <=> x \in ToSet(ItemsRT')
    BY <1>5 DEF InRT, Contains, ToSet
  <2>2. \A x : InRT(x)' <=> InRT(x)
    BY <1>2, <1>5, <2>1, InRTToSet
  <2> QED
    BY <2>2 DEF InRT, Contains
<1>7. \A x : InHeap(x)' = InHeap(x) /\ InProcessed(x)' = InProcessed(x)
  BY <1>1 DEF InHeap, InProcessed
<1>8. Typed' /\ Phases'
  BY <1>1, <1>5 DEF Typed, Phases, loops
<1>9. Apart'
  BY <1>1, <1>5, <1>6, <1>7 DEF Apart
<1>10. QueueInv'
  <2>1. \A x : Listed(x)' = Listed(x) /\ Waiting(x)' = Waiting(x)
    BY <1>1, <1>6, <1>7 DEF Listed, Waiting
  <2> QED
    BY <1>1, <1>6, <2>1, QueueKept DEF Typed
<1> QED
  BY <1>8, <1>9, <1>10

LEMMA DestroyKeeps ==
    ASSUME IInv, Destroy
    PROVE  IInv'
<1> USE DEF IInv
<1>1. /\ pc = "idle" /\ wanted = {}
      /\ Items' = {} /\ ItemsRT' = <<>> /\ ItemsProcessed' = {} /\ Registration' = <<>>
      /\ UNCHANGED <<m_current_step_obj, m_processing_now, b_RT, rt, loops, wanted, needed>>
  BY DEF Destroy
<1>2. m_current_step_obj = null /\ ~m_processing_now
  BY <1>1 DEF Phases, InLoops
<1>3. \A o \in Objects : ~InRT(o)' /\ ~InHeap(o)' /\ ~InProcessed(o)' /\ ~Listed(o)'
  BY <1>1, <1>2, ObjectsAssumption DEF InRT, Contains, InHeap, InProcessed, Listed
<1>4. Typed' /\ Phases'
  BY <1>1 DEF Typed, Phases, loops
<1>5. Apart'
  BY <1>1, <1>3 DEF Apart, IsInjective
<1>6. QueueInv'
  BY <1>1, <1>2, <1>3
     DEF QueueInv, Alternate, LastCall, FirstCall, NoCall, LoopCall, Listed
<1> QED
  BY <1>4, <1>5, <1>6

-----------------------------------------------------------------------------
(***************************************************************************)
(* The steps of Update() keep the invariant.                               *)
(***************************************************************************)
LEMMA BeginUpdateKeeps ==
    ASSUME IInv, BeginUpdate
    PROVE  IInv'
<1> USE DEF IInv
<1>1. PICK d \in 1 .. MaxTick : Items' = {Item(x.obj, x.due - d) : x \in Items}
  BY DEF BeginUpdate
<1>2. /\ pc = "idle" /\ pc' = "registerBefore"
      /\ UNCHANGED <<ItemsRT, ItemsProcessed, Registration, m_current_step_obj,
                     m_processing_now, b_RT, rt, i, wanted, needed, updated>>
  BY DEF BeginUpdate
<1>3. \A x \in Items : /\ Item(x.obj, x.due - d) \in ItemRecords
                       /\ Item(x.obj, x.due - d).obj = x.obj
  <2> SUFFICES ASSUME NEW x \in Items
               PROVE  /\ Item(x.obj, x.due - d) \in ItemRecords
                      /\ Item(x.obj, x.due - d).obj = x.obj
    OBVIOUS
  <2>1. x.obj \in Objects \cup {null} /\ x.due \in Int /\ d \in Int
    BY DEF Typed, ItemRecords
  <2> QED
    BY <2>1 DEF Item, ItemRecords
<1>4. Typed'
  <2>1. Items' \in SUBSET ItemRecords
    BY <1>1, <1>3
  <2> QED
    BY <1>2, <2>1 DEF Typed, PCs
<1>5. \A y \in Items' : \E x \in Items : y = Item(x.obj, x.due - d)
  BY <1>1
<1>6. \A o : InHeap(o)' = InHeap(o)
  BY <1>1, <1>3 DEF InHeap
<1>7. \A o : InRT(o)' = InRT(o) /\ InProcessed(o)' = InProcessed(o)
  BY <1>2 DEF InRT, InProcessed
<1>8. Apart'
  <2>1. ASSUME NEW x \in Items', NEW y \in Items', x.obj = y.obj, x.obj # null
        PROVE  x = y
    BY <1>3, <1>5, <2>1 DEF Apart
  <2> QED
    BY <1>2, <1>6, <1>7, <2>1 DEF Apart
<1>9. Phases'
  BY <1>2 DEF Phases, InLoops
<1>10. QueueInv'
  <2>1. \A x : Listed(x)' = Listed(x) /\ Waiting(x)' = Waiting(x)
    BY <1>2, <1>6, <1>7 DEF Listed, Waiting
  <2> QED
    BY <1>2, <1>7, <2>1, QueueKept DEF Typed
<1> QED
  BY <1>4, <1>8, <1>9, <1>10

\* A Register() without an Unregister() behind it is the only call queued for
\* its object.
LEMMA LoneRegister ==
    ASSUME Typed, QueueInv, Registration # <<>>, Registration[1].OP, Paired = {}
    PROVE  LastAt(1)
<1>1. Len(Registration) \in Nat \ {0} /\ DOMAIN Registration = 1 .. Len(Registration)
  BY DEF Typed
<1> SUFFICES ASSUME NEW j \in 2 .. Len(Registration), SameObject(j, 1)
             PROVE  FALSE
  BY DEF LastAt
<1>2. PICK c \in 2 .. j : Consecutive(1, c)
  BY <1>1, NextCall DEF Typed, SameObject
<1>3. c \in 2 .. Len(Registration)
  BY <1>1
<1>4. 1 \in DOMAIN Registration /\ c \in DOMAIN Registration
  BY <1>1, <1>3
<1>5. Registration[1].OP # Registration[c].OP
  BY <1>2, <1>4 DEF QueueInv, Alternate
<1>6. Registration[1].OP \in BOOLEAN /\ Registration[c].OP \in BOOLEAN
  BY <1>4, QueuedOp DEF Typed
<1>7. ~Registration[c].OP
  BY <1>5, <1>6
<1> QED
  BY <1>2, <1>3, <1>7 DEF Paired, Consecutive, SameObject

LEMMA RegisterSkippedKeeps ==
    ASSUME IInv, internal_Registration, RegisterSkipped, UNCHANGED b_RT
    PROVE  IInv'
<1> USE DEF IInv
<1> DEFINE p == CHOOSE k \in Paired : \A m \in Paired : k <= m
<1>1. /\ pc \in {"registerBefore", "registerAfter"} /\ Registration # <<>>
      /\ UNCHANGED <<m_processing_now, loops, wanted, needed>>
  BY DEF internal_Registration
<1>2. /\ Registration[1].OP /\ Paired # {}
      /\ Registration' = Tail(RemoveAt(Registration, p))
      /\ UNCHANGED <<lists, rt, m_current_step_obj, b_RT>>
  BY DEF RegisterSkipped
<1>3. p \in Paired /\ \A m \in Paired : p <= m
  <2>1. Paired \in SUBSET Nat
    BY DEF Paired
  <2>2. \E k \in Paired : \A m \in Paired : k <= m
    BY <1>2, <2>1, LeastElement
  <2> QED
    BY <2>2
<1> HIDE DEF p
<1>4. ~m_processing_now'
  BY <1>1 DEF Phases, InLoops
<1>5. Registration' \in Seq(OpRecords)
  <2>1. p \in 2 .. Len(Registration)
    BY <1>3 DEF Paired
  <2> QED
    BY <1>2, <2>1, RemoveAtTail DEF Typed
<1>6. Typed' /\ Phases'
  BY <1>1, <1>2, <1>5 DEF Typed, Phases, lists, loops
<1>7. Apart'
  BY <1>2, ListsKept
<1>8. QueueInv'
  BY <1>1, <1>2, <1>3, <1>4, QueueSkipped DEF lists
<1> QED
  BY <1>6, <1>7, <1>8

LEMMA RegisterAppliedKeeps ==
    ASSUME IInv, internal_Registration, RegisterApplied
    PROVE  IInv'
<1> USE DEF IInv
<1>1. /\ pc \in {"registerBefore", "registerAfter"} /\ Registration # <<>>
      /\ UNCHANGED <<m_processing_now, loops, wanted, needed>>
  BY DEF internal_Registration
<1>2. PICK r \in OpRecords : r = Registration[1]
  BY <1>1 DEF Typed
<1> DEFINE o == r.obj
<1>3. /\ r.OP /\ Paired = {}
      /\ ItemsRT' = IF r.RT THEN Append(ItemsRT, o) ELSE ItemsRT
      /\ Items' = IF r.RT THEN Items ELSE Items \cup {Item(o, 0)}
      /\ b_RT' = [b_RT EXCEPT ![o] = r.RT]
      /\ Registration' = Tail(Registration)
      /\ UNCHANGED <<ItemsProcessed, rt, m_current_step_obj>>
  BY <1>2 DEF RegisterApplied
<1>4. 1 \in DOMAIN Registration
  BY <1>1 DEF Typed
<1>5. r.OP = TRUE /\ r.RT \in BOOLEAN /\ o \in Objects /\ o # null
  BY <1>2, <1>3, ObjectsAssumption DEF OpRecords
<1>6. LastAt(1) /\ FirstAt(1)
  BY <1>1, <1>2, <1>3, LoneRegister DEF FirstAt
<1>7. r.RT = b_RT[o]
  BY <1>2, <1>4, <1>6 DEF QueueInv, LastCall
<1>8. UNCHANGED b_RT
  BY <1>3, <1>7 DEF Typed
<1>9. ~Listed(o)
  BY <1>2, <1>4, <1>5, <1>6 DEF QueueInv, FirstCall
<1>10. Registration' \in Seq(OpRecords)
  BY <1>1, <1>3 DEF Typed
<1> HIDE DEF o
<1>11. ~m_processing_now'
  BY <1>1 DEF Phases, InLoops
<1>12. \A x : InProcessed(x)' = InProcessed(x)
  BY <1>3 DEF InProcessed
<1>13. /\ Items' \in SUBSET ItemRecords
       /\ ItemsRT' \in Seq(Objects) /\ IsInjective(ItemsRT')
       /\ \A x, y \in Items' : x.obj = y.obj /\ x.obj # null => x = y
       /\ \A x \in Objects \ {o} : InRT(x)' = InRT(x) /\ InHeap(x)' = InHeap(x)
       /\ InRT(o)' = r.RT /\ InHeap(o)' = ~r.RT
  <2>1. CASE r.RT
    <3>1. ItemsRT' = Append(ItemsRT, o) /\ Items' = Items
      BY <1>3, <2>1 DEF o
    <3>2. ItemsRT \in Seq(Objects) /\ IsInjective(ItemsRT) /\ o \notin ToSet(ItemsRT)
      BY <1>9, InRTToSet DEF Typed, Apart, Listed
    <3>3. /\ ToSet(ItemsRT') = ToSet(ItemsRT) \cup {o} /\ IsInjective(ItemsRT')
          /\ ItemsRT' \in Seq(Objects)
      BY <1>5, <3>1, <3>2, AppendToSet
    <3>4. \A x : InRT(x)' <=> x \in ToSet(ItemsRT')
      BY <3>3 DEF InRT, Contains, ToSet
    <3>5. \A x : InRT(x)' <=> InRT(x) \/ x = o
      BY <3>2, <3>3, <3>4, InRTToSet
    <3>6. (\A x \in Objects \ {o} : InRT(x)' = InRT(x)) /\ InRT(o)' = TRUE
      BY <3>5 DEF InRT, Contains
    <3>7. \A x : InHeap(x)' = InHeap(x)
      BY <3>1 DEF InHeap
    <3>8. InHeap(o)' = FALSE
      BY <1>9, <3>7 DEF Listed, InHeap
    <3> QED
      BY <1>5, <2>1, <3>1, <3>3, <3>6, <3>7, <3>8 DEF Typed, Apart
  <2>2. CASE ~r.RT
    <3>1. ItemsRT' = ItemsRT /\ Items' = Items \cup {Item(o, 0)}
      BY <1>3, <2>2 DEF o
    <3>2. Item(o, 0) \in ItemRecords /\ Item(o, 0).obj = o
      BY <1>5 DEF ItemRecords, Item
    <3>3. ~InHeap(o) /\ ~InRT(o)
      BY <1>9 DEF Listed
    <3>4. \A x \in Items : x.obj # o
      BY <3>3 DEF InHeap
    <3>5. \A x, y \in Items' : x.obj = y.obj /\ x.obj # null => x = y
      BY <3>1, <3>2, <3>4 DEF Apart
    <3>6. \A x : InRT(x)' = InRT(x)
      BY <3>1 DEF InRT
    <3>7. InHeap(o)' = TRUE /\ \A x \in Objects \ {o} : InHeap(x)' = InHeap(x)
      BY <3>1, <3>2 DEF InHeap
    <3>8. InRT(o)' = FALSE
      BY <3>3, <3>6 DEF InRT, Contains
    <3> QED
      BY <1>5, <2>2, <3>1, <3>2, <3>5, <3>6, <3>7, <3>8 DEF Typed, Apart
  <2> QED
    BY <2>1, <2>2
<1>14. Typed'
  BY <1>1, <1>3, <1>8, <1>10, <1>13 DEF Typed, loops
<1>15. Phases'
  BY <1>1, <1>3 DEF Phases, loops
<1>16. Apart'
  <2>1. ~InProcessed(o) /\ m_current_step_obj # o
    BY <1>9 DEF Listed
  <2>2. ~(InRT(o)' /\ InHeap(o)')
    BY <1>5, <1>13
  <2>3. ASSUME NEW x \in Objects
        PROVE  /\ InRT(x)' => ~InHeap(x)' /\ ~InProcessed(x)' /\ m_current_step_obj' # x
               /\ InHeap(x)' => ~InProcessed(x)' /\ m_current_step_obj' # x
               /\ InProcessed(x)' => m_current_step_obj' # x
    <3>1. CASE x = o
      BY <1>3, <1>12, <2>1, <2>2, <3>1
    <3>2. CASE x # o
      BY <1>3, <1>12, <1>13, <3>2 DEF Apart
    <3> QED
      BY <3>1, <3>2
  <2> QED
    BY <1>3, <1>13, <2>3 DEF Apart
<1>17. QueueInv'
  <2>1. \A x \in Objects \ {o} : InRT(x)' = InRT(x) /\ Listed(x)' = Listed(x)
    BY <1>3, <1>12, <1>13 DEF Listed
  <2>2. Listed(o)' /\ InRT(o)' = r.RT
    BY <1>5, <1>13 DEF Listed
  <2> QED
    BY <1>1, <1>2, <1>3, <1>5, <1>8, <1>11, <2>1, <2>2, QueueApplied DEF o
<1> QED
  BY <1>14, <1>15, <1>16, <1>17

LEMMA UnregisterAppliedKeeps ==
    ASSUME IInv, internal_Registration, UnregisterApplied, UNCHANGED b_RT
    PROVE  IInv'
<1> USE DEF IInv
<1>1. /\ pc \in {"registerBefore", "registerAfter"} /\ Registration # <<>>
      /\ UNCHANGED <<m_processing_now, loops, wanted, needed>>
  BY DEF internal_Registration
<1>2. PICK r \in OpRecords : r = Registration[1]
  BY <1>1 DEF Typed
<1> DEFINE o == r.obj
           real == r.RT
<1>3. /\ ~r.OP /\ internal_Unregister(o, real)
      /\ Registration' = Tail(Registration)
      /\ UNCHANGED ItemsProcessed
  BY <1>2 DEF UnregisterApplied
<1>4. 1 \in DOMAIN Registration
  BY <1>1 DEF Typed
<1>5. real \in BOOLEAN /\ o \in Objects /\ o # null
  BY <1>2, ObjectsAssumption DEF OpRecords
<1>6. FirstAt(1)
  BY DEF FirstAt
<1>7. Listed(o) => real = InRT(o)
  BY <1>2, <1>4, <1>5, <1>6 DEF QueueInv, FirstCall
<1>8. Registration' \in Seq(OpRecords)
  BY <1>1, <1>3 DEF Typed
<1> HIDE DEF o, real
<1>9. /\ Items' \in SUBSET ItemRecords
      /\ ItemsRT' \in Seq(Objects)
      /\ rt' \in RTLoops
      /\ m_current_step_obj' \in {m_current_step_obj, null}
      /\ Apart'
      /\ \A x \in Objects \ {o} :
          /\ InRT(x)' <=> InRT(x)
          /\ InHeap(x)' <=> InHeap(x)
          /\ m_current_step_obj' = x <=> m_current_step_obj = x
      /\ InRT(o)' <=> InRT(o) /\ ~real
      /\ InHeap(o)' <=> InHeap(o) /\ real
      /\ m_current_step_obj' = o => Found(o, real)
      /\ rt.end = 0 => rt' = rt
  BY <1>3, <1>5, UnregisterLists
<1>10. ~m_processing_now' /\ m_current_step_obj = null /\ ItemsProcessed = {} /\ rt = NoLoop
  BY <1>1 DEF Phases, InLoops
<1>11. rt' = rt
  BY <1>9, <1>10 DEF NoLoop
<1>12. Typed'
  BY <1>1, <1>3, <1>8, <1>9 DEF Typed, loops
<1>13. Phases'
  BY <1>1, <1>3, <1>9, <1>10, <1>11 DEF Phases, loops
<1>14. \A x : InProcessed(x)' = FALSE /\ InProcessed(x) = FALSE
  BY <1>3, <1>10 DEF InProcessed
<1>15. ~Listed(o)'
  <2>1. CASE InRT(o)
    BY <1>5, <1>7, <1>9, <1>10, <1>14, <2>1 DEF Listed, Apart
  <2>2. CASE ~InRT(o)
    BY <1>5, <1>7, <1>9, <1>10, <1>14, <2>2 DEF Listed
  <2> QED
    BY <2>1, <2>2
<1>16. \A x \in Objects \ {o} : InRT(x)' = InRT(x) /\ Listed(x)' = Listed(x)
  <2>1. \A x \in Objects \ {o} : InRT(x)' = InRT(x) /\ InHeap(x)' = InHeap(x)
    BY <1>9 DEF InRT, InHeap, Contains
  <2> QED
    BY <1>9, <1>14, <2>1 DEF Listed
<1>17. QueueInv'
  BY <1>1, <1>2, <1>3, <1>10, <1>15, <1>16, QueueApplied DEF o
<1> QED
  BY <1>9, <1>12, <1>13, <1>17

LEMMA BeginRealTimeKeeps ==
    ASSUME IInv, BeginRealTime
    PROVE  IInv'
<1> USE DEF IInv
<1>1. /\ pc = "registerBefore" /\ pc' = "rt" /\ Registration = <<>>
      /\ m_processing_now' = TRUE
      /\ rt' = [pos |-> 1, end |-> Len(ItemsRT), left |-> <<>>]
      /\ UNCHANGED <<lists, Registration, m_current_step_obj, b_RT, i, wanted, needed,
                     updated>>
  BY DEF BeginRealTime
<1>2. ItemsRT \in Seq(Objects) /\ Len(ItemsRT) \in Nat
  BY DEF Typed
<1>3. /\ rt' \in RTLoops
      /\ rt'.pos = 1 /\ rt'.end = Len(ItemsRT) /\ rt'.left = <<>> /\ Len(rt'.left) = 0
  BY <1>1, <1>2 DEF RTLoops
<1>4. Typed'
  BY <1>1, <1>3 DEF Typed, PCs, lists
<1>5. Apart'
  BY <1>1, ListsKept
<1>6. Phases'
  <2>1. ItemsProcessed' = {} /\ m_current_step_obj' = null /\ ItemsRT' = ItemsRT
    BY <1>1 DEF Phases, lists
  <2>2. rt'.end = Len(ItemsRT') + Len(rt'.left)
    BY <1>2, <1>3, <2>1
  <2> QED
    BY <1>1, <1>3, <2>1, <2>2 DEF Phases, InLoops
<1>7. QueueInv'
  <2>1. \A o : Calls(o)' = {} /\ Calls(o) = {}
    BY <1>1 DEF Calls
  <2>2. NoCall'
    BY <1>1, <2>1, ListsKept DEF QueueInv, NoCall
  <2> QED
    BY <1>1, <2>1, <2>2 DEF QueueInv, Alternate, LastCall, FirstCall, LoopCall
<1> QED
  BY <1>4, <1>5, <1>6, <1>7

\* The element at the position is an object.
LEMMA AtRTObject ==
    ASSUME Typed, Phases, pc = "rt", rt.pos <= rt.end
    PROVE  AtRT \in Objects
<1> DEFINE l == rt.left
<1>1. /\ ItemsRT \in Seq(Objects) /\ l \in Seq(Objects)
      /\ rt.pos \in 1 .. Len(ItemsRT) + Len(l)
  BY DEF Typed, Phases, RTLoops
<1> HIDE DEF l
<1>2. (ItemsRT \o l)[rt.pos] \in Objects
  <2>1. ItemsRT \o l \in Seq(Objects) /\ Len(ItemsRT \o l) = Len(ItemsRT) + Len(l)
    BY <1>1
  <2> QED
    BY <1>1, <2>1
<1> QED
  BY <1>2 DEF AtRT, l

LEMMA RealTimeItemKeeps ==
    ASSUME IInv, RealTimeItem
    PROVE  IInv'
<1> USE DEF IInv
<1>1. /\ pc = "rt" /\ rt.pos <= rt.end
      /\ UNCHANGED <<lists, Registration, m_current_step_obj, m_processing_now, b_RT, i,
                     wanted, needed>>
      /\ \/ rt' = [rt EXCEPT !.pos = @ + 1] /\ UNCHANGED <<pc, updated>>
         \/ pc' = "rtUpdate" /\ updated' = updated \cup {AtRT} /\ UNCHANGED rt
  BY DEF RealTimeItem
<1>2. rt \in RTLoops /\ rt.pos \in Nat /\ rt.end \in Nat
  BY DEF Typed, RTLoops
<1>3. Typed' /\ Phases'
  <2>1. CASE rt' = [rt EXCEPT !.pos = @ + 1] /\ UNCHANGED <<pc, updated>>
    <3>1. rt' \in RTLoops /\ rt'.pos = rt.pos + 1 /\ rt'.end = rt.end /\ rt'.left = rt.left
      BY <1>2, <2>1 DEF RTLoops
    <3> QED
      BY <1>1, <1>2, <2>1, <3>1 DEF Typed, Phases, lists
  <2>2. CASE pc' = "rtUpdate" /\ updated' = updated \cup {AtRT} /\ UNCHANGED rt
    <3>1. AtRT \in Objects
      BY <1>1, AtRTObject
    <3> QED
      BY <1>1, <2>2, <3>1 DEF Typed, Phases, PCs, InLoops, lists
  <2> QED
    BY <1>1, <2>1, <2>2
<1>4. Apart'
  BY <1>1, ListsKept
<1>5. QueueInv'
  BY <1>1, ListsKept, QueueKept DEF Typed
<1> QED
  BY <1>3, <1>4, <1>5

LEMMA RealTimeReturnKeeps ==
    ASSUME IInv, RealTimeReturn
    PROVE  IInv'
<1> USE DEF IInv
<1>1. /\ pc = "rtUpdate" /\ pc' = "rt" /\ rt' = [rt EXCEPT !.pos = @ + 1]
      /\ UNCHANGED <<lists, Registration, m_current_step_obj, m_processing_now, b_RT, i,
                     wanted, needed, updated>>
  BY DEF RealTimeReturn
<1>2. rt \in RTLoops /\ rt.pos \in Nat
  BY DEF Typed, RTLoops
<1>3. rt' \in RTLoops /\ rt'.pos = rt.pos + 1 /\ rt'.end = rt.end /\ rt'.left = rt.left
  BY <1>1, <1>2 DEF RTLoops
<1>4. Typed' /\ Phases'
  BY <1>1, <1>2, <1>3 DEF Typed, Phases, PCs, InLoops, lists
<1>5. Apart'
  BY <1>1, ListsKept
<1>6. QueueInv'
  BY <1>1, ListsKept, QueueKept DEF Typed
<1> QED
  BY <1>4, <1>5, <1>6

LEMMA BeginStepKeeps ==
    ASSUME IInv, BeginStep
    PROVE  IInv'
<1> USE DEF IInv
<1>1. /\ pc = "rt" /\ pc' = "step" /\ rt' = NoLoop /\ i' = 0
      /\ UNCHANGED <<lists, Registration, m_current_step_obj, m_processing_now, b_RT,
                     wanted, needed, updated>>
  BY DEF BeginStep
<1>2. NoLoop \in RTLoops
  BY DEF NoLoop, RTLoops
<1>3. Typed' /\ Phases'
  BY <1>1, <1>2 DEF Typed, Phases, PCs, InLoops, lists
<1>4. Apart'
  BY <1>1, ListsKept
<1>5. QueueInv'
  BY <1>1, ListsKept, QueueKept DEF Typed
<1> QED
  BY <1>3, <1>4, <1>5

\* An item leaves the heap, and its object, if it has one, is not waiting
\* there any more.
LEMMA HeapWithout ==
    ASSUME Typed, Apart, NEW x \in Items, Items' = Items \ {x}
    PROVE  /\ Items' \in SUBSET ItemRecords
           /\ \A o \in Objects : InHeap(o)' = (InHeap(o) /\ o # x.obj)
           /\ \A y, z \in Items' : y.obj = z.obj /\ y.obj # null => y = z
<1>1. ASSUME NEW o \in Objects PROVE InHeap(o)' <=> InHeap(o) /\ o # x.obj
  <2>1. CASE o = x.obj
    <3>1. \A y \in Items' : y.obj # o
      BY <2>1, ObjectsAssumption DEF Apart
    <3> QED
      BY <2>1, <3>1 DEF InHeap
  <2>2. CASE o # x.obj
    BY <2>2 DEF InHeap
  <2> QED
    BY <2>1, <2>2
<1>2. \A o \in Objects : InHeap(o)' = (InHeap(o) /\ o # x.obj)
  BY <1>1 DEF InHeap
<1> QED
  BY <1>2 DEF Typed, Apart

LEMMA DropItemKeeps ==
    ASSUME IInv, DropItem
    PROVE  IInv'
<1> USE DEF IInv
<1>1. PICK x \in Due : x.obj \notin needed /\ Items' = Items \ {x}
  BY DEF DropItem
<1>2. /\ pc = "step" /\ i' = (i + 1) % 3
      /\ UNCHANGED <<ItemsRT, ItemsProcessed, Registration, m_current_step_obj,
                     m_processing_now, b_RT, rt, pc, wanted, needed, updated>>
  BY DEF DropItem
<1>3. x \in Items
  BY DEF Due
<1>4. /\ Items' \in SUBSET ItemRecords
      /\ \A o \in Objects : InHeap(o)' = (InHeap(o) /\ o # x.obj)
      /\ \A y, z \in Items' : y.obj = z.obj /\ y.obj # null => y = z
  BY <1>1, <1>3, HeapWithout
<1>5. \A o : InRT(o)' = InRT(o) /\ InProcessed(o)' = InProcessed(o)
  BY <1>2 DEF InRT, InProcessed
<1>6. i' \in 0 .. 2
  BY <1>2 DEF Typed
<1>7. Typed' /\ Phases'
  BY <1>2, <1>4, <1>6 DEF Typed, Phases
<1>8. Apart'
  BY <1>2, <1>4, <1>5, ApartShrunk DEF Apart
<1>9. QueueInv'
  <2>1. \A o \in Objects : /\ Listed(o)' => Listed(o)
                           /\ Waiting(o)' => Waiting(o)
                           /\ Listed(o) /\ o \in needed => Listed(o)'
    BY <1>1, <1>2, <1>4, <1>5 DEF Listed, Waiting
  <2> QED
    BY <1>2, <1>5, <2>1, QueueKept DEF Typed
<1> QED
  BY <1>7, <1>8, <1>9

LEMMA UpdateItemKeeps ==
    ASSUME IInv, UpdateItem
    PROVE  IInv'
<1> USE DEF IInv
<1>1. PICK x \in Due : /\ x.obj \in needed /\ Items' = Items \ {x}
                       /\ m_current_step_obj' = x.obj
                       /\ updated' = updated \cup {x.obj}
  BY DEF UpdateItem
<1>2. /\ pc = "step" /\ pc' = "stepUpdate"
      /\ UNCHANGED <<ItemsRT, ItemsProcessed, Registration, m_processing_now, b_RT, rt, i,
                     wanted, needed>>
  BY DEF UpdateItem
<1>3. x \in Items /\ x.obj \in Objects /\ InHeap(x.obj)
  BY <1>1 DEF Due, Typed, InHeap
<1>4. /\ Items' \in SUBSET ItemRecords
      /\ \A o \in Objects : InHeap(o)' = (InHeap(o) /\ o # x.obj)
      /\ \A y, z \in Items' : y.obj = z.obj /\ y.obj # null => y = z
  BY <1>1, <1>3, HeapWithout
<1>5. \A o : InRT(o)' = InRT(o) /\ InProcessed(o)' = InProcessed(o)
  BY <1>2 DEF InRT, InProcessed
<1>6. m_current_step_obj = null /\ \A o \in Objects : o # null
  BY <1>2, ObjectsAssumption DEF Phases
<1>7. Typed' /\ Phases'
  BY <1>1, <1>2, <1>3, <1>4 DEF Typed, Phases, PCs, InLoops
<1>8. Apart'
  BY <1>1, <1>2, <1>3, <1>4, <1>5, <1>6 DEF Apart
<1>9. QueueInv'
  <2>1. \A o \in Objects : Listed(o)' = Listed(o) /\ Waiting(o)' = Waiting(o)
    BY <1>1, <1>3, <1>4, <1>5, <1>6 DEF Listed, Waiting
  <2> QED
    BY <1>2, <1>5, <2>1, QueueKept DEF Typed
<1> QED
  BY <1>7, <1>8, <1>9

LEMMA ReturnUnregisteredKeeps ==
    ASSUME IInv, ReturnUnregistered
    PROVE  IInv'
<1> USE DEF IInv
<1>1. /\ pc = "stepUpdate" /\ m_current_step_obj = null /\ pc' = "step" /\ i' = (i + 1) % 3
      /\ UNCHANGED <<lists, Registration, m_current_step_obj, m_processing_now, b_RT, rt,
                     wanted, needed, updated>>
  BY DEF ReturnUnregistered
<1>2. i' \in 0 .. 2
  BY <1>1 DEF Typed
<1>3. Typed' /\ Phases'
  BY <1>1, <1>2 DEF Typed, Phases, PCs, InLoops, lists
<1>4. Apart'
  BY <1>1, ListsKept
<1>5. QueueInv'
  BY <1>1, ListsKept, QueueKept DEF Typed
<1> QED
  BY <1>3, <1>4, <1>5

LEMMA ReturnProcessedKeeps ==
    ASSUME IInv, ReturnProcessed
    PROVE  IInv'
<1> USE DEF IInv
<1>0. PICK o : o = m_current_step_obj
  OBVIOUS
<1>1. PICK period \in 1 .. MaxPeriod :
        ItemsProcessed' = ItemsProcessed \cup {Item(o, period)}
  BY <1>0 DEF ReturnProcessed
<1>2. /\ pc = "stepUpdate" /\ o # null
      /\ m_current_step_obj' = null /\ i' = (i + 1) % 3
      /\ pc' \in {"step", "stepEnd"}
      /\ UNCHANGED <<Items, ItemsRT, Registration, m_processing_now, b_RT, rt, wanted,
                     needed, updated>>
  BY <1>0 DEF ReturnProcessed
<1>3. o \in Objects /\ Item(o, period) \in ProcessedRecords /\ Item(o, period).obj = o
  BY <1>0, <1>2 DEF Typed, Item, ProcessedRecords
<1>4. i' \in 0 .. 2 /\ ItemsProcessed' \in SUBSET ProcessedRecords
  BY <1>1, <1>2, <1>3 DEF Typed
<1>5. \A x : InRT(x)' = InRT(x) /\ InHeap(x)' = InHeap(x)
  BY <1>2 DEF InRT, InHeap
<1>6. \A x : InProcessed(x)' = (InProcessed(x) \/ x = o)
  BY <1>1, <1>3 DEF InProcessed
<1>7. ~InRT(o) /\ ~InHeap(o) /\ ~InProcessed(o)
  BY <1>0, <1>3 DEF Apart
<1>8. Typed' /\ Phases'
  BY <1>2, <1>4 DEF Typed, Phases, PCs, InLoops
<1>9. Apart'
  <2>1. \A x, y \in ItemsProcessed' : x.obj = y.obj => x = y
    BY <1>1, <1>3, <1>7 DEF Apart, InProcessed
  <2>2. ASSUME NEW x \in Objects
        PROVE  /\ InRT(x)' => ~InHeap(x)' /\ ~InProcessed(x)' /\ m_current_step_obj' # x
               /\ InHeap(x)' => ~InProcessed(x)' /\ m_current_step_obj' # x
               /\ InProcessed(x)' => m_current_step_obj' # x
    BY <1>2, <1>5, <1>6, <1>7, ObjectsAssumption DEF Apart
  <2> QED
    BY <1>2, <2>1, <2>2 DEF Apart
<1>10. QueueInv'
  <2>1. \A x \in Objects : Listed(x)' = Listed(x) /\ (Waiting(x)' => Waiting(x))
    BY <1>0, <1>2, <1>5, <1>6, ObjectsAssumption DEF Listed, Waiting
  <2> QED
    BY <1>2, <1>5, <2>1, QueueKept DEF Typed
<1> QED
  BY <1>8, <1>9, <1>10

LEMMA EndStepKeeps ==
    ASSUME IInv, EndStep
    PROVE  IInv'
<1> USE DEF IInv
<1>1. /\ pc \in {"stepEnd", "step"} /\ pc' = "registerAfter"
      /\ Items' = Items \cup ItemsProcessed /\ ItemsProcessed' = {}
      /\ m_processing_now' = FALSE /\ i' = 0
      /\ UNCHANGED <<ItemsRT, Registration, m_current_step_obj, b_RT, rt, wanted, needed,
                     updated>>
  BY DEF EndStep
<1>2. ProcessedRecords \subseteq ItemRecords
  BY TimeAssumption DEF ProcessedRecords, ItemRecords
<1>3. Typed' /\ Phases'
  <2>1. Typed'
    <3>1. Items' \in SUBSET ItemRecords
      BY <1>1, <1>2 DEF Typed
    <3>2. pc' \in PCs /\ i' \in 0 .. 2 /\ ItemsProcessed' \in SUBSET ProcessedRecords
      BY <1>1 DEF PCs
    <3> QED
      BY <1>1, <3>1, <3>2 DEF Typed
  <2>2. Phases'
    BY <1>1 DEF Phases, InLoops
  <2> QED
    BY <2>1, <2>2
<1>4. \A o : InRT(o)' = InRT(o) /\ InProcessed(o)' = FALSE
  BY <1>1 DEF InRT, InProcessed
<1>5. \A o : InHeap(o)' = (InHeap(o) \/ InProcessed(o))
  BY <1>1 DEF InHeap, InProcessed
<1>6. m_current_step_obj = null
  BY <1>1 DEF Phases
<1>7. Apart'
  <2>1. ASSUME NEW x \in Items', NEW y \in Items', x.obj = y.obj, x.obj # null
        PROVE  x = y
    <3>1. x.obj \in Objects
      BY <1>1, <1>2, <2>1 DEF Typed, ItemRecords
    <3>2. ~(InHeap(x.obj) /\ InProcessed(x.obj))
      BY <3>1 DEF Apart
    <3> QED
      BY <1>1, <2>1, <3>2 DEF Apart, InHeap, InProcessed
  <2>2. ASSUME NEW o \in Objects
        PROVE  /\ InRT(o)' => ~InHeap(o)' /\ ~InProcessed(o)' /\ m_current_step_obj' # o
               /\ InHeap(o)' => ~InProcessed(o)' /\ m_current_step_obj' # o
               /\ InProcessed(o)' => m_current_step_obj' # o
    BY <1>1, <1>4, <1>5, <1>6, ObjectsAssumption DEF Apart
  <2> QED
    BY <1>1, <2>1, <2>2 DEF Apart
<1>8. QueueInv'
  <2>1. \A o \in Objects : Listed(o)' = Listed(o)
    BY <1>1, <1>4, <1>5 DEF Listed
  <2> QED
    BY <1>1, <1>4, <2>1, QueueKept DEF Typed
<1> QED
  BY <1>3, <1>7, <1>8

LEMMA EndUpdateKeeps ==
    ASSUME IInv, EndUpdate
    PROVE  IInv'
<1> USE DEF IInv
<1>1. /\ pc = "registerAfter" /\ pc' = "idle" /\ updated' = {}
      /\ UNCHANGED <<lists, Registration, m_current_step_obj, m_processing_now, b_RT, rt,
                     i, wanted, needed>>
  BY DEF EndUpdate
<1>2. Typed' /\ Phases'
  BY <1>1 DEF Typed, Phases, PCs, InLoops, lists
<1>3. Apart'
  BY <1>1, ListsKept
<1>4. QueueInv'
  BY <1>1, ListsKept, QueueKept DEF Typed
<1> QED
  BY <1>2, <1>3, <1>4

-----------------------------------------------------------------------------
LEMMA InitInv == Init => IInv
<1> SUFFICES ASSUME Init PROVE IInv
  OBVIOUS
<1> USE ObjectsAssumption DEF Init
<1>1. Typed
  <2>1. rt \in RTLoops
    BY DEF RTLoops, NoLoop
  <2>2. b_RT \in [Objects -> BOOLEAN] /\ pc \in PCs /\ i \in 0 .. 2
    BY DEF PCs
  <2>3. ItemsRT \in Seq(Objects) /\ Registration \in Seq(OpRecords)
    OBVIOUS
  <2> QED
    BY <2>1, <2>2, <2>3 DEF Typed
<1>2. \A o \in Objects : ~InRT(o) /\ ~InHeap(o) /\ ~InProcessed(o) /\ ~Listed(o)
  BY DEF InRT, Contains, InHeap, InProcessed, Listed
<1>3. Apart
  BY <1>2 DEF Apart, IsInjective
<1>4. Phases
  BY DEF Phases, InLoops
<1>5. QueueInv
  BY <1>2 DEF QueueInv, Alternate, LastCall, FirstCall, NoCall, LoopCall
<1> QED
  BY <1>1, <1>3, <1>4, <1>5 DEF IInv

LEMMA NextInv == IInv /\ [Next]_vars => IInv'
<1> SUFFICES ASSUME IInv, [Next]_vars PROVE IInv'
  OBVIOUS
<1>1. ASSUME NEW o \in Objects, NEW real \in BOOLEAN, Register(o, real) PROVE IInv'
  BY <1>1, RegisterKeeps
<1>2. ASSUME NEW o \in Objects, Unregister(o) PROVE IInv'
  BY <1>2, UnregisterKeeps
<1>3. ASSUME NEW o \in Objects, SetDestroy(o) PROVE IInv'
  BY <1>3, SetDestroyKeeps
<1>4. ASSUME NEW o \in Objects, NEW before \in Objects, EnsureOrder(before, o) PROVE IInv'
  BY <1>4, EnsureOrderKeeps
<1>5. ASSUME Destroy PROVE IInv'
  BY <1>5, DestroyKeeps
<1>6. ASSUME BeginUpdate PROVE IInv'
  BY <1>6, BeginUpdateKeeps
<1>7. ASSUME internal_Registration PROVE IInv'
  BY <1>7, RegisterSkippedKeeps, RegisterAppliedKeeps, UnregisterAppliedKeeps
     DEF internal_Registration
<1>8. ASSUME BeginRealTime PROVE IInv'
  BY <1>8, BeginRealTimeKeeps
<1>9. ASSUME RealTimeItem PROVE IInv'
  BY <1>9, RealTimeItemKeeps
<1>10. ASSUME RealTimeReturn PROVE IInv'
  BY <1>10, RealTimeReturnKeeps
<1>11. ASSUME BeginStep PROVE IInv'
  BY <1>11, BeginStepKeeps
<1>12. ASSUME DropItem PROVE IInv'
  BY <1>12, DropItemKeeps
<1>13. ASSUME UpdateItem PROVE IInv'
  BY <1>13, UpdateItemKeeps
<1>14. ASSUME ReturnUnregistered PROVE IInv'
  BY <1>14, ReturnUnregisteredKeeps
<1>15. ASSUME ReturnProcessed PROVE IInv'
  BY <1>15, ReturnProcessedKeeps
<1>16. ASSUME EndStep PROVE IInv'
  BY <1>16, EndStepKeeps
<1>17. ASSUME EndUpdate PROVE IInv'
  BY <1>17, EndUpdateKeeps
<1>18. ASSUME UNCHANGED vars PROVE IInv'
  <2>1. UNCHANGED <<lists, m_current_step_obj>> /\ Typed' /\ Phases'
    BY <1>18 DEF IInv, Typed, Phases, vars, lists
  <2>2. QueueInv'
    BY <1>18, ListsKept, <2>1, QueueKept DEF IInv, Typed, vars
  <2> QED
    BY <2>1, <2>2, ListsKept DEF IInv
<1> QED
  BY <1>1, <1>2, <1>3, <1>4, <1>5, <1>6, <1>7, <1>8, <1>9, <1>10, <1>11, <1>12, <1>13,
     <1>14, <1>15, <1>16, <1>17, <1>18 DEF Next, Client, Update

LEMMA InvHolds == Spec => []IInv
<1>1. Init => IInv
  BY InitInv
<1>2. IInv /\ [Next]_vars => IInv'
  BY NextInv
<1> QED
  BY <1>1, <1>2, PTL DEF Spec

LEMMA AtMostOne ==
    ASSUME NEW S, \A x, y \in S : x = y
    PROVE  Cardinality(S) = IF S = {} THEN 0 ELSE 1
<1>1. CASE S = {}
  BY <1>1, FS_EmptySet
<1>2. CASE S # {}
  <2>1. PICK x \in S : S = {x}
    BY <1>2
  <2> QED
    BY <1>2, <2>1, FS_Singleton
<1> QED
  BY <1>1, <1>2

\* No object is in two lists of the scheduler, nor twice in one, whatever the
\* clients register, unregister and reorder, between two frames or from
\* inside both loops of Update().
THEOREM SchedulerInvHolds == Spec => []SchedulerInv
<1>1. IInv => SchedulerInv
  <2> SUFFICES ASSUME IInv PROVE SchedulerInv
    OBVIOUS
  <2>1. TypeOK
    <3> USE DEF IInv, Typed
    <3>1. \A x \in Items : x.obj \in Objects \cup {null} /\ x.due \in Int
      BY DEF ItemRecords
    <3>2. \A x \in ItemsProcessed : x.obj \in Objects /\ x.due \in 1 .. MaxPeriod
      BY DEF ProcessedRecords
    <3>3. \A k \in DOMAIN ItemsRT : ItemsRT[k] \in Objects
      OBVIOUS
    <3>4. \A k \in DOMAIN Registration : Registration[k] \in OpRecords
      OBVIOUS
    <3>5. rt.pos \in Nat /\ rt.end \in Nat
      BY DEF RTLoops
    <3> QED
      BY <3>1, <3>2, <3>3, <3>4, <3>5 DEF TypeOK, OpRecords
  <2>2. ASSUME NEW o \in Objects PROVE Live(o) <= 1
    <3> DEFINE A == {x \in Items : x.obj = o}
               B == {x \in ItemsProcessed : x.obj = o}
               C == {k \in DOMAIN ItemsRT : ItemsRT[k] = o}
    <3>1. Cardinality(A) = IF InHeap(o) THEN 1 ELSE 0
      <4>1. \A x, y \in A : x = y
        BY ObjectsAssumption DEF IInv, Apart
      <4>2. A # {} <=> InHeap(o)
        BY DEF InHeap
      <4> HIDE DEF A
      <4> QED
        BY <4>1, <4>2, AtMostOne
    <3>2. Cardinality(B) = IF InProcessed(o) THEN 1 ELSE 0
      <4>1. \A x, y \in B : x = y
        BY DEF IInv, Apart
      <4>2. B # {} <=> InProcessed(o)
        BY DEF InProcessed
      <4> HIDE DEF B
      <4> QED
        BY <4>1, <4>2, AtMostOne
    <3>3. Cardinality(C) = IF InRT(o) THEN 1 ELSE 0
      <4>1. \A x, y \in C : x = y
        BY DEF IInv, Apart, IsInjective
      <4>2. C # {} <=> InRT(o)
        BY DEF InRT, Contains, IInv, Typed
      <4> HIDE DEF C
      <4> QED
        BY <4>1, <4>2, AtMostOne
    <3> HIDE DEF A, B, C
    <3>4. /\ InRT(o) => ~InHeap(o) /\ ~InProcessed(o) /\ m_current_step_obj # o
          /\ InHeap(o) => ~InProcessed(o) /\ m_current_step_obj # o
          /\ InProcessed(o) => m_current_step_obj # o
      BY DEF IInv, Apart
    <3>5. Live(o) = Cardinality(A) + Cardinality(B) + Cardinality(C)
                    + (IF m_current_step_obj = o THEN 1 ELSE 0)
      BY DEF Live, A, B, C
    <3> QED
      BY <3>1, <3>2, <3>3, <3>4, <3>5
  <2> QED
    BY <2>1, <2>2 DEF SchedulerInv, OneEntry
<1> QED
  BY <1>1, InvHolds, PTL

\* What the clients asked for last is what Registered() answers, except that
\* an object that is no longer needed may have been dropped.
THEOREM RegistryAgreesHolds == Spec => []RegistryAgrees
<1>1. IInv => RegistryAgrees
  <2> SUFFICES ASSUME IInv, NEW o \in Objects
               PROVE  /\ Registered(o) => o \in wanted
                      /\ o \in wanted /\ o \in needed => Registered(o)
    BY DEF RegistryAgrees
  <2> USE DEF IInv, QueueInv
  <2>1. CASE Calls(o) = {}
    BY <2>1 DEF NoCall, Registered, Listed
  <2>2. CASE Calls(o) # {}
    <3>1. m_current_step_obj # o
      <4>1. m_current_step_obj = o => m_processing_now
        BY ObjectsAssumption DEF Phases, InLoops
      <4> QED
        BY <2>2, <4>1 DEF LoopCall, Waiting
    <3>2. ASSUME NEW k \in Calls(o), \A m \in Calls(o) : m <= k
          PROVE  Registration[k].OP <=> o \in wanted
      <4>1. k \in DOMAIN Registration /\ Registration[k].obj = o
        BY DEF Calls
      <4>2. LastAt(k)
        <5> SUFFICES ASSUME NEW j \in k + 1 .. Len(Registration), SameObject(j, k)
                     PROVE  FALSE
          BY DEF LastAt
        <5>1. DOMAIN Registration = 1 .. Len(Registration) /\ Len(Registration) \in Nat
          BY DEF Typed
        <5>2. j \in Calls(o)
          BY <4>1, <5>1 DEF Calls, SameObject
        <5> QED
          BY <3>2, <4>1, <5>1, <5>2
      <4> QED
        BY <4>1, <4>2 DEF LastCall
    <3>3. \E k \in Calls(o) : \A m \in Calls(o) : m <= k
      BY <2>2, LastQueued DEF Typed
    <3> QED
      BY <2>2, <3>1, <3>2, <3>3 DEF Registered
  <2> QED
    BY <2>1, <2>2
<1> QED
  BY <1>1, InvHolds, PTL

-----------------------------------------------------------------------------
(***************************************************************************)
(* The two loops, as long as no real-time object is unregistered in the    *)
(* first.                                                                  *)
(***************************************************************************)

\* A step that neither moves a loop on nor changes the vector.
LEMMA OnceKept ==
    ASSUME OnceInv, UNCHANGED <<ItemsRT, rt, pc>>, updated' = updated,
           \A o \in updated : InHeap(o)' => InHeap(o)
    PROVE  OnceInv'
BY DEF OnceInv, Passed

\* Between the loops there is nothing to keep but an empty set.
LEMMA OnceOutside ==
    ASSUME Phases', pc' \notin InLoops, pc' \in {"idle", "registerBefore"} => updated' = {}
    PROVE  OnceInv'
<1>1. rt' = NoLoop
  BY DEF Phases, InLoops
<1>2. rt'.left = <<>>
  BY <1>1 DEF NoLoop
<1> QED
  BY <1>2 DEF OnceInv, InLoops

LEMMA UnregisterOnce ==
    ASSUME IInv, OnceInv, ~EraseInLoop, NEW o \in Objects, Unregister(o), IInv'
    PROVE  OnceInv'
<1>1. /\ ClientTurn /\ b_RT[o] \in BOOLEAN
      /\ UNCHANGED <<ItemsProcessed, loops>>
      /\ pc = "rtUpdate" => ~b_RT[o]
  BY DEF Unregister, IInv, Typed
<1>2. /\ \A x \in Objects : InHeap(x)' => InHeap(x)
      /\ rt' = rt
      /\ pc = "rtUpdate" => ItemsRT' = ItemsRT
  <2>1. CASE internal_Unregister(o, b_RT[o])
    <3>1. /\ \A x \in Objects \ {o} : InHeap(x)' <=> InHeap(x)
          /\ InHeap(o)' <=> InHeap(o) /\ b_RT[o]
          /\ rt.end = 0 => rt' = rt
          /\ rt.end # 0 /\ ~(b_RT[o] /\ InRT(o)) => rt' = rt
          /\ ~(b_RT[o] /\ InRT(o)) => ItemsRT' = ItemsRT
      BY <1>1, <2>1, UnregisterLists DEF IInv
    <3>2. pc # "rtUpdate" => rt.end = 0
      BY <1>1 DEF ClientTurn, IInv, Phases, NoLoop
    <3> QED
      BY <1>1, <3>1, <3>2
  <2>2. CASE UNCHANGED <<Items, ItemsRT, rt, m_current_step_obj>>
    BY <2>2 DEF InHeap
  <2> QED
    BY <2>1, <2>2 DEF Unregister
<1>3. CASE pc = "rtUpdate"
  BY <1>1, <1>2, <1>3, OnceKept DEF loops, IInv, Typed
<1>4. CASE pc # "rtUpdate"
  BY <1>1, <1>2, <1>4 DEF ClientTurn, OnceInv, loops, IInv, Typed
<1> QED
  BY <1>3, <1>4

LEMMA RealTimeItemOnce ==
    ASSUME IInv, OnceInv, RealTimeItem
    PROVE  /\ OnceInv'
           /\ rt.pos \in 1 .. Len(ItemsRT) /\ AtRT = ItemsRT[rt.pos]
           /\ InRT(AtRT) /\ AtRT \in Objects
<1> USE DEF IInv
<1>1. /\ pc = "rt" /\ rt.pos <= rt.end
      /\ UNCHANGED <<lists, Registration, m_current_step_obj, m_processing_now, b_RT, i,
                     wanted, needed>>
      /\ \/ rt' = [rt EXCEPT !.pos = @ + 1] /\ UNCHANGED <<pc, updated>>
         \/ pc' = "rtUpdate" /\ updated' = updated \cup {AtRT} /\ UNCHANGED rt
  BY DEF RealTimeItem
<1>2. rt \in RTLoops /\ rt.pos \in Nat /\ rt.left = <<>> /\ ItemsRT \in Seq(Objects)
  BY DEF Typed, RTLoops, OnceInv
<1>3. rt.pos \in 1 .. Len(ItemsRT)
  BY <1>1, <1>2 DEF Phases
<1>4. AtRT = ItemsRT[rt.pos]
  BY <1>2, <1>3 DEF AtRT
<1>5. InRT(AtRT) /\ AtRT \in Objects
  BY <1>2, <1>3, <1>4 DEF InRT, Contains
<1>6. ItemsRT' = ItemsRT /\ \A o : InHeap(o)' = InHeap(o)
  BY <1>1 DEF lists, InHeap
<1>7. CASE rt' = [rt EXCEPT !.pos = @ + 1] /\ UNCHANGED <<pc, updated>>
  <2>1. rt'.pos = rt.pos + 1 /\ rt'.left = rt.left
    BY <1>2, <1>7 DEF RTLoops
  <2>2. ASSUME NEW o \in updated PROVE Passed(o, rt.pos - 1)'
    BY <1>1, <1>2, <1>6, <2>1 DEF OnceInv, Passed
  <2> QED
    BY <1>1, <1>2, <1>3, <1>4, <1>5, <1>6, <1>7, <2>1, <2>2 DEF OnceInv
<1>8. CASE pc' = "rtUpdate" /\ updated' = updated \cup {AtRT} /\ UNCHANGED rt
  <2>1. ~InHeap(AtRT)
    BY <1>5 DEF Apart
  <2>2. ASSUME NEW o \in updated' PROVE Passed(o, rt.pos)'
    <3>1. CASE o = AtRT
      BY <1>2, <1>3, <1>4, <1>6, <1>8, <3>1 DEF Passed
    <3>2. CASE o # AtRT
      BY <1>1, <1>2, <1>6, <1>8, <3>2 DEF Passed, OnceInv
    <3> QED
      BY <3>1, <3>2
  <2>3. \A o \in updated' : ~InHeap(o)'
    BY <1>1, <1>6, <1>8, <2>1 DEF OnceInv, InLoops
  <2> QED
    BY <1>1, <1>2, <1>3, <1>4, <1>5, <1>8, <2>2, <2>3 DEF OnceInv
<1> QED
  BY <1>1, <1>7, <1>8

LEMMA NextOnce ==
    ASSUME ~EraseInLoop, IInv, IInv', OnceInv, [Next]_vars
    PROVE  OnceInv'
<1>0. \A o \in updated : o \in Objects
  BY DEF IInv, Typed
<1>1. ASSUME NEW o \in Objects, NEW real \in BOOLEAN, Register(o, real) PROVE OnceInv'
  BY <1>1, OnceKept DEF Register, lists, loops, InHeap
<1>2. ASSUME NEW o \in Objects, Unregister(o) PROVE OnceInv'
  BY <1>2, UnregisterOnce
<1>3. ASSUME NEW o \in Objects, SetDestroy(o) PROVE OnceInv'
  BY <1>3, OnceKept DEF SetDestroy, lists, loops, InHeap
<1>4. ASSUME NEW o \in Objects, NEW before \in Objects, EnsureOrder(before, o) PROVE OnceInv'
  BY <1>4, OnceOutside DEF EnsureOrder, loops, IInv, OnceInv, InLoops
<1>5. ASSUME Destroy PROVE OnceInv'
  BY <1>5, OnceOutside DEF Destroy, loops, IInv, OnceInv, InLoops
<1>6. ASSUME BeginUpdate PROVE OnceInv'
  BY <1>6, OnceOutside DEF BeginUpdate, IInv, OnceInv, InLoops
<1>7. ASSUME internal_Registration PROVE OnceInv'
  BY <1>7, OnceOutside DEF internal_Registration, loops, IInv, OnceInv, InLoops
<1>8. ASSUME BeginRealTime PROVE OnceInv'
  BY <1>8 DEF BeginRealTime, OnceInv
<1>9. ASSUME RealTimeItem PROVE OnceInv'
  BY <1>9, RealTimeItemOnce
<1>10. ASSUME RealTimeReturn PROVE OnceInv'
  <2>1. /\ pc = "rtUpdate" /\ pc' = "rt" /\ ItemsRT' = ItemsRT /\ updated' = updated
        /\ rt' = [rt EXCEPT !.pos = @ + 1] /\ Items' = Items
    BY <1>10 DEF RealTimeReturn, lists
  <2>2. rt'.pos - 1 = rt.pos /\ rt'.left = rt.left
    BY <2>1 DEF IInv, Typed, RTLoops
  <2> QED
    BY <2>1, <2>2 DEF OnceInv, Passed, InHeap, InLoops
<1>11. ASSUME BeginStep PROVE OnceInv'
  BY <1>11 DEF BeginStep, OnceInv, NoLoop, InLoops, lists, InHeap
<1>12. ASSUME DropItem PROVE OnceInv'
  BY <1>12, OnceKept DEF DropItem, InHeap
<1>13. ASSUME UpdateItem PROVE OnceInv'
  <2>1. PICK x \in Due : /\ Items' = Items \ {x} /\ x.obj \in needed
                         /\ updated' = updated \cup {x.obj}
    BY <1>13 DEF UpdateItem
  <2>2. pc = "step" /\ pc' = "stepUpdate" /\ rt' = rt
    BY <1>13 DEF UpdateItem
  <2>3. x \in Items /\ x.obj \in Objects
    BY <2>1 DEF Due, IInv, Typed
  <2>4. \A o \in Objects : InHeap(o)' = (InHeap(o) /\ o # x.obj)
    BY <2>1, <2>3, HeapWithout DEF IInv
  <2> QED
    BY <1>0, <2>1, <2>2, <2>3, <2>4 DEF OnceInv, InLoops
<1>14. ASSUME ReturnUnregistered PROVE OnceInv'
  BY <1>14 DEF ReturnUnregistered, OnceInv, lists, InHeap, InLoops
<1>15. ASSUME ReturnProcessed PROVE OnceInv'
  BY <1>15 DEF ReturnProcessed, OnceInv, InHeap, InLoops
<1>16. ASSUME EndStep PROVE OnceInv'
  BY <1>16, OnceOutside DEF EndStep, IInv, InLoops
<1>17. ASSUME EndUpdate PROVE OnceInv'
  BY <1>17, OnceOutside DEF EndUpdate, IInv, InLoops
<1>18. ASSUME UNCHANGED vars PROVE OnceInv'
  BY <1>18, OnceKept DEF vars, InHeap
<1> QED
  BY <1>1, <1>2, <1>3, <1>4, <1>5, <1>6, <1>7, <1>8, <1>9, <1>10, <1>11, <1>12, <1>13,
     <1>14, <1>15, <1>16, <1>17, <1>18 DEF Next, Client, Update

LEMMA OnceHolds ==
    ASSUME ~EraseInLoop
    PROVE  Spec => []OnceInv
<1>1. Init => OnceInv
  BY DEF Init, OnceInv, NoLoop, InLoops
<1>2. IInv /\ IInv' /\ OnceInv /\ [Next]_vars => OnceInv'
  BY NextOnce
<1> QED
  BY <1>1, <1>2, InvHolds, PTL DEF Spec

\* In the loops only two actions call shedule_Update().
LEMMA WhoUpdates ==
    ASSUME [Next]_vars, updated' # updated
    PROVE  RealTimeItem \/ UpdateItem \/ updated' = {}
BY DEF Next, Client, Update, vars, loops, lists, Register, Unregister, SetDestroy,
       EnsureOrder, Destroy, BeginUpdate, internal_Registration, BeginRealTime,
       RealTimeReturn, BeginStep, DropItem, ReturnUnregistered, ReturnProcessed,
       EndStep, EndUpdate

\* An object waiting in a list during the loops is registered.
LEMMA WaitingWanted ==
    ASSUME IInv, m_processing_now, NEW o \in Objects, Waiting(o)
    PROVE  o \in wanted
<1>1. Calls(o) = {}
  BY DEF IInv, QueueInv, LoopCall
<1> QED
  BY <1>1 DEF IInv, QueueInv, NoCall, Listed, Waiting

\* As long as no real-time object is unregistered in their loop: an object is
\* not updated after its Unregister(), which may have come before the frame,
\* in it or from the update of another object.
THEOREM NoUpdateAfterUnregisterHolds ==
    ASSUME ~EraseInLoop
    PROVE  Spec => NoUpdateAfterUnregister
<1>1. IInv /\ OnceInv /\ [Next]_vars => [updated' \ updated \subseteq wanted]_vars
  <2> SUFFICES ASSUME IInv, OnceInv, [Next]_vars, updated' # updated
               PROVE  updated' \ updated \subseteq wanted
    OBVIOUS
  <2>1. CASE RealTimeItem
    <3>1. updated' \in {updated, updated \cup {AtRT}} /\ pc = "rt"
      BY <2>1 DEF RealTimeItem
    <3>2. AtRT \in Objects /\ Waiting(AtRT)
      BY <2>1, RealTimeItemOnce DEF Waiting
    <3>3. m_processing_now
      BY <3>1 DEF IInv, Phases, InLoops
    <3> HIDE DEF AtRT
    <3>4. AtRT \in wanted
      BY <3>2, <3>3, WaitingWanted
    <3> QED
      BY <3>1, <3>4
  <2>2. CASE UpdateItem
    <3>1. PICK x \in Due : x.obj \in needed /\ updated' = updated \cup {x.obj}
      BY <2>2 DEF UpdateItem
    <3>2. x.obj \in Objects /\ Waiting(x.obj)
      BY <3>1 DEF IInv, Typed, Due, Waiting, InHeap
    <3>3. m_processing_now
      BY <2>2 DEF UpdateItem, IInv, Phases, InLoops
    <3> QED
      BY <3>1, <3>2, <3>3, WaitingWanted
  <2> QED
    BY <2>1, <2>2, WhoUpdates
<1> QED
  BY <1>1, InvHolds, OnceHolds, PTL DEF Spec, NoUpdateAfterUnregister

LEMMA RealTimeEntry ==
    ASSUME [Next]_vars, pc = "rt", pc' = "rtUpdate"
    PROVE  RealTimeItem
BY DEF Next, Client, Update, vars, loops, lists, Register, Unregister, SetDestroy,
       EnsureOrder, Destroy, BeginUpdate, internal_Registration, BeginRealTime,
       RealTimeReturn, BeginStep, DropItem, UpdateItem, ReturnUnregistered,
       ReturnProcessed, EndStep, EndUpdate

LEMMA StepEntry ==
    ASSUME [Next]_vars, pc = "step", pc' = "stepUpdate"
    PROVE  UpdateItem
BY DEF Next, Client, Update, vars, loops, lists, Register, Unregister, SetDestroy,
       EnsureOrder, Destroy, BeginUpdate, internal_Registration, BeginRealTime,
       RealTimeItem, RealTimeReturn, BeginStep, DropItem, ReturnUnregistered,
       ReturnProcessed, EndStep, EndUpdate

\* Under the same condition no object is updated twice in a frame, by the two
\* loops together.
THEOREM UpdatedOncePerFrameHolds ==
    ASSUME ~EraseInLoop
    PROVE  Spec => UpdatedOncePerFrame
<1>1. ASSUME IInv, OnceInv, [Next]_vars, pc = "rt", pc' = "rtUpdate"
      PROVE  AtRT \notin updated
  <2>1. RealTimeItem
    BY <1>1, RealTimeEntry
  <2>2. rt.pos \in 1 .. Len(ItemsRT) /\ AtRT = ItemsRT[rt.pos]
    BY <1>1, <2>1, RealTimeItemOnce
  <2>3. IsInjective(ItemsRT) /\ ItemsRT \in Seq(Objects)
    BY <1>1 DEF IInv, Apart, Typed
  <2> SUFFICES ASSUME AtRT \in updated PROVE FALSE
    OBVIOUS
  <2>4. PICK k \in 1 .. rt.pos - 1 : k <= Len(ItemsRT) /\ ItemsRT[k] = AtRT
    BY <1>1 DEF OnceInv, Passed
  <2> QED
    BY <2>2, <2>3, <2>4 DEF IsInjective
<1>2. ASSUME IInv, OnceInv, [Next]_vars, pc = "step", pc' = "stepUpdate"
      PROVE  m_current_step_obj' \notin updated
  <2>1. PICK x \in Due : m_current_step_obj' = x.obj
    BY <1>2, StepEntry DEF UpdateItem
  <2>2. InHeap(x.obj)
    BY <2>1 DEF Due, InHeap
  <2> QED
    BY <1>2, <2>1, <2>2 DEF OnceInv, InLoops
<1>3. IInv /\ OnceInv /\ [Next]_vars =>
        [/\ pc = "rt" /\ pc' = "rtUpdate" => AtRT \notin updated
         /\ pc = "step" /\ pc' = "stepUpdate" => m_current_step_obj' \notin updated]_vars
  BY <1>1, <1>2
<1> QED
  BY <1>3, InvHolds, OnceHolds, PTL DEF Spec, UpdatedOncePerFrame

-----------------------------------------------------------------------------
(***************************************************************************)
(* How late an object may be.                                              *)
(***************************************************************************)

\* The objects that are to be added.
Pending == {o \in Objects : \E k \in Calls(o) : Registration[k].OP}

\* What is in the heap, or may be when this frame and the queue are done.
Entries ==
    Cardinality(Items) + Cardinality(ItemsProcessed)
    + (IF m_current_step_obj = null THEN 0 ELSE 1) + Cardinality(Pending)
\* What the queue can still add to a heap of almost MaxItems items.
Capacity ==
    IF MaxItems = 0 THEN 0 ELSE MaxItems - 1 + Cardinality(Objects) + MaxQueue \div 2
Fits == IsFiniteSet(Items) /\ IsFiniteSet(ItemsProcessed) /\ Entries <= Capacity

\* How many items this frame has taken from the heap, as far as i tells.
Handled ==
    IF pc = "step" THEN i
    ELSE IF pc = "stepUpdate" THEN i + 1
    ELSE IF pc \in {"stepEnd", "registerAfter", "idle"} THEN 3
    ELSE 0

\* The items not behind one that is due at this time.
Ahead(due) == {y \in Items : y.due <= due}
\* The later an item is, the fewer are before it.
InTurn(x) ==
    3 * (-x.due) + MaxTick * Cardinality(Ahead(x.due)) <= MaxTick * (Capacity + 3 - Handled)
LateInv == \A x \in Items : x.due < 0 => InTurn(x)

LEMMA FiniteObjects ==
    /\ IsFiniteSet(Objects) /\ Cardinality(Objects) \in Nat /\ Capacity \in Nat
    /\ \A S \in SUBSET Objects : IsFiniteSet(S) /\ Cardinality(S) \in Nat
                                 /\ Cardinality(S) <= Cardinality(Objects)
<1>1. IsFiniteSet(Objects) /\ Cardinality(Objects) \in Nat
  BY ObjectsAssumption, FS_CardinalityType
<1>2. Capacity \in Nat
  <2>1. MaxQueue \div 2 \in Nat
    BY QueueAssumption
  <2> QED
    BY <1>1, <2>1, QueueAssumption DEF Capacity
<1>3. ASSUME NEW S \in SUBSET Objects
      PROVE  IsFiniteSet(S) /\ Cardinality(S) \in Nat /\ Cardinality(S) <= Cardinality(Objects)
  BY <1>1, FS_Subset, FS_CardinalityType
<1> QED
  BY <1>1, <1>2, <1>3

\* A set is not smaller than what a function makes of it.
LEMMA ImageSize ==
    ASSUME NEW S, IsFiniteSet(S), NEW T, NEW f \in [S -> T],
           \A t \in T : \E s \in S : f[s] = t
    PROVE  IsFiniteSet(T) /\ Cardinality(T) <= Cardinality(S)
<1>1. f \in Surjection(S, T)
  BY DEF Surjection, Range
<1> QED
  BY <1>1, FS_Surjection

\* The processed items are of different objects.
LEMMA ProcessedSize ==
    ASSUME Typed, Apart
    PROVE  IsFiniteSet(ItemsProcessed) /\ Cardinality(ItemsProcessed) <= Cardinality(Objects)
<1> DEFINE f == [x \in ItemsProcessed |-> x.obj]
<1>1. \A x \in ItemsProcessed : x.obj \in Objects
  BY DEF Typed, ProcessedRecords
<1>2. f \in Injection(ItemsProcessed, Objects)
  BY <1>1 DEF Injection, Apart, IsInjective
<1> HIDE DEF f
<1> QED
  BY <1>2, FiniteObjects, FS_Injection

\* The sizes are numbers.
LEMMA Sizes ==
    ASSUME Fits
    PROVE  /\ Cardinality(Items) \in Nat /\ Cardinality(ItemsProcessed) \in Nat
           /\ Pending \in SUBSET Objects /\ Cardinality(Pending) \in Nat
           /\ Cardinality(Pending) <= Cardinality(Objects)
           /\ \A due \in Int : IsFiniteSet(Ahead(due)) /\ Cardinality(Ahead(due)) \in Nat
                               /\ Cardinality(Ahead(due)) <= Cardinality(Items)
<1>1. Pending \in SUBSET Objects
  BY DEF Pending
<1>2. IsFiniteSet(Items) /\ IsFiniteSet(ItemsProcessed)
  BY DEF Fits
<1>3. ASSUME NEW due \in Int
      PROVE  IsFiniteSet(Ahead(due)) /\ Cardinality(Ahead(due)) \in Nat
             /\ Cardinality(Ahead(due)) <= Cardinality(Items)
  <2>1. Ahead(due) \in SUBSET Items
    BY DEF Ahead
  <2> QED
    BY <1>2, <2>1, FS_Subset, FS_CardinalityType
<1> QED
  BY <1>1, <1>2, <1>3, FiniteObjects, FS_CardinalityType

LEMMA HandledFact == ASSUME Typed PROVE Handled \in 0 .. 3
BY DEF Typed, Handled

LEMMA HandledNext == ASSUME Typed' PROVE Handled' \in 0 .. 3
<1>1. i' \in 0 .. 2
  BY DEF Typed
<1>2. PICK n \in 0 .. 2 : n = i'
  BY <1>1
<1>3. PICK h : h = Handled'
  OBVIOUS
<1>4. h \in {0, 3, n, n + 1}
  BY <1>2, <1>3 DEF Handled
<1>5. h \in 0 .. 3
  BY <1>4
<1> QED
  BY <1>3, <1>5

\* Time stands still, and k items are taken from before all that remain.
LEMMA TurnKept ==
    ASSUME Typed, Typed', Fits, LateInv, NEW k \in 0 .. 1, Handled' <= Handled + k,
           \A y \in Items' : y.due < 0 =>
               /\ \E x \in Items : x.due = y.due
               /\ Cardinality(Ahead(y.due)') \in Nat
               /\ Cardinality(Ahead(y.due)') <= Cardinality(Ahead(y.due)) - k
    PROVE  LateInv'
<1> SUFFICES ASSUME NEW y \in Items', y.due < 0 PROVE InTurn(y)'
  BY DEF LateInv
<1> DEFINE due == y.due
           h == Handled
           g == Handled'
           a == Cardinality(Ahead(due))
           b == Cardinality(Ahead(due)')
           T == MaxTick
           C == Capacity
<1>1. PICK x \in Items : x.due = due
  OBVIOUS
<1>2. due \in Int /\ h \in 0 .. 3 /\ g \in 0 .. 3 /\ T \in Nat /\ C \in Nat
  <2>1. y \in ItemRecords
    BY DEF Typed
  <2>2. Handled \in 0 .. 3 /\ Handled' \in 0 .. 3
    BY HandledFact, HandledNext
  <2> QED
    BY <2>1, <2>2, FiniteObjects, TimeAssumption DEF ItemRecords
<1>3. a \in Nat /\ b \in Nat /\ b <= a - k
  BY <1>1, <1>2, Sizes
<1>4. 3 * (-due) + T * a <= T * (C + 3 - h)
  BY <1>1 DEF LateInv, InTurn
<1>5. g <= h + k
  OBVIOUS
<1> HIDE DEF due, h, g, a, b, T, C
<1>6. T * b <= T * a - T * k /\ T * (C + 3 - h) <= T * (C + 3 - g) + T * k
  <2>1. T * b <= T * (a - k)
    BY <1>2, <1>3
  <2>2. T * (C + 3 - h) <= T * ((C + 3 - g) + k)
    BY <1>2, <1>5
  <2>3. T * (a - k) = T * a - T * k /\ T * ((C + 3 - g) + k) = T * (C + 3 - g) + T * k
    BY <1>2, <1>3
  <2>4. /\ T * b \in Int /\ T * a \in Int /\ T * k \in Int /\ T * (a - k) \in Int
        /\ T * (C + 3 - h) \in Int /\ T * (C + 3 - g) \in Int /\ T * ((C + 3 - g) + k) \in Int
    BY <1>2, <1>3
  <2> QED
    BY <2>1, <2>2, <2>3, <2>4
<1>7. 3 * (-due) + T * b <= T * (C + 3 - g)
  <2>1. /\ T * b \in Int /\ T * a \in Int /\ T * k \in Int
        /\ T * (C + 3 - h) \in Int /\ T * (C + 3 - g) \in Int /\ 3 * (-due) \in Int
    BY <1>2, <1>3
  <2> QED
    BY <1>4, <1>6, <2>1
<1> QED
  BY <1>7 DEF InTurn, due, g, b, T, C

\* The heap stays as it is, or loses objects but no items.
LEMMA SameItems ==
    ASSUME Typed, Typed', Fits, LateInv, Items' = Items, Handled' <= Handled
    PROVE  LateInv'
<1>1. ASSUME NEW y \in Items'
      PROVE  /\ Cardinality(Ahead(y.due)') \in Nat
             /\ Cardinality(Ahead(y.due)') <= Cardinality(Ahead(y.due)) - 0
  <2>1. y.due \in Int
    BY DEF Typed, ItemRecords
  <2>2. Ahead(y.due)' = Ahead(y.due)
    BY DEF Ahead
  <2> QED
    BY <2>1, <2>2, Sizes
<1>2. Handled' <= Handled + 0
  BY HandledFact
<1> QED
  BY <1>1, <1>2, TurnKept

\* An item loses its object, and may then count as one with another.
LEMMA Cleared ==
    ASSUME Typed, Typed', Fits, NEW o \in Objects, ClearItem(o)
    PROVE  /\ IsFiniteSet(Items') /\ Cardinality(Items') \in Nat
           /\ Cardinality(Items') <= Cardinality(Items)
           /\ LateInv /\ Handled' = Handled => LateInv'
<1> DEFINE f(x) == IF x.obj = o THEN Item(null, x.due) ELSE x
<1>0. Items' = {f(x) : x \in Items}
  BY DEF ClearItem
<1>1. \A x \in Items : f(x).due = x.due /\ x.due \in Int
  BY DEF Typed, ItemRecords, Item
<1>2. IsFiniteSet(Items') /\ Cardinality(Items') <= Cardinality(Items)
  <2> DEFINE F == [x \in Items |-> f(x)]
  <2>1. F \in [Items -> Items'] /\ \A t \in Items' : \E s \in Items : F[s] = t
    BY <1>0
  <2>2. IsFiniteSet(Items)
    BY DEF Fits
  <2> HIDE DEF F
  <2> QED
    BY <2>1, <2>2, ImageSize
<1>3. ASSUME NEW due \in Int
      PROVE  Cardinality(Ahead(due)') \in Nat /\ Cardinality(Ahead(due)') <= Cardinality(Ahead(due)) - 0
  <2> DEFINE S == Ahead(due)
             T == Ahead(due)'
             F == [x \in S |-> f(x)]
  <2>1. F \in [S -> T] /\ \A t \in T : \E s \in S : F[s] = t
    <3> HIDE DEF f
    <3> QED
      BY <1>0, <1>1 DEF Ahead
  <2>2. IsFiniteSet(S) /\ Cardinality(S) \in Nat
    BY Sizes
  <2> HIDE DEF F, S, T
  <2>3. IsFiniteSet(T) /\ Cardinality(T) <= Cardinality(S)
    BY <2>1, <2>2, ImageSize
  <2> QED
    BY <2>2, <2>3, FS_CardinalityType DEF S, T
<1>4. ASSUME LateInv, Handled' = Handled PROVE LateInv'
  <2>1. \A y \in Items' : y.due \in Int /\ \E x \in Items : x.due = y.due
    <3> HIDE DEF f
    <3> QED
      BY <1>0, <1>1
  <2>2. Handled' <= Handled + 0
    BY <1>4, HandledFact
  <2>3. \A y \in Items' : y.due < 0 =>
           /\ \E x \in Items : x.due = y.due
           /\ Cardinality(Ahead(y.due)') \in Nat
           /\ Cardinality(Ahead(y.due)') <= Cardinality(Ahead(y.due)) - 0
    <3> SUFFICES ASSUME NEW y \in Items', y.due < 0
                 PROVE  /\ \E x \in Items : x.due = y.due
                        /\ Cardinality(Ahead(y.due)') \in Nat
                        /\ Cardinality(Ahead(y.due)') <= Cardinality(Ahead(y.due)) - 0
      OBVIOUS
    <3>1. PICK x \in Items : x.due = y.due /\ x.due \in Int
      BY <1>1, <2>1
    <3>2. /\ Cardinality(Ahead(x.due)') \in Nat
          /\ Cardinality(Ahead(x.due)') <= Cardinality(Ahead(x.due)) - 0
      <4> DEFINE due == x.due
      <4>1. PICK d \in Int : d = x.due
        BY <3>1
      <4>2. Cardinality(Ahead(d)') \in Nat /\ Cardinality(Ahead(d)') <= Cardinality(Ahead(d)) - 0
        BY <1>3
      <4>3. Ahead(d)' = {z \in Items' : z.due <= d} /\ Ahead(d) = Ahead(x.due)
        BY <4>1 DEF Ahead
      <4> QED
        BY <4>1, <4>2, <4>3 DEF Ahead
    <3> QED
      BY <3>1, <3>2 DEF Ahead
  <2> QED
    BY <1>4, <2>2, <2>3, TurnKept
<1> QED
  BY <1>2, <1>4, FS_CardinalityType

\* Items are added that are not due.
LEMMA Added ==
    ASSUME Typed, Typed', Fits, LateInv, NEW S, IsFiniteSet(S), Items' = Items \union S,
           \A x \in S : x.due >= 0, Handled' <= Handled \/ \A x \in Items : x.due >= 0
    PROVE  /\ IsFiniteSet(Items') /\ Cardinality(Items') \in Nat
           /\ Cardinality(Items') <= Cardinality(Items) + Cardinality(S)
           /\ LateInv'
<1>1. /\ IsFiniteSet(Items') /\ Cardinality(Items') \in Nat
      /\ Cardinality(Items') <= Cardinality(Items) + Cardinality(S)
  <2>1. IsFiniteSet(Items) /\ Cardinality(Items) \in Nat
    BY Sizes DEF Fits
  <2>2. Cardinality(S) \in Nat /\ Cardinality(Items \cap S) \in Nat
    BY <2>1, FS_Intersection, FS_CardinalityType
  <2>3. /\ IsFiniteSet(Items \union S)
        /\ Cardinality(Items \union S) =
              Cardinality(Items) + Cardinality(S) - Cardinality(Items \cap S)
    BY <2>1, FS_Union
  <2>4. /\ IsFiniteSet(Items') /\ Cardinality(Items') \in Nat
        /\ Cardinality(Items') =
              Cardinality(Items) + Cardinality(S) - Cardinality(Items \cap S)
    BY <2>3, FS_CardinalityType
  <2> QED
    BY <2>1, <2>2, <2>4
<1>2. LateInv'
  <2>1. ASSUME \A x \in Items : x.due >= 0 PROVE LateInv'
    <3>1. \A y \in Items' : y.due >= 0
      BY <2>1
    <3>2. \A y \in Items' : y.due \in Int
      BY DEF Typed, ItemRecords
    <3> QED
      BY <3>1, <3>2 DEF LateInv
  <2>2. ASSUME Handled' <= Handled PROVE LateInv'
    <3>1. Handled' <= Handled + 0
      BY <2>2, HandledFact
    <3>2. ASSUME NEW y \in Items', y.due < 0
          PROVE  /\ y \in Items /\ Ahead(y.due)' = Ahead(y.due) /\ y.due \in Int
                 /\ Cardinality(Ahead(y.due)) \in Nat
      <4>1. \A x \in Items' : x.due \in Int
        BY DEF Typed, ItemRecords
      <4>2. y \in Items /\ y.due \in Int
        BY <3>2, <4>1
      <4>3. Ahead(y.due)' = Ahead(y.due)
        BY <3>2, <4>1 DEF Ahead
      <4> QED
        BY <4>2, <4>3, Sizes
    <3>3. \A y \in Items' : y.due < 0 =>
             /\ \E x \in Items : x.due = y.due
             /\ Cardinality(Ahead(y.due)') \in Nat
             /\ Cardinality(Ahead(y.due)') <= Cardinality(Ahead(y.due)) - 0
      BY <3>2
    <3> QED
      BY <3>1, <3>3, TurnKept
  <2> QED
    BY <2>1, <2>2
<1> QED
  BY <1>1, <1>2

\* The first item is taken.
LEMMA Taken ==
    ASSUME Typed, Typed', Fits, LateInv, NEW x \in Due, Items' = Items \ {x},
           Handled' <= Handled + 1
    PROVE  /\ IsFiniteSet(Items') /\ Cardinality(Items') \in Nat
           /\ Cardinality(Items') = Cardinality(Items) - 1
           /\ LateInv'
<1>1. x \in Items /\ \A y \in Items : x.due <= y.due
  BY DEF Due
<1>2. IsFiniteSet(Items') /\ Cardinality(Items') \in Nat /\ Cardinality(Items') = Cardinality(Items) - 1
  BY <1>1, FS_RemoveElement, FS_CardinalityType DEF Fits
<1>3. ASSUME NEW y \in Items'
      PROVE  /\ Cardinality(Ahead(y.due)') \in Nat
             /\ Cardinality(Ahead(y.due)') <= Cardinality(Ahead(y.due)) - 1
  <2>1. y.due \in Int
    BY DEF Typed, ItemRecords
  <2>2. IsFiniteSet(Ahead(y.due)) /\ Cardinality(Ahead(y.due)) \in Nat
    BY <2>1, Sizes
  <2>3. Ahead(y.due)' = Ahead(y.due) \ {x} /\ x \in Ahead(y.due)
    BY <1>1 DEF Ahead
  <2> DEFINE A == Ahead(y.due)
             B == Ahead(y.due)'
  <2> HIDE DEF A, B
  <2>4. B = A \ {x} /\ x \in A /\ IsFiniteSet(A) /\ Cardinality(A) \in Nat
    BY <2>2, <2>3 DEF A, B
  <2>5. Cardinality(B) \in Nat /\ Cardinality(B) = Cardinality(A) - 1
    BY <2>4, FS_RemoveElement, FS_CardinalityType
  <2> QED
    BY <2>4, <2>5 DEF A, B
<1>4. \A y \in Items' : y.due < 0 =>
         /\ \E z \in Items : z.due = y.due
         /\ Cardinality(Ahead(y.due)') \in Nat
         /\ Cardinality(Ahead(y.due)') <= Cardinality(Ahead(y.due)) - 1
  BY <1>3
<1>5. LateInv'
  <2>1. 1 \in 0 .. 1
    OBVIOUS
  <2> QED
    BY <1>4, <2>1, TurnKept
<1> QED
  BY <1>2, <1>5

\* Every frame begins with time going by.
LEMMA TimePasses ==
    ASSUME Typed, Typed', Fits, LateInv, NEW d \in 1 .. MaxTick, Handled = 3, Handled' = 0,
           Items' = {Item(x.obj, x.due - d) : x \in Items}
    PROVE  /\ IsFiniteSet(Items') /\ Cardinality(Items') \in Nat
           /\ Cardinality(Items') <= Cardinality(Items)
           /\ LateInv'
<1> DEFINE f(x) == Item(x.obj, x.due - d)
<1>0. d \in Int /\ MaxTick \in Nat /\ d <= MaxTick /\ Capacity \in Nat
  BY TimeAssumption, FiniteObjects
<1>1. \A x \in Items : x.due \in Int /\ f(x).due = x.due - d
  BY DEF Typed, ItemRecords, Item
<1>2. IsFiniteSet(Items') /\ Cardinality(Items') \in Nat /\ Cardinality(Items') <= Cardinality(Items)
  <2> DEFINE F == [x \in Items |-> f(x)]
  <2>1. F \in [Items -> Items'] /\ \A t \in Items' : \E s \in Items : F[s] = t
    OBVIOUS
  <2>2. IsFiniteSet(Items)
    BY DEF Fits
  <2> HIDE DEF F
  <2> QED
    BY <2>1, <2>2, ImageSize, FS_CardinalityType
<1>3. ASSUME NEW x \in Items
      PROVE  LET A == Ahead(x.due) B == {y \in Items' : y.due <= x.due - d}
             IN  /\ Cardinality(B) \in Nat /\ Cardinality(B) <= Cardinality(A)
                 /\ Cardinality(A) \in Nat /\ Cardinality(A) <= Cardinality(Items)
  <2> DEFINE A == Ahead(x.due)
             B == {y \in Items' : y.due <= x.due - d}
             F == [y \in A |-> f(y)]
  <2>1. F \in [A -> B] /\ \A t \in B : \E s \in A : F[s] = t
    <3>1. \A y \in A : y \in Items /\ y.due <= x.due /\ f(y) \in Items'
      BY DEF Ahead
    <3>2. \A t \in B : \E y \in Items : t = f(y) /\ t.due <= x.due - d
      OBVIOUS
    <3> HIDE DEF f
    <3>3. \A y \in A : f(y) \in B
      BY <1>0, <1>1, <3>1
    <3>4. \A t \in B : \E y \in A : t = f(y)
      BY <1>0, <1>1, <3>2 DEF Ahead
    <3> QED
      BY <3>3, <3>4
  <2>2. x.due \in Int
    BY <1>1
  <2>3. IsFiniteSet(A) /\ Cardinality(A) \in Nat /\ Cardinality(A) <= Cardinality(Items)
    BY <2>2, Sizes
  <2> HIDE DEF A, B, F
  <2>4. IsFiniteSet(B) /\ Cardinality(B) <= Cardinality(A)
    BY <2>1, <2>3, ImageSize
  <2> QED
    BY <2>3, <2>4, FS_CardinalityType DEF A, B
<1>4. ASSUME NEW y \in Items', y.due < 0 PROVE InTurn(y)'
  <2>1. PICK x \in Items : y = f(x)
    OBVIOUS
  <2>2. x.due \in Int /\ y.due = x.due - d
    BY <1>1, <2>1
  <2> HIDE DEF f
  <2>3. PICK B : B = {z \in Items' : z.due <= x.due - d}
    OBVIOUS
  <2>4. Ahead(y.due)' = B
    BY <2>2, <2>3 DEF Ahead
  <2> DEFINE b == Cardinality(B)
             a == Cardinality(Ahead(x.due))
             T == MaxTick
             C == Capacity
             due == x.due
  <2>5. /\ b \in Nat /\ b <= a /\ a \in Nat /\ a <= Cardinality(Items)
    BY <1>3, <2>3
  <2>6. Cardinality(Items) <= C /\ Cardinality(Items) \in Nat
    <3>1. /\ Cardinality(ItemsProcessed) \in Nat /\ Cardinality(Pending) \in Nat
          /\ Cardinality(Items) \in Nat
      BY Sizes
    <3> QED
      BY <1>0, <3>1 DEF Fits, Entries
  <2>7. due < 0 => 3 * (-due) + T * a <= T * C
    BY <1>0 DEF LateInv, InTurn
  <2> HIDE DEF a, b, T, C, due
  <2>8. /\ due \in Int /\ d \in Int /\ d >= 1 /\ d <= T /\ T \in Nat /\ C \in Nat
        /\ b \in Nat /\ a \in Nat /\ b <= a /\ a <= C
    BY <1>0, <2>2, <2>5, <2>6 DEF T, C, due
  <2>9. T * b <= T * a /\ T * a <= T * C /\ T * (C + 3) = T * C + T * 3
    BY <2>8
  <2>10. T * b \in Int /\ T * a \in Int /\ T * C \in Int /\ T * 3 = 3 * T
    BY <2>8
  <2>11. 3 * (-(due - d)) + T * b <= T * (C + 3)
    <3> DEFINE tb == T * b
               ta == T * a
               tc == T * C
    <3> HIDE DEF tb, ta, tc
    <3>1. tb \in Int /\ ta \in Int /\ tc \in Int /\ tb <= ta /\ ta <= tc
      BY <2>9, <2>10 DEF tb, ta, tc
    <3>2. due < 0 => 3 * (-due) + ta <= tc
      BY <2>7 DEF ta, tc
    <3>3. 3 * (-(due - d)) + tb <= tc + 3 * T
      <4>1. CASE due < 0
        BY <2>8, <3>1, <3>2, <4>1
      <4>2. CASE due >= 0
        BY <2>8, <3>1, <4>2
      <4> QED
        BY <2>8, <4>1, <4>2
    <3> QED
      BY <2>9, <2>10, <3>3 DEF tb, tc
  <2>12. C + 3 - 0 = C + 3
    BY <2>8
  <2> QED
    BY <2>2, <2>4, <2>11, <2>12 DEF InTurn, b, T, C, due
<1> QED
  BY <1>2, <1>4 DEF LateInv

LEMMA FitsShrinks ==
    ASSUME Fits, IsFiniteSet(Items'), Cardinality(Items') \in Nat,
           Cardinality(Items') <= Cardinality(Items), ItemsProcessed' = ItemsProcessed,
           m_current_step_obj' \in {m_current_step_obj, null}, Pending' \subseteq Pending
    PROVE  Fits'
<1> DEFINE a == Cardinality(Items)
           b == Cardinality(ItemsProcessed)
           c == IF m_current_step_obj = null THEN 0 ELSE 1
           p == Cardinality(Pending)
           x == Cardinality(Items')
           y == IF m_current_step_obj' = null THEN 0 ELSE 1
           q == Cardinality(Pending')
<1>1. a \in Nat /\ b \in Nat /\ p \in Nat /\ IsFiniteSet(Pending)
  BY Sizes, FiniteObjects
<1>2. q \in Nat /\ q <= p
  BY <1>1, FS_Subset, FS_CardinalityType
<1>3. Entries = a + b + c + p /\ Entries' = x + b + y + q
  BY DEF Entries
<1>4. c \in 0 .. 1 /\ y \in 0 .. c
  OBVIOUS
<1> HIDE DEF a, b, c, p, x, y, q
<1>5. x \in Nat /\ x <= a
  BY DEF x, a
<1>6. Entries' <= Entries
  BY <1>1, <1>2, <1>3, <1>4, <1>5
<1>7. Entries \in Int /\ Entries' \in Int /\ Capacity \in Nat
  BY <1>1, <1>2, <1>3, <1>4, <1>5, FiniteObjects
<1>8. Entries <= Capacity /\ IsFiniteSet(ItemsProcessed)
  BY DEF Fits
<1>9. Entries' <= Capacity
  BY <1>6, <1>7, <1>8
<1> QED
  BY <1>8, <1>9 DEF Fits, Capacity

\* Calls of Unregister() add nothing.
LEMMA PendingAppended ==
    ASSUME Typed, NEW r \in OpRecords, ~r.OP, Registration' = Append(Registration, r)
    PROVE  Pending' \subseteq Pending
<1> DEFINE n == Len(Registration)
           s == Append(Registration, r)
<1>1. /\ n \in Nat /\ DOMAIN Registration = 1 .. n /\ DOMAIN s = 1 .. n + 1
      /\ s[n + 1] = r /\ \A k \in 1 .. n : s[k] = Registration[k]
  BY DEF Typed
<1> HIDE DEF n, s
<1>2. ASSUME NEW o \in Objects, NEW k \in DOMAIN s, s[k].obj = o, s[k].OP
      PROVE  k \in DOMAIN Registration /\ Registration[k].obj = o /\ Registration[k].OP
  BY <1>1, <1>2
<1> QED
  BY <1>2 DEF Pending, Calls, s

\* Neither do those that are applied or dropped.
LEMMA PendingTail ==
    ASSUME Typed, Registration # <<>>, Registration' = Tail(Registration)
    PROVE  Pending' \subseteq Pending
<1> DEFINE n == Len(Registration)
           s == Tail(Registration)
<1>1. /\ n \in Nat \ {0} /\ DOMAIN Registration = 1 .. n /\ DOMAIN s = 1 .. n - 1
      /\ \A k \in 1 .. n - 1 : s[k] = Registration[k + 1]
  BY DEF Typed
<1> HIDE DEF n, s
<1>2. ASSUME NEW k \in DOMAIN s
      PROVE  k + 1 \in DOMAIN Registration /\ s[k] = Registration[k + 1]
  BY <1>1
<1> QED
  BY <1>2 DEF Pending, Calls, s

LEMMA PendingSkipped ==
    ASSUME Typed, Registration # <<>>, RegisterSkipped
    PROVE  Pending' \subseteq Pending
<1> DEFINE n == Len(Registration)
           p == CHOOSE k \in Paired : \A m \in Paired : k <= m
           s == Tail(RemoveAt(Registration, p))
<1>1. Paired # {} /\ Registration' = s /\ n \in Nat /\ DOMAIN Registration = 1 .. n
  BY DEF RegisterSkipped, Typed
<1>2. p \in 2 .. n
  <2>1. Paired \in SUBSET (2 .. n) /\ Paired \in SUBSET Nat
    BY <1>1 DEF Paired
  <2>2. \E k \in Paired : \A m \in Paired : k <= m
    BY <1>1, <2>1, LeastElement
  <2> QED
    BY <2>1, <2>2
<1> HIDE DEF p
<1>3. /\ s \in Seq(OpRecords) /\ Len(s) = n - 2
      /\ \A k \in 1 .. n - 2 : s[k] = Registration[IF k < p - 1 THEN k + 1 ELSE k + 2]
  BY <1>2, RemoveAtTail DEF Typed
<1> HIDE DEF n, s
<1>4. ASSUME NEW k \in DOMAIN s
      PROVE  \E j \in DOMAIN Registration : s[k] = Registration[j]
  BY <1>1, <1>3
<1> QED
  BY <1>1, <1>4 DEF Pending, Calls

\* Once a Register() has been applied, the object is not to be added any more.
LEMMA PendingApplied ==
    ASSUME Typed, QueueInv, Registration # <<>>, Registration[1].OP, Paired = {},
           Registration' = Tail(Registration)
    PROVE  /\ Registration[1].obj \in Pending
           /\ Pending' \subseteq Pending \ {Registration[1].obj}
<1> DEFINE n == Len(Registration)
           s == Tail(Registration)
           o == Registration[1].obj
<1>1. /\ n \in Nat \ {0} /\ DOMAIN Registration = 1 .. n /\ DOMAIN s = 1 .. n - 1
      /\ \A k \in 1 .. n - 1 : s[k] = Registration[k + 1]
  BY DEF Typed
<1>2. 1 \in DOMAIN Registration /\ o \in Objects
  BY <1>1, QueuedOp DEF Typed
<1>3. \A j \in 2 .. n : Registration[j].obj # o
  BY LoneRegister DEF LastAt, SameObject
<1> HIDE DEF n, s, o
<1>4. ASSUME NEW k \in DOMAIN s PROVE s[k].obj # o
  <2>1. k + 1 \in 2 .. n /\ s[k] = Registration[k + 1]
    BY <1>1
  <2> QED
    BY <1>3, <2>1
<1>5. o \notin Pending'
  BY <1>4 DEF Pending, Calls, s
<1>6. o \in Pending
  BY <1>2 DEF Pending, Calls, o
<1> QED
  BY <1>5, <1>6, PendingTail DEF o

\* An object unregistered leaves the lists, or its item stays without it.
LEMMA UnregisterLate ==
    ASSUME Typed, Typed', Fits, LateInv, NEW o \in Objects, NEW real \in BOOLEAN,
           internal_Unregister(o, real), ItemsProcessed' = ItemsProcessed,
           Pending' \subseteq Pending, Handled' = Handled
    PROVE  Fits' /\ LateInv'
<1>1. m_current_step_obj' \in {m_current_step_obj, null}
  BY DEF internal_Unregister, EraseRT, ClearItem, ClearCurrent
<1>2. CASE Items' = Items
  <2>1. Cardinality(Items') \in Nat /\ IsFiniteSet(Items') /\ Cardinality(Items') <= Cardinality(Items)
    BY <1>2, Sizes DEF Fits
  <2>2. Handled' <= Handled
    BY HandledFact
  <2> QED
    BY <1>1, <1>2, <2>1, <2>2, FitsShrinks, SameItems
<1>3. CASE ClearItem(o)
  <2>1. /\ IsFiniteSet(Items') /\ Cardinality(Items') \in Nat
        /\ Cardinality(Items') <= Cardinality(Items) /\ LateInv'
    BY <1>3, Cleared
  <2> QED
    BY <1>1, <2>1, FitsShrinks
<1> QED
  BY <1>2, <1>3 DEF internal_Unregister, EraseRT, ClearCurrent

\* The objects to be pushed back.
Busy == {o \in Objects : InProcessed(o) \/ m_current_step_obj = o}

LEMMA BusySize ==
    ASSUME Typed, Apart
    PROVE  /\ Cardinality(Busy) \in Nat
           /\ Cardinality(ItemsProcessed) + (IF m_current_step_obj = null THEN 0 ELSE 1)
                <= Cardinality(Busy)
<1> DEFINE B == Busy
           P == ItemsProcessed
           c == m_current_step_obj
           f == [x \in P |-> x.obj]
<1>1. IsFiniteSet(B) /\ Cardinality(B) \in Nat
  <2>1. Busy \in SUBSET Objects
    BY DEF Busy
  <2> QED
    BY <2>1, FiniteObjects
<1>2. IsFiniteSet(P) /\ Cardinality(P) \in Nat
  BY ProcessedSize, FS_CardinalityType
<1>3. \A x \in P : x.obj \in Objects /\ x.obj # c /\ x.obj \in B
  BY DEF Typed, ProcessedRecords, Apart, Busy, InProcessed
<1>4. \A x, y \in P : x.obj = y.obj => x = y
  BY DEF Apart
<1>5. CASE c = null
  <2>1. f \in Injection(P, B)
    BY <1>3, <1>4 DEF Injection, IsInjective
  <2> HIDE DEF f, B, P
  <2>2. Cardinality(P) <= Cardinality(B)
    BY <1>1, <2>1, FS_Injection
  <2> QED
    BY <1>1, <1>2, <1>5, <2>2 DEF B, P
<1>6. CASE c # null
  <2>1. c \in B
    BY <1>6 DEF Busy, Typed
  <2>2. f \in Injection(P, B \ {c})
    BY <1>3, <1>4 DEF Injection, IsInjective
  <2> HIDE DEF f, B, P
  <2>3. IsFiniteSet(B \ {c}) /\ Cardinality(B \ {c}) = Cardinality(B) - 1
    BY <1>1, <2>1, FS_RemoveElement
  <2>4. Cardinality(P) <= Cardinality(B \ {c})
    BY <2>2, <2>3, FS_Injection
  <2> QED
    BY <1>1, <1>2, <1>6, <2>3, <2>4 DEF B, P
<1> QED
  BY <1>5, <1>6

\* Those of them that are also to be added have two calls in the queue: the one to
\* unregister them comes first.
LEMMA BusyPending ==
    ASSUME IInv
    PROVE  /\ Cardinality(Busy \cap Pending) \in Nat
           /\ 2 * Cardinality(Busy \cap Pending) <= Len(Registration)
<1> DEFINE T == Busy \cap Pending
           n == Len(Registration)
           K(op) == {k \in DOMAIN Registration :
                       Registration[k].OP = op /\ Registration[k].obj \in T}
           f(op) == [k \in K(op) |-> Registration[k].obj]
<1>1. n \in Nat /\ DOMAIN Registration = 1 .. n
  BY DEF IInv, Typed
<1>2. ASSUME NEW o \in T PROVE \E k \in K(TRUE) : Registration[k].obj = o
  <2>1. PICK k \in Calls(o) : Registration[k].OP
    BY DEF Pending
  <2>2. k \in DOMAIN Registration /\ Registration[k].obj = o /\ Registration[k].OP \in BOOLEAN
    BY <1>1, <2>1, QueuedOp DEF Calls, IInv, Typed
  <2> QED
    BY <2>1, <2>2
<1>3. ASSUME NEW o \in T PROVE \E k \in K(FALSE) : Registration[k].obj = o
  <2>1. o \in Objects /\ Listed(o) /\ Calls(o) # {}
    BY DEF Pending, Busy, Listed
  <2>2. Calls(o) \in SUBSET Nat
    BY <1>1 DEF Calls
  <2>3. PICK k \in Calls(o) : \A m \in Calls(o) : k <= m
    BY <2>1, <2>2, LeastElement
  <2>4. k \in DOMAIN Registration /\ Registration[k].obj = o /\ k \in 1 .. n
    BY <1>1, <2>3 DEF Calls
  <2>5. FirstAt(k)
    <3> SUFFICES ASSUME NEW j \in 1 .. k - 1, Registration[j].obj = Registration[k].obj
                 PROVE  FALSE
      BY DEF FirstAt, SameObject
    <3>1. j \in 1 .. n /\ j < k
      BY <1>1, <2>4
    <3>2. j \in Calls(o)
      BY <1>1, <2>4, <3>1 DEF Calls
    <3> QED
      BY <2>3, <2>4, <3>1, <3>2
  <2>6. ~Registration[k].OP
    BY <2>1, <2>4, <2>5 DEF IInv, QueueInv, FirstCall
  <2>7. Registration[k].OP \in BOOLEAN
    BY <1>1, <2>4, QueuedOp DEF IInv, Typed
  <2> QED
    BY <2>4, <2>6, <2>7
<1>4. ASSUME NEW op \in BOOLEAN
      PROVE  /\ IsFiniteSet(K(op)) /\ Cardinality(K(op)) \in Nat
             /\ Cardinality(T) <= Cardinality(K(op))
  <2>1. K(op) \in SUBSET (1 .. n) /\ IsFiniteSet(1 .. n)
    BY <1>1, FS_Interval
  <2>2. IsFiniteSet(K(op)) /\ Cardinality(K(op)) \in Nat
    BY <2>1, FS_Subset, FS_CardinalityType
  <2>3. f(op) \in [K(op) -> T]
    OBVIOUS
  <2>4. ASSUME NEW t \in T PROVE \E k \in K(op) : f(op)[k] = t
    <3>1. CASE op
      <4>1. PICK k \in K(TRUE) : Registration[k].obj = t
        BY <1>2
      <4>2. K(op) = K(TRUE)
        BY <3>1
      <4> QED
        BY <4>1, <4>2
    <3>2. CASE ~op
      <4>1. PICK k \in K(FALSE) : Registration[k].obj = t
        BY <1>3
      <4>2. K(op) = K(FALSE)
        BY <3>2
      <4> QED
        BY <4>1, <4>2
    <3> QED
      BY <3>1, <3>2
  <2> DEFINE S == K(op)
             g == f(op)
  <2>5. IsFiniteSet(S) /\ g \in [S -> T] /\ \A t \in T : \E k \in S : g[k] = t
    BY <2>2, <2>3, <2>4
  <2> HIDE DEF S, g, T
  <2>6. Cardinality(T) <= Cardinality(S)
    BY <2>5, ImageSize
  <2> QED
    BY <2>2, <2>6 DEF S
<1> DEFINE A == K(TRUE)
           B == K(FALSE)
<1>5. A \cap B = {} /\ A \cup B \subseteq 1 .. n
  BY <1>1
<1>6. /\ IsFiniteSet(A) /\ Cardinality(A) \in Nat /\ Cardinality(T) <= Cardinality(A)
      /\ IsFiniteSet(B) /\ Cardinality(B) \in Nat /\ Cardinality(T) <= Cardinality(B)
  BY <1>4
<1>7. Cardinality(T) \in Nat
  <2>1. T \in SUBSET Objects
    BY DEF Busy
  <2> QED
    BY <2>1, FiniteObjects
<1> HIDE DEF A, B, T, n
<1>8. Cardinality(A \cup B) = Cardinality(A) + Cardinality(B)
  <2>1. Cardinality(A \cup B) = Cardinality(A) + Cardinality(B) - Cardinality(A \cap B)
    BY <1>6, FS_Union
  <2>2. Cardinality(A \cap B) = 0
    BY <1>5, FS_EmptySet
  <2> QED
    BY <1>6, <2>1, <2>2
<1>9. Cardinality(A \cup B) <= n
  <2>1. IsFiniteSet(1 .. n) /\ Cardinality(1 .. n) = n
    BY <1>1, FS_Interval
  <2>2. Cardinality(A \cup B) <= Cardinality(1 .. n)
    BY <1>5, <2>1, FS_Subset
  <2> QED
    BY <2>1, <2>2
<1>10. 2 * Cardinality(T) <= n
  BY <1>1, <1>6, <1>7, <1>8, <1>9
<1> QED
  BY <1>7, <1>10 DEF T, n

\* All that is to be pushed back or added.
Crowd ==
    Cardinality(ItemsProcessed) + (IF m_current_step_obj = null THEN 0 ELSE 1)
    + Cardinality(Pending)
CrowdFits == Crowd \in Nat /\ Crowd <= Cardinality(Objects) + MaxQueue \div 2

QueueFits == Len(Registration) <= MaxQueue

LEMMA Crowded == IInv /\ QueueFits => CrowdFits
<1> SUFFICES ASSUME IInv, QueueFits PROVE CrowdFits
  OBVIOUS
<1> DEFINE b == Cardinality(Busy)
           p == Cardinality(Pending)
           t == Cardinality(Busy \cap Pending)
           u == Cardinality(Busy \cup Pending)
           n == Cardinality(Objects)
           l == Len(Registration)
           k == Cardinality(ItemsProcessed)
           c == IF m_current_step_obj = null THEN 0 ELSE 1
<1>1. Busy \in SUBSET Objects /\ Pending \in SUBSET Objects
  BY DEF Busy, Pending
<1>2. /\ IsFiniteSet(Busy) /\ IsFiniteSet(Pending) /\ b \in Nat /\ p \in Nat
      /\ n \in Nat /\ u \in Nat /\ u <= n
  <2>1. Busy \cup Pending \in SUBSET Objects
    BY <1>1
  <2> QED
    BY <1>1, <2>1, FiniteObjects
<1>3. u = b + p - t
  BY <1>2, FS_Union
<1>4. t \in Nat /\ 2 * t <= l
  BY BusyPending
<1>5. l \in Nat /\ MaxQueue \in Nat
  BY QueueAssumption DEF IInv, Typed
<1>6. k + c <= b /\ k \in Nat /\ c \in {0, 1}
  <2>1. k \in Nat
    BY ProcessedSize, FS_CardinalityType DEF IInv
  <2> QED
    BY <2>1, BusySize DEF IInv
<1> HIDE DEF b, p, t, u, n, l, k, c
<1>7. t <= MaxQueue \div 2
  BY <1>4, <1>5 DEF l, QueueFits
<1>8. MaxQueue \div 2 \in Nat
  BY <1>5
<1>9. k + c + p <= n + MaxQueue \div 2 /\ k + c + p \in Nat
  BY <1>2, <1>3, <1>4, <1>6, <1>7, <1>8
<1> QED
  BY <1>9 DEF CrowdFits, Crowd, k, c, p, n

\* Nothing moves, or less is to come.
LEMMA StillLate ==
    ASSUME Typed, Typed', Fits, LateInv, UNCHANGED <<Items, ItemsProcessed, m_current_step_obj>>,
           Pending' \subseteq Pending, Handled' <= Handled
    PROVE  Fits' /\ LateInv'
<1>1. IsFiniteSet(Items') /\ Cardinality(Items') \in Nat /\ Cardinality(Items') <= Cardinality(Items)
  BY Sizes DEF Fits
<1> QED
  BY <1>1, FitsShrinks, SameItems

LEMMA SamePending == Registration' = Registration => Pending' \subseteq Pending
BY DEF Pending, Calls

LEMMA SameHandled == Typed /\ pc' = pc /\ i' = i => Handled' <= Handled /\ Handled' = Handled
<1> SUFFICES ASSUME Typed, pc' = pc, i' = i PROVE Handled' <= Handled /\ Handled' = Handled
  OBVIOUS
<1>1. Handled' = Handled
  BY DEF Handled
<1> QED
  BY <1>1, HandledFact

\* There is room for what is registered, even when all objects of this frame are
\* still to be pushed back.
LEMMA RegisterLate ==
    ASSUME IInv, IInv', Fits, LateInv, NEW o \in Objects, NEW real \in BOOLEAN,
           Register(o, real)
    PROVE  Fits' /\ LateInv'
<1>1. /\ Cardinality(Items) < MaxItems
      /\ UNCHANGED <<Items, ItemsProcessed, m_current_step_obj, pc, i>>
  BY DEF Register, lists, loops
<1>2. LateInv'
  BY <1>1, SameHandled, SameItems DEF IInv
<1>3. QueueFits'
  <2> DEFINE r == Op(TRUE, real, o)
  <2>1. Registration \in Seq(OpRecords) /\ Len(Registration) < MaxQueue
        /\ Registration' = Append(Registration, r)
    BY DEF Register, IInv, Typed
  <2> HIDE DEF r
  <2>2. Len(Registration') = Len(Registration) + 1 /\ Len(Registration) \in Nat
    BY <2>1
  <2> QED
    BY <2>1, <2>2, QueueAssumption DEF QueueFits
<1>4. CrowdFits'
  BY <1>3, Crowded, PTL
<1> DEFINE a == Cardinality(Items)
           b == Cardinality(ItemsProcessed)
           c == IF m_current_step_obj = null THEN 0 ELSE 1
           q == Cardinality(Pending')
           n == Cardinality(Objects)
           h == MaxQueue \div 2
<1>5. Entries' = a + b + c + q
  BY <1>1 DEF Entries
<1>6. b + c + q \in Nat /\ b + c + q <= n + h
  BY <1>1, <1>4 DEF CrowdFits, Crowd
<1>7. /\ a \in Nat /\ b \in Nat /\ c \in 0 .. 1 /\ n \in Nat /\ h \in Nat /\ a < MaxItems
  BY <1>1, Sizes, FiniteObjects, QueueAssumption
<1>8. MaxItems \in Nat /\ MaxItems # 0 /\ Capacity = MaxItems - 1 + n + h
  BY <1>7, QueueAssumption DEF Capacity
<1>9. q \in Int
  <2>1. Pending' \in SUBSET Objects
    BY DEF Pending
  <2> QED
    BY <2>1, FiniteObjects
<1> HIDE DEF a, b, c, q, n, h
<1>10. Entries' <= Capacity
  BY <1>5, <1>6, <1>7, <1>8, <1>9
<1> QED
  BY <1>1, <1>2, <1>10 DEF Fits, Capacity

LEMMA ClientUnregisterLate ==
    ASSUME IInv, Typed', Fits, LateInv, NEW o \in Objects, Unregister(o)
    PROVE  Fits' /\ LateInv'
<1>1. /\ ItemsProcessed' = ItemsProcessed /\ pc' = pc /\ i' = i
      /\ Typed /\ b_RT[o] \in BOOLEAN
  BY DEF Unregister, loops, IInv, Typed
<1>2. CASE internal_Unregister(o, b_RT[o]) /\ UNCHANGED Registration
  BY <1>1, <1>2, SamePending, SameHandled, UnregisterLate
<1>3. CASE /\ Registration' = Append(Registration, Op(FALSE, b_RT[o], o))
           /\ UNCHANGED <<Items, ItemsRT, rt, m_current_step_obj>>
  <2> DEFINE r == Op(FALSE, b_RT[o], o)
  <2>1. r \in OpRecords /\ ~r.OP
    BY <1>1 DEF Op, OpRecords
  <2> HIDE DEF r
  <2>2. Pending' \subseteq Pending
    BY <1>1, <1>3, <2>1, PendingAppended DEF r
  <2> QED
    BY <1>1, <1>3, <2>2, SameHandled, StillLate
<1> QED
  BY <1>2, <1>3 DEF Unregister

LEMMA RegistrationLate ==
    ASSUME IInv, Typed', Fits, LateInv, internal_Registration
    PROVE  Fits' /\ LateInv'
<1>1. Registration # <<>> /\ pc' = pc /\ i' = i /\ Typed /\ QueueInv
  BY DEF internal_Registration, loops, IInv
<1>2. CASE RegisterSkipped
  <2>1. UNCHANGED <<Items, ItemsProcessed, m_current_step_obj>>
    BY <1>2 DEF RegisterSkipped, lists
  <2> QED
    BY <1>1, <1>2, <2>1, PendingSkipped, SameHandled, StillLate
<1>3. CASE UnregisterApplied
  <2> DEFINE r == Registration[1]
  <2>1. /\ internal_Unregister(r.obj, r.RT) /\ Registration' = Tail(Registration)
        /\ ItemsProcessed' = ItemsProcessed
    BY <1>3 DEF UnregisterApplied
  <2>2. r.obj \in Objects /\ r.RT \in BOOLEAN
    <3>1. 1 \in DOMAIN Registration
      BY <1>1 DEF Typed
    <3> QED
      BY <1>1, <3>1, QueuedOp DEF Typed
  <2> HIDE DEF r
  <2> QED
    BY <1>1, <2>1, <2>2, PendingTail, SameHandled, UnregisterLate
<1>4. CASE RegisterApplied
  <2> DEFINE r == Registration[1]
             S == IF r.RT THEN {} ELSE {Item(r.obj, 0)}
  <2>1. /\ r.OP /\ Paired = {} /\ Registration' = Tail(Registration)
        /\ Items' = Items \union S
        /\ UNCHANGED <<ItemsProcessed, m_current_step_obj>>
    BY <1>4 DEF RegisterApplied
  <2>2. IsFiniteSet(S) /\ Cardinality(S) \in 0 .. 1 /\ \A x \in S : x.due >= 0
    <3>1. CASE r.RT
      <4>1. S = {}
        BY <3>1
      <4> QED
        BY <4>1, FS_EmptySet
    <3>2. CASE ~r.RT
      <4> DEFINE y == Item(r.obj, 0)
      <4>1. S = {y} /\ y.due >= 0
        BY <3>2 DEF Item
      <4>2. IsFiniteSet({y}) /\ Cardinality({y}) = 1
        BY FS_Singleton
      <4> HIDE DEF S, y
      <4> QED
        BY <4>1, <4>2
    <3> QED
      BY <3>1, <3>2
  <2>3. r.obj \in Pending /\ Pending' \subseteq Pending \ {r.obj}
    BY <1>1, <2>1, PendingApplied
  <2> HIDE DEF S, r
  <2>4. /\ IsFiniteSet(Items') /\ Cardinality(Items') \in Nat
        /\ Cardinality(Items') <= Cardinality(Items) + Cardinality(S) /\ LateInv'
    BY <1>1, <2>1, <2>2, SameHandled, Added
  <2>5. Cardinality(Pending') \in Nat /\ Cardinality(Pending') <= Cardinality(Pending) - 1
    <3> DEFINE P == Pending
               Q == Pending'
               o == r.obj
    <3>1. IsFiniteSet(P) /\ Cardinality(P) \in Nat
      BY Sizes, FiniteObjects
    <3>2. o \in P /\ Q \subseteq P \ {o}
      BY <2>3
    <3> HIDE DEF P, Q, o
    <3>3. IsFiniteSet(P \ {o}) /\ Cardinality(P \ {o}) = Cardinality(P) - 1
      BY <3>1, <3>2, FS_RemoveElement
    <3>4. Cardinality(Q) \in Nat /\ Cardinality(Q) <= Cardinality(P \ {o})
      BY <3>2, <3>3, FS_Subset, FS_CardinalityType
    <3> QED
      BY <3>3, <3>4 DEF P, Q
  <2>6. Entries' <= Entries /\ Entries \in Nat /\ Entries' \in Nat
    <3> DEFINE a == Cardinality(Items)
               b == Cardinality(ItemsProcessed)
               c == IF m_current_step_obj = null THEN 0 ELSE 1
               p == Cardinality(Pending)
               x == Cardinality(Items')
               q == Cardinality(Pending')
               z == Cardinality(S)
    <3>1. Entries = a + b + c + p /\ Entries' = x + b + c + q
      BY <2>1 DEF Entries
    <3>2. /\ a \in Nat /\ b \in Nat /\ c \in 0 .. 1 /\ p \in Nat /\ x \in Nat /\ q \in Nat
          /\ z \in 0 .. 1 /\ x <= a + z /\ q <= p - 1
      BY <2>2, <2>4, <2>5, Sizes
    <3> HIDE DEF a, b, c, p, x, q, z
    <3> QED
      BY <3>1, <3>2
  <2>7. Entries' <= Capacity
    BY <2>6, FiniteObjects DEF Fits
  <2> QED
    BY <2>1, <2>4, <2>7 DEF Fits, Capacity
<1> QED
  BY <1>2, <1>3, <1>4 DEF internal_Registration

\* If nothing is due, no item is late: a finite set has an earliest item.
LEMMA NothingDue ==
    ASSUME Typed, Fits, LateInv, Due = {}, NEW x \in Items
    PROVE  x.due >= 0
<1> SUFFICES ASSUME x.due < 0 PROVE FALSE
  BY DEF Typed, ItemRecords
<1> DEFINE B == MaxTick * (Capacity + 3)
           L == {y \in Items : y.due < 0}
           I == {B + y.due : y \in L}
<1>1. \A y \in Items : y.due \in Int
  BY DEF Typed, ItemRecords
<1>2. B \in Nat
  BY FiniteObjects, TimeAssumption
<1>3. ASSUME NEW y \in L PROVE B + y.due \in Nat
  <2> DEFINE a == Cardinality(Ahead(y.due))
             h == Handled
             T == MaxTick
             C == Capacity
             due == y.due
  <2>1. due \in Int /\ due < 0 /\ y \in Items
    BY <1>1
  <2>2. 3 * (-due) + T * a <= T * (C + 3 - h)
    BY <2>1 DEF LateInv, InTurn
  <2>3. a \in Nat /\ h \in 0 .. 3 /\ C \in Nat /\ T \in Nat
    BY <2>1, Sizes, HandledFact, FiniteObjects, TimeAssumption
  <2> HIDE DEF a, h, T, C, due
  <2>4. T * a \in Nat /\ T * (C + 3 - h) \in Int /\ T * (C + 3 - h) <= T * (C + 3)
        /\ T * (C + 3) \in Nat
    BY <2>3
  <2>5. T * (C + 3) + due >= 0
    <3> DEFINE p == T * a
               q == T * (C + 3 - h)
               r == T * (C + 3)
    <3>1. p \in Nat /\ q \in Int /\ q <= r /\ r \in Nat /\ 3 * (-due) + p <= q
      BY <2>2, <2>4
    <3> HIDE DEF p, q, r
    <3>2. r + due >= 0
      BY <3>1, <2>1
    <3> QED
      BY <3>2 DEF r
  <2> QED
    BY <2>1, <2>4, <2>5 DEF due, T, C
<1> HIDE DEF B
<1>4. I \in SUBSET Nat /\ I # {}
  BY <1>3
<1>5. PICK n \in I : \A m \in I : n <= m
  BY <1>4, LeastElement
<1>6. PICK y \in L : n = B + y.due
  BY <1>5
<1>7. ASSUME NEW z \in Items PROVE y.due <= z.due
  <2>1. CASE z.due < 0
    <3>1. B + z.due \in I
      BY <2>1
    <3>2. B + y.due <= B + z.due
      BY <1>5, <1>6, <3>1
    <3>3. y.due \in Int /\ z.due \in Int
      BY <1>1
    <3> QED
      BY <1>2, <3>2, <3>3
  <2>2. CASE ~(z.due < 0)
    BY <1>1, <2>2
  <2> QED
    BY <2>1, <2>2
<1>8. y \in Due
  BY <1>7 DEF Due
<1> QED
  BY <1>8

LEMMA EndStepLate ==
    ASSUME IInv, Typed', Fits, LateInv, EndStep
    PROVE  Fits' /\ LateInv'
<1>1. /\ Items' = Items \union ItemsProcessed /\ ItemsProcessed' = {}
      /\ m_current_step_obj' = m_current_step_obj /\ Registration' = Registration
      /\ pc' = "registerAfter"
  BY DEF EndStep
<1>2. \A x \in ItemsProcessed : x.due >= 0
  BY DEF IInv, Typed, ProcessedRecords
<1>3. Handled' <= Handled \/ \A x \in Items : x.due >= 0
  <2>1. CASE pc = "stepEnd"
    BY <1>1, <2>1 DEF Handled
  <2>2. CASE Due = {}
    BY <2>2, NothingDue DEF IInv
  <2> QED
    BY <2>1, <2>2 DEF EndStep
<1>4. /\ IsFiniteSet(Items') /\ Cardinality(Items') \in Nat
      /\ Cardinality(Items') <= Cardinality(Items) + Cardinality(ItemsProcessed) /\ LateInv'
  <2>1. IsFiniteSet(ItemsProcessed) /\ Typed
    BY DEF Fits, IInv
  <2> QED
    BY <1>1, <1>2, <1>3, <2>1, Added
<1>5. IsFiniteSet(ItemsProcessed') /\ Cardinality(ItemsProcessed') = 0
  BY <1>1, FS_EmptySet
<1>6. Pending' = Pending
  BY <1>1 DEF Pending, Calls
<1> DEFINE a == Cardinality(Items)
           b == Cardinality(ItemsProcessed)
           c == IF m_current_step_obj = null THEN 0 ELSE 1
           p == Cardinality(Pending)
           x == Cardinality(Items')
<1>7. Entries = a + b + c + p /\ Entries' = x + 0 + c + p
  BY <1>1, <1>5, <1>6 DEF Entries
<1>8. a \in Nat /\ b \in Nat /\ c \in 0 .. 1 /\ p \in Nat /\ x \in Nat /\ x <= a + b
  BY <1>4, Sizes
<1> HIDE DEF a, b, c, p, x
<1>9. Entries' <= Entries /\ Entries \in Nat /\ Entries' \in Nat
  BY <1>7, <1>8
<1>10. Entries' <= Capacity
  BY <1>9, FiniteObjects DEF Fits
<1> QED
  BY <1>4, <1>5, <1>10 DEF Fits, Capacity

\* What is taken from the heap is dropped, or is updated next.
LEMMA TakenLate ==
    ASSUME IInv, Typed', Fits, LateInv, NEW x \in Due, Items' = Items \ {x},
           Handled' <= Handled + 1, UNCHANGED <<ItemsProcessed, Registration>>, pc = "step"
    PROVE  Fits' /\ LateInv'
<1>1. /\ IsFiniteSet(Items') /\ Cardinality(Items') \in Nat
      /\ Cardinality(Items') = Cardinality(Items) - 1 /\ LateInv'
  BY Taken DEF IInv
<1>2. m_current_step_obj = null
  BY DEF IInv, Phases
<1>3. Pending' = Pending
  BY DEF Pending, Calls
<1> DEFINE a == Cardinality(Items)
           b == Cardinality(ItemsProcessed)
           c == IF m_current_step_obj' = null THEN 0 ELSE 1
           p == Cardinality(Pending)
           y == Cardinality(Items')
<1>4. Entries = a + b + 0 + p /\ Entries' = y + b + c + p
  BY <1>2, <1>3 DEF Entries
<1>5. a \in Nat /\ b \in Nat /\ c \in 0 .. 1 /\ p \in Nat /\ y \in Nat /\ y = a - 1
  BY <1>1, Sizes
<1> HIDE DEF a, b, c, p, y
<1>6. Entries' <= Entries /\ Entries \in Nat /\ Entries' \in Nat
  BY <1>4, <1>5
<1>7. Entries' <= Capacity
  BY <1>6, FiniteObjects DEF Fits
<1> QED
  BY <1>1, <1>7 DEF Fits, Capacity

LEMMA ReturnProcessedLate ==
    ASSUME IInv, Typed', Fits, LateInv, ReturnProcessed
    PROVE  Fits' /\ LateInv'
<1>1. PICK period \in 1 .. MaxPeriod :
        ItemsProcessed' = ItemsProcessed \cup {Item(m_current_step_obj, period)}
  BY DEF ReturnProcessed
<1> DEFINE z == Item(m_current_step_obj, period)
           P == ItemsProcessed
<1>2. /\ m_current_step_obj # null /\ m_current_step_obj' = null /\ Items' = Items
      /\ Registration' = Registration /\ pc = "stepUpdate"
  BY DEF ReturnProcessed
<1>3. Handled' <= Handled
  <2>1. i \in {0, 1, 2} /\ i' = (i + 1) % 3 /\ Handled = i + 1
    BY <1>2 DEF ReturnProcessed, IInv, Typed, Handled
  <2>2. \/ pc' = "step"
        \/ i = 2 /\ pc' = "stepEnd"
    BY <2>1 DEF ReturnProcessed
  <2>3. Handled' = IF pc' = "step" THEN i' ELSE 3
    BY <2>2 DEF Handled
  <2> QED
    BY <2>1, <2>2, <2>3
<1>4. LateInv'
  BY <1>2, <1>3, SameItems DEF IInv
<1>5. IsFiniteSet(P) /\ Cardinality(P) \in Nat
  BY Sizes DEF Fits
<1> HIDE DEF z, P
<1>6. /\ IsFiniteSet(P \cup {z}) /\ Cardinality(P \cup {z}) \in Nat
      /\ Cardinality(P \cup {z}) <= Cardinality(P) + 1
  <2>1. IsFiniteSet(P \cup {z})
    BY <1>5, FS_AddElement
  <2>2. Cardinality(P \cup {z}) = Cardinality(P) \/ Cardinality(P \cup {z}) = Cardinality(P) + 1
    BY <1>5, FS_AddElement
  <2> QED
    BY <1>5, <2>1, <2>2
<1>7. ItemsProcessed' = P \cup {z}
  BY <1>1 DEF z, P
<1>8. Pending' = Pending
  BY <1>2 DEF Pending, Calls
<1> DEFINE a == Cardinality(Items)
           b == Cardinality(ItemsProcessed)
           p == Cardinality(Pending)
           y == Cardinality(ItemsProcessed')
<1>9. Entries = a + b + 1 + p /\ Entries' = a + y + 0 + p
  BY <1>2, <1>8 DEF Entries
<1>10. a \in Nat /\ b \in Nat /\ p \in Nat /\ y \in Nat /\ y <= b + 1
  BY <1>6, <1>7, Sizes DEF P
<1> HIDE DEF a, b, p, y
<1>11. Entries' <= Entries /\ Entries \in Nat /\ Entries' \in Nat
  BY <1>9, <1>10
<1>12. Entries' <= Capacity
  BY <1>11, FiniteObjects DEF Fits
<1>13. IsFiniteSet(ItemsProcessed') /\ IsFiniteSet(Items')
  BY <1>2, <1>6, <1>7 DEF Fits
<1> QED
  BY <1>4, <1>12, <1>13 DEF Fits, Capacity

LEMMA BeginUpdateLate ==
    ASSUME IInv, Typed', Fits, LateInv, BeginUpdate
    PROVE  Fits' /\ LateInv'
<1>1. PICK d \in 1 .. MaxTick : Items' = {Item(x.obj, x.due - d) : x \in Items}
  BY DEF BeginUpdate
<1>2. pc = "idle" /\ pc' = "registerBefore"
      /\ UNCHANGED <<ItemsProcessed, m_current_step_obj, Registration>>
  BY DEF BeginUpdate
<1>3. Handled = 3 /\ Handled' = 0
  BY <1>2 DEF Handled
<1>4. /\ IsFiniteSet(Items') /\ Cardinality(Items') \in Nat
      /\ Cardinality(Items') <= Cardinality(Items) /\ LateInv'
  BY <1>1, <1>3, TimePasses DEF IInv
<1> QED
  BY <1>2, <1>4, SamePending, FitsShrinks

LEMMA DestroyLate ==
    ASSUME IInv, Typed', Fits, LateInv, Destroy
    PROVE  Fits' /\ LateInv'
<1>1. Items' = {} /\ ItemsProcessed' = {} /\ Registration' = <<>>
      /\ m_current_step_obj' = m_current_step_obj
  BY DEF Destroy
<1>2. LateInv'
  BY <1>1 DEF LateInv
<1>3. m_current_step_obj' = null
  BY <1>1 DEF Destroy, IInv, Phases
<1>4. Pending' = {}
  BY <1>1 DEF Pending, Calls
<1>5. Entries' = 0
  BY <1>1, <1>3, <1>4, FS_EmptySet DEF Entries
<1> QED
  BY <1>1, <1>2, <1>5, FS_EmptySet, FiniteObjects DEF Fits, Capacity

LEMMA NextLate ==
    ASSUME IInv, IInv', Fits, LateInv, [Next]_vars
    PROVE  Fits' /\ LateInv'
<1>0. Typed /\ Typed'
  BY DEF IInv
<1>1. ASSUME NEW o \in Objects, NEW real \in BOOLEAN, Register(o, real) PROVE Fits' /\ LateInv'
  BY <1>1, RegisterLate
<1>2. ASSUME NEW o \in Objects, Unregister(o) PROVE Fits' /\ LateInv'
  BY <1>0, <1>2, ClientUnregisterLate
<1>3. ASSUME UNCHANGED <<Items, ItemsProcessed, m_current_step_obj, Registration, pc, i>>
      PROVE  Fits' /\ LateInv'
  BY <1>0, <1>3, SamePending, SameHandled, StillLate
<1>4. ASSUME UNCHANGED <<Items, ItemsProcessed, m_current_step_obj, Registration>>,
             Handled' <= Handled
      PROVE  Fits' /\ LateInv'
  BY <1>0, <1>4, SamePending, StillLate
<1>5. ASSUME NEW o \in Objects, SetDestroy(o) PROVE Fits' /\ LateInv'
  BY <1>3, <1>5 DEF SetDestroy, lists, loops
<1>6. ASSUME NEW o \in Objects, NEW before \in Objects, EnsureOrder(before, o)
      PROVE  Fits' /\ LateInv'
  BY <1>3, <1>6 DEF EnsureOrder, loops
<1>7. ASSUME Destroy PROVE Fits' /\ LateInv'
  BY <1>0, <1>7, DestroyLate
<1>8. ASSUME BeginUpdate PROVE Fits' /\ LateInv'
  BY <1>0, <1>8, BeginUpdateLate
<1>9. ASSUME internal_Registration PROVE Fits' /\ LateInv'
  BY <1>0, <1>9, RegistrationLate
<1>10. ASSUME BeginRealTime PROVE Fits' /\ LateInv'
  BY <1>4, <1>10 DEF BeginRealTime, lists, Handled
<1>11. ASSUME RealTimeItem PROVE Fits' /\ LateInv'
  <2>1. Handled' = 0 /\ Handled = 0
    BY <1>11 DEF RealTimeItem, Handled
  <2> QED
    BY <1>4, <1>11, <2>1 DEF RealTimeItem, lists
<1>12. ASSUME RealTimeReturn PROVE Fits' /\ LateInv'
  BY <1>4, <1>12 DEF RealTimeReturn, lists, Handled
<1>13. ASSUME BeginStep PROVE Fits' /\ LateInv'
  BY <1>4, <1>13 DEF BeginStep, lists, Handled
<1>14. ASSUME DropItem PROVE Fits' /\ LateInv'
  <2>1. PICK x \in Due : Items' = Items \ {x}
    BY <1>14 DEF DropItem
  <2>2. i \in {0, 1, 2} /\ pc = "step" /\ pc' = "step" /\ i' = (i + 1) % 3
    BY <1>0, <1>14 DEF DropItem, Typed
  <2>3. Handled' <= Handled + 1
    <3>1. Handled = i /\ Handled' = i'
      BY <2>2 DEF Handled
    <3> QED
      BY <2>2, <3>1
  <2> QED
    BY <1>0, <1>14, <2>1, <2>2, <2>3, TakenLate DEF DropItem
<1>15. ASSUME UpdateItem PROVE Fits' /\ LateInv'
  <2>1. PICK x \in Due : Items' = Items \ {x}
    BY <1>15 DEF UpdateItem
  <2>2. i \in {0, 1, 2} /\ pc = "step" /\ pc' = "stepUpdate" /\ i' = i
    BY <1>0, <1>15 DEF UpdateItem, Typed
  <2>3. Handled' <= Handled + 1
    <3>1. Handled = i /\ Handled' = i' + 1
      BY <2>2 DEF Handled
    <3> QED
      BY <2>2, <3>1
  <2> QED
    BY <1>0, <1>15, <2>1, <2>2, <2>3, TakenLate DEF UpdateItem
<1>16. ASSUME ReturnUnregistered PROVE Fits' /\ LateInv'
  <2>1. /\ i \in {0, 1, 2} /\ pc = "stepUpdate" /\ pc' = "step" /\ i' = (i + 1) % 3
        /\ UNCHANGED <<Items, ItemsProcessed, m_current_step_obj, Registration>>
    BY <1>0, <1>16 DEF ReturnUnregistered, Typed, lists
  <2>2. Handled = i + 1 /\ Handled' = i'
    BY <2>1 DEF Handled
  <2> QED
    BY <1>4, <2>1, <2>2
<1>17. ASSUME ReturnProcessed PROVE Fits' /\ LateInv'
  BY <1>0, <1>17, ReturnProcessedLate
<1>18. ASSUME EndStep PROVE Fits' /\ LateInv'
  BY <1>0, <1>18, EndStepLate
<1>19. ASSUME EndUpdate PROVE Fits' /\ LateInv'
  BY <1>4, <1>19 DEF EndUpdate, lists, Handled
<1>20. ASSUME UNCHANGED vars PROVE Fits' /\ LateInv'
  BY <1>3, <1>20 DEF vars
<1> QED
  BY <1>1, <1>2, <1>5, <1>6, <1>7, <1>8, <1>9, <1>10, <1>11, <1>12, <1>13, <1>14, <1>15,
     <1>16, <1>17, <1>18, <1>19, <1>20 DEF Next, Client, Update

LEMMA LateHolds == Spec => [](IInv /\ Fits /\ LateInv)
<1>1. Init => Fits /\ LateInv
  <2> SUFFICES ASSUME Init PROVE Fits /\ LateInv
    OBVIOUS
  <2>1. Items = {} /\ ItemsProcessed = {} /\ m_current_step_obj = null /\ Registration = <<>>
    BY DEF Init
  <2>2. Pending = {}
    BY <2>1 DEF Pending, Calls
  <2>3. Entries = 0
    BY <2>1, <2>2, FS_EmptySet DEF Entries
  <2> QED
    BY <2>1, <2>3, FS_EmptySet, FiniteObjects DEF Fits, LateInv
<1>2. IInv /\ IInv' /\ Fits /\ LateInv /\ [Next]_vars => Fits' /\ LateInv'
  BY NextLate
<1> QED
  BY <1>1, <1>2, InvHolds, PTL DEF Spec

\* Each frame takes three items from the heap, or all that are due, always the
\* earliest first, and the heap never holds more than Capacity items, whatever the
\* clients register and unregister in between: no item is late by more than the
\* time in which the frames work through all that may stand before it.
THEOREM NotLateHolds ==
    ASSUME 3 * (MaxLate + 1) > MaxTick * (Capacity + 2)
    PROVE  Spec => []NotLate
<1>1. IInv /\ Fits /\ LateInv => NotLate
  <2> SUFFICES ASSUME IInv, Fits, LateInv, NEW x \in Items, x.due < -MaxLate
               PROVE  FALSE
    BY TimeAssumption DEF NotLate, IInv, Typed, ItemRecords
  <2> DEFINE a == Cardinality(Ahead(x.due))
             h == Handled
             T == MaxTick
             C == Capacity
             due == x.due
  <2>1. x.due \in Int /\ x.due < 0 /\ MaxLate \in Nat
    BY TimeAssumption DEF IInv, Typed, ItemRecords
  <2>2. 3 * (-due) + T * a <= T * (C + 3 - h)
    BY <2>1 DEF LateInv, InTurn
  <2>3. a \in Nat /\ h \in 0 .. 3 /\ C \in Nat /\ T \in Nat
    BY <2>1, Sizes, HandledFact, FiniteObjects, TimeAssumption DEF IInv
  <2>4. a >= 1
    <3>1. x \in Ahead(x.due) /\ IsFiniteSet(Ahead(x.due))
      BY <2>1, Sizes DEF Ahead
    <3>2. a # 0
      BY <3>1, FS_EmptySet
    <3> QED
      BY <2>3, <3>2
  <2>5. 3 * (MaxLate + 1) > T * (C + 2) /\ due \in Int /\ due < -MaxLate
    BY <2>1
  <2> HIDE DEF a, h, T, C, due
  <2>6. /\ T * a >= T /\ T * (C + 3 - h) <= T * (C + 3) /\ T * (C + 3) = T * (C + 2) + T
        /\ T * a \in Nat /\ T * (C + 3 - h) \in Int /\ T * (C + 2) \in Nat
    BY <2>3, <2>4
  <2> DEFINE p == T * a
             q == T * (C + 3 - h)
             r == T * (C + 3)
             s == T * (C + 2)
  <2>7. /\ p >= T /\ q <= r /\ r = s + T /\ p \in Nat /\ q \in Int /\ s \in Nat
        /\ 3 * (-due) + p <= q /\ 3 * (MaxLate + 1) > s
    BY <2>2, <2>5, <2>6
  <2> HIDE DEF p, q, r, s
  <2> QED
    BY <2>1, <2>3, <2>5, <2>7
<1> QED
  BY <1>1, LateHolds, PTL

=============================================================================
